SPECIFICATION FairSpec
CONSTANTS
    MaxSessions = 2
    MaxFrames = 2
    MaxCmds = 2
    MaxQueue = 1
INVARIANTS StreamIsWhole OneReader CommandsInOrder
PROPERTIES SessionsEnd StopsAtNextEvent
CHECK_DEADLOCK FALSE
