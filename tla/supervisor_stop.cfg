SPECIFICATION FairSpec
CONSTANTS
    MaxSessions = 1
    MaxFrames = 2
    MaxCmds = 1
    MaxQueue = 1
PROPERTIES StopIsBrief
CHECK_DEADLOCK FALSE
