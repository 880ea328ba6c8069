SPECIFICATION HistorySpec
CONSTANTS
    MaxSessions = 2
    MaxFrames = 1
    MaxCmds = 2
    MaxQueue = 1
INVARIANTS OnlyFromThisSession
CHECK_DEADLOCK FALSE
