SPECIFICATION Spec
CONSTANTS
    Key = {a}
    SeqCount = 1
    Slots = 1
    MaxIndex = 2
    Buses <- Lossy
    MaxBursts = 3
    MaxLost = 2
INVARIANTS ZeroStartsFresh
CHECK_DEADLOCK FALSE
