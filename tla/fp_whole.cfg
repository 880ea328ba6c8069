SPECIFICATION Spec
CONSTANTS
    Key = {a, b}
    SeqCount = 2
    Slots = 4
    MaxIndex = 2
    Buses <- Tame
    MaxBursts = 3
    MaxLost = 2
INVARIANTS NeverMixed WholeBurstsEmitted
CHECK_DEADLOCK FALSE
