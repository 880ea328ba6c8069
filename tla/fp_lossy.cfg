SPECIFICATION Spec
CONSTANTS
    Key = {a, b}
    SeqCount = 2
    Slots = 2
    MaxIndex = 2
    Buses <- Wild
    MaxBursts = 3
    MaxLost = 2
INVARIANTS OneSlotPerBurst NoCrossTalk
CHECK_DEADLOCK FALSE
