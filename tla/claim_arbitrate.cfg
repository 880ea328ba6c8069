SPECIFICATION Spec
CONSTANTS
    Node = {1, 2, 3}
    Name <- NumberAsName
    Preferred <- AllWantZero
    Arbitrary <- AllArbitrary
    Passive = {}
    Echo = {2}
    AddrMax = 1
    ScanTicks = 1
    ClaimTicks = 2
    Timely = TRUE
    MaxStops = 0
INVARIANTS TypeOK ExclusiveOwnership
PROPERTIES FailsOnlyOnFullBus YieldsOnlyToLower ImplementsOwnership
CHECK_DEADLOCK FALSE
