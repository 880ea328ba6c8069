SPECIFICATION FairSpec
CONSTANTS
    Node = {1, 2, 3}
    Name <- NumberAsName
    Preferred <- AllWantZero
    Arbitrary <- AllArbitrary
    Passive = {3}
    Echo = {}
    AddrMax = 2
    ScanTicks = 1
    ClaimTicks = 1
    Timely = FALSE
    MaxStops = 1
INVARIANTS QuietMeansUnique
PROPERTIES EventuallySettled EventuallyAllOwn
CHECK_DEADLOCK FALSE
