SPECIFICATION FairSpec
CONSTANTS
    AddrMax = 1
    Preferred = 0
    UserFrame <- EveryKind
    Own = Own
    Chunks <- TwoChunks
    SeqMod = 4
    TxCapacity = 3
    ScanTicks = 1
    ClaimTicks = 1
    DefaultInterval = 1
    ProductTicks = 1
    MaxHeard = 2
    MaxSends = 1
INVARIANTS TypeOK SentUnderOwnClaim AtomFresh Distinguishable
PROPERTIES Announced
