SPECIFICATION FairSpec
CONSTANTS
    Buffer = 2
    MaxProbe = 3
    MaxEvents = 5
INVARIANTS
    CleanEndIsWhole
    RecordTellsDelivery
PROPERTY
    NobodyBlocksForever
CHECK_DEADLOCK FALSE
