SPECIFICATION FairSpec
CONSTANTS
    MaxAttempts = 2
    ProbeLimit = 2
    MaxEvents = 4
INVARIANTS
    KeptStreamLives
    CompletedIsReal
    ChargedOnce
    BoundToTheAnswer
    CanceledMeansClientLeft
    EverythingSettled
PROPERTIES
    SilenceEnds
