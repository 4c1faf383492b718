SPECIFICATION Spec
CONSTANTS
    Requests = {r1, r2, r3}
    Configs <- MCConfigs
    MaxTries = 2
    MaxChanges = 1
    MaxMinutes = 1
INVARIANTS
    SlotsExact
    ConnectionsHaveSlots
    OneLimiterUntilChanged
    MinuteBudget
    WaitersHaveHolders
SYMMETRY MCSymmetry
CHECK_DEADLOCK FALSE
