SPECIFICATION SchedulerSpec
CONSTANTS
    r1 = r1
    r2 = r2
    r3 = r3
    r4 = r4
    Req = {r1, r2, r3, r4}
    Capacity = 1
    QueueSize = 2
    HasTimeout = TRUE
INVARIANTS
    SlotAccounting
PROPERTIES
    ImplementsSemaphore
    EveryWaiterAnswered
    NoWaiterTrapped
