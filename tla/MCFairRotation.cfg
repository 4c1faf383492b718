SPECIFICATION RotationSpec
CONSTANTS
    Model = {m1}
    Channel <- MCChannel
    Route <- MCRoute
    RouteCycle <- MCRouteCycle
INVARIANTS
    FairTurns
    RoutesUsedUp
