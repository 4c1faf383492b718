SPECIFICATION FairSpec
CONSTANTS
    Model <- Models
    Channel = {1, 2}
    Route <- Routes
    RouteCycle = 2
    Request = {q1}
    ModelOf <- ModelOfAll
    MultiKey = {1}
    MaxSwitches = 4
INVARIANTS
    RescueHonoursPass
    NoRepeatBesideFreshPass
    RepeatHasReason
PROPERTY
    EveryRequestEnds
CHECK_DEADLOCK FALSE
