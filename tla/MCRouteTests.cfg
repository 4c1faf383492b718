SPECIFICATION TestsFairSpec
CONSTANTS
    Tested = {r1, r2}
    Manual = {t1, t2}
    MaxStarts = 3
INVARIANTS
    NewestTestWins
    InflightIsExact
PROPERTY
    RouteTestableAgain
CHECK_DEADLOCK FALSE
