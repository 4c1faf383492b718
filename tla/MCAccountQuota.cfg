SPECIFICATION Spec
CONSTANTS
    c1 = c1
    c2 = c2
    c3 = c3
    NoCall = NoCall
    NoTime = NoTime
    Calls = {c1, c2}
    Reports <- MCReports
    OldReports <- MCOldReports
    MaxInt = 15
    Ceiling = 3
    DailyLimit = 2
    WeeklyLimit = 3
    DayLength = 2
    BeijingOffset = 1
    FirstWeekday = 6
    MaxClock = 3
    MaxDonations = 1
INVARIANTS
    TypeOK
    NothingNewIsHistorical
    AccountsTheDefinition
    QuotaHolds
    PaidOnce
CHECK_DEADLOCK FALSE
