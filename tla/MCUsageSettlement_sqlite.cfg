SPECIFICATION FairSpec
CONSTANTS
    c1 = c1
    c2 = c2
    c3 = c3
    c4 = c4
    r1 = r1
    r2 = r2
    r3 = r3
    anna = anna
    ben = ben
    NoUser = NoUser
    Database = Database
    Calls = {c1, c2, c3}
    Requests = {r1, r2, r3}
    Users = {anna, ben}
    RequestOf <- MCTwice
    Caller <- MCCaller
    ChannelOwner <- MCOwner
    Owners = {ben}
    Effective <- MCTokens
    Exempt = {r3}
    Initial <- MCBalances
    MaxAttempts = 2
    Engine = "sqlite"
INVARIANTS OneLogPerRequest ContentionIsRetried
PROPERTY EveryCallReturns
CHECK_DEADLOCK FALSE
