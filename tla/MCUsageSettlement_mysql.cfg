SPECIFICATION Spec
CONSTANTS
    c1 = c1
    c2 = c2
    c3 = c3
    c4 = c4
    r1 = r1
    r2 = r2
    r3 = r3
    anna = anna
    ben = ben
    NoUser = NoUser
    Database = Database
    Calls = {c1, c2, c3, c4}
    Requests = {r1, r2, r3}
    Users = {anna, ben}
    RequestOf <- MCAll
    Caller <- MCCaller
    ChannelOwner <- MCOwner
    Owners = {}
    Effective <- MCTokens
    Exempt = {}
    Initial <- MCBalances
    MaxAttempts = 2
    Engine = "mysql"
INVARIANTS NeverOverdrawn WalletsMatchLedger SettledOnce
PROPERTY SettlesAtomically
SYMMETRY MCTwins
CHECK_DEADLOCK FALSE
