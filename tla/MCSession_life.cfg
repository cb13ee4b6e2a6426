SPECIFICATION FairSpec
CONSTANTS
    a = a
    p = p
    q = q
    None = None
    Ids = {a}
    Conns = {p, q}
    LoginId <- Two
    MaxLogins = 2
    MaxRestarts = 1
    StoreFails = TRUE
INVARIANTS
    TypeOK
    
    NoGhostWhileLive
    NoDeadSession

    
CHECK_DEADLOCK FALSE
