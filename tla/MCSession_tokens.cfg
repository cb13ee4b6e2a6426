SPECIFICATION Spec
CONSTANTS
    a = a
    p = p
    q = q
    None = None
    Ids = {a}
    Conns = {p, q}
    LoginId <- Two
    MaxLogins = 1
    MaxRestarts = 1
    StoreFails = FALSE
INVARIANTS
    TokensCleanedUp
CHECK_DEADLOCK FALSE
