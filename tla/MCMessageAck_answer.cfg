CONSTANTS
    a = a
    b = b
    c = c
    m = m
    n = n
    None = None
    Clients = {a, b, c}
    Flaky = {b}
    Msgs = {m, n}
    Traffic <- TwoMessages
SPECIFICATION FairSpec
INVARIANT TypeOK
INVARIANT AtMostOneAckReturn
INVARIANT SuccessIsHonest
INVARIANT NoTargetIsHonest
PROPERTY KeepsTicketPromise
PROPERTY PendingIsResolved
 
CHECK_DEADLOCK FALSE
