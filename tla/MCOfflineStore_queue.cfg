SPECIFICATION Spec
CONSTANTS
    w = w
    login = login
    janitor = janitor
    Writers <- Queuers
    Clearers <- Cleaners
    MaxQueue = 2
    MaxMsgs = 3
    MaxCrash = 1
SYMMETRY EqualCleaners
INVARIANTS
    TypeOK
    QueueBounded
    FifoOrder
    
