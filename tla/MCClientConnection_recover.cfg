SPECIFICATION FairSpec
CONSTANTS
    Socks = {1, 2, 3}
    MaxAttempts = 2
    MaxBreaks = 2
    None = None
INVARIANTS
    TypeOK
    MonitorNotStuck
    ClosedQuicIsClosed

    
CHECK_DEADLOCK FALSE
