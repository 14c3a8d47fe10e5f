SPECIFICATION FairSpec
CONSTANTS
    b1 = b1
    b2 = b2
    NoConn = NoConn
    NoBackend = NoBackend
    Hole = Hole
    Client = {t1, t2}
    Conn = {c1, c2}
    Backend <- MCTwoBackends
    BackendOf <- MCOneOnSecond
    MaxConns = 1
    MaxSize = 1
    MemLimit = 2
    QueueMax = 2
    Retries = 2
    Prefetch = 1
    Removable <- MCSecond
    MayClose = TRUE
INVARIANTS HandedOpen MemoryExact
PROPERTIES ImplementsLease AcquireReturns
