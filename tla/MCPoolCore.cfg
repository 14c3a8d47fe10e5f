SPECIFICATION Spec
CONSTANTS
    b1 = b1
    b2 = b2
    NoConn = NoConn
    NoBackend = NoBackend
    Hole = Hole
    Client = {t1, t2, t3}
    Conn = {c1, c2, c3, c4}
    Backend <- MCOneBackend
    BackendOf <- MCAllOnOne
    MaxConns = 1
    MaxSize = 2
    MemLimit = 4
    QueueMax = 2
    Retries = 2
    Prefetch = 0
    Removable <- MCNone
    MayClose = FALSE
SYMMETRY MCSymmetry
INVARIANTS IndexOK ExclusiveOwnership OvershootBound WaiterQueued OpenAccounted
PROPERTIES LongestWaiting
