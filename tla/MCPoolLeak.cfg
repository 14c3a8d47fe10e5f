SPECIFICATION Spec
CONSTANTS
    b1 = b1
    b2 = b2
    NoConn = NoConn
    NoBackend = NoBackend
    Hole = Hole
    Client = {t1, t2}
    Conn = {c1, c2}
    Backend <- MCOneBackend
    BackendOf <- MCAllOnOne
    MaxConns = 1
    MaxSize = 1
    MemLimit = 0
    QueueMax = 2
    Retries = 1
    Prefetch = 0
    Removable <- MCNone
    MayClose = FALSE
INVARIANTS ActiveHasOwner
