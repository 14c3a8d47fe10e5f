SPECIFICATION RaftSpec
CONSTANTS
    Node = {n1, n2}
    Nil = Nil
    MaxTerm = 3
    MaxLog = 2
    ApplyCap = 1
    MaxRestarts = 1
    MaxMsgs = 1
    MaxFaults = 1
    MaxBeats = 0
SYMMETRY MCNodeSymmetry
INVARIANTS LogOrdered Durable
CHECK_DEADLOCK FALSE
