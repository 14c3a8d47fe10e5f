SPECIFICATION RaftSpec
CONSTANTS
    Node = {n1, n2, n3}
    Nil = Nil
    MaxTerm = 2
    MaxLog = 1
    ApplyCap = 1
    MaxRestarts = 0
    MaxMsgs = 2
    MaxFaults = 0
    MaxBeats = 1
SYMMETRY MCNodeSymmetry
INVARIANTS ElectionSafety
CHECK_DEADLOCK FALSE
