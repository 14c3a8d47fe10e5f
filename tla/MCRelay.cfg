SPECIFICATION MCSpec
CONSTANTS
  s1 = s1
  s2 = s2
  p1 = p1
  p2 = p2
  r1 = r1
  Session <- MCSessions
  Conn <- MCConns
  NoConn = NoConn
  RoleOf <- MCRole
  FirstConn <- MCFirst
  MaxSent <- MCSent
  Leftover = {s1}
  MaxHandled = 3
  MaxTxn = 1
INVARIANTS WriteOwned  NothingLost PinnedInTxn PoolConnsHeld
CHECK_DEADLOCK FALSE
