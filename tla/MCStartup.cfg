SPECIFICATION FairSpec
CONSTANTS
  u1 = u1
  u2 = u2
  Session = {s1, s2}
  Conn = {c1, c2}
  NoConn = NoConn
  RoleOf <- MCRole
  User <- MCUsers
  Stranger = Stranger
  NoName = NoName
  UserMax <- MCUserMax
  Allowed = {u1}
  ClientLimits = {1, 2}
  MaxAttempts = 1
  Addr = {a1, a2}
INVARIANTS NeverLockedOut NothingLeaked DedicatedUnlessCut
PROPERTY SessionsEnd
CHECK_DEADLOCK FALSE
