SPECIFICATION MCSpec
CONSTANTS
  Peer = {p1}
  Client = {c1, c2}
  Self = Self
  EventCap = 1
  CommandCap = 1
  MaxSwim = 2
  MaxFlips = 2
  MaxApplied = 1
  Version = {1, 2, 3, 4}
  First = 1
  a = a
  b = b
  Pool = {a, b}
  None = None
  ByHand = ByHand
  PoolsOf <- MCPoolsOf
  Invalid = {4}
  Unsafe <- MCUnsafe
  Refused <- MCRefused
  Caller = {"signal"}
  MaxChanges = 2
  MaxCalls = 1
INVARIANTS MembersFollow SettledMatches
PROPERTIES CommandsServed LeadershipNoticed FileApplied
CHECK_DEADLOCK FALSE
