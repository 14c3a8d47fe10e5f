SPECIFICATION MCSpec
CONSTANTS
  s1 = s1
  s2 = s2
  t1 = t1
  t2 = t2
  q1 = q1
  q2 = q2
  q3 = q3
  i1 = i1
  i2 = i2
  i3 = i3
  Client <- MCClient
  Table <- MCTable
  Select <- MCSelect
  NoSelect = NoSelect
  Reads <- MCReads
  From <- MCFrom
  SizeOf <- MCSize
  MaxMemory = 4
  MaxVersion = 2
  Query <- MCQuery
  Id <- MCId
  NoQuery = NoQuery
  NoId = NoId
  MaxSize = 2
  Name <- MCId
  Sql <- MCQuery
  NoSql = NoSql
  NoStmtName = NoStmtName
  Capacity = 2
  MaxList = 5
  Item = {i1, i2}
  None = None
  Commands <- MCCommands
  SnapEvery = 3
  MaxCount = 2
  ApplyCap = 2
  Word = 16
  MaxEntries = 4
  MaxTerms = 2
  ClientConn = {k1, k2}
  Admin = {d1, d2}
  KindOf <- MCKindOf
  NoRouter = NoRouter
  MaxLists = 3
INVARIANTS Converged Recoverable StopCloses RouterCurrent StoreConsistent CachedFresh ByIDSound StmtBounded
CHECK_DEADLOCK FALSE
