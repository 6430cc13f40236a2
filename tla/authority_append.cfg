SPECIFICATION FairSpec
CONSTANTS
  c1 = c1  c2 = c2  g1 = g1  g2 = g2  k1 = k1  k2 = k2  o1 = o1
  r1 = r1  r2 = r2  r3 = r3
  pa = pa  pA = pA  pb = pb  ta = ta  tb = tb
  NoPath = NoPath  NoKey = NoKey
  Paths = {pa, pA}
  PathKey <- MCPathKey
  Tokens = {ta, tb}
  MaxText = 2
  LiveLimit = 2
  Requests = {r1, r2, r3}
  Clients = {c1, c2}
  Grants = {g1, g2}
  GrantClient <- MCGrantClient
  Scopes <- WriteOnlyG2
  Keys = {k1, o1}
  OpaqueKeys = {o1}
  KeyTime <- KeyTimes
  Ttl = 1
  KeyPast = 1
  KeyFuture = 1
  Retention = 2
  ClientLimit = 2
  VaultLimit = 3
  CleanupBatch = 1
  FloorAge = 1
  HistoryLimit = 9
  FeedBatch = 2
  RowBatch = 1
  Calls <- FileCalls
  LastTime = 0
INVARIANTS TypeOK NoLiveAliases
PROPERTIES EveryRequestEnds ImplementsPromise RevokedNeverPublishes
CHECK_DEADLOCK FALSE
