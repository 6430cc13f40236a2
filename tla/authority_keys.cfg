SPECIFICATION Spec
CONSTANTS
  c1 = c1  c2 = c2  g1 = g1  g2 = g2  k1 = k1  k2 = k2  o1 = o1
  r1 = r1  r2 = r2  r3 = r3
  pa = pa  pA = pA  pb = pb  ta = ta  tb = tb
  NoPath = NoPath  NoKey = NoKey
  Paths = {pa}
  PathKey <- MCPathKey
  Tokens = {ta, tb}
  MaxText = 3
  LiveLimit = 2
  Requests = {r1, r2, r3}
  Clients = {c1}
  Grants = {g1}
  GrantClient <- SameClient
  Scopes <- AllScopes
  Keys = {k1}
  OpaqueKeys = {}
  KeyTime <- KeyTimes
  Ttl = 2
  KeyPast = 1
  KeyFuture = 1
  Retention = 2
  ClientLimit = 2
  VaultLimit = 3
  CleanupBatch = 1
  FloorAge = 1
  HistoryLimit = 9
  FeedBatch = 2
  RowBatch = 1
  Calls <- KeyCalls
  LastTime = 3
INVARIANTS AtMostOnce AnswersTruthful ClaimsOwned AdmissionsBounded
SYMMETRY Symmetry
CHECK_DEADLOCK FALSE
