SPECIFICATION ReadsSpec
CONSTANTS
  pa = pa  pA = pA  pb = pb
  NoPath = NoPath  NoKey = NoKey
  Paths = {pa, pA}
  PathKey <- MCPathKey
  PathOrder <- MCPathOrder
  PageRows = 1
  Tokens = {ta}
  MaxText = 2
  LiveLimit = 2
  Requests = {}
  Clients = {}
  Grants = {}
  GrantClient <- Nobody
  Scopes <- Nobody
  Keys = {}
  OpaqueKeys = {}
  KeyTime <- Nobody
  Ttl = 1
  KeyPast = 0
  KeyFuture = 0
  Retention = 1
  ClientLimit = 1
  VaultLimit = 1
  CleanupBatch = 1
  FloorAge = 0
  HistoryLimit = 4
  FeedBatch = 1
  RowBatch = 1
  Pins <- MCPins
  MaxSeq = 3
  ClockEnd = 2
INVARIANTS ReaderIsCurrent TablesAgree
PROPERTIES RetentionSafe
CHECK_DEADLOCK FALSE
