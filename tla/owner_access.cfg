SPECIFICATION Spec
CONSTANTS
  p1 = p1  p2 = p2
  Clients = {c1}
  MaxConsents = 2
  Legacy = {1}
  MaxTokens = 1
  Exchanges = {x1}
  Posts = {p1, p2}
  ClientLimit = 2
  GrantLimit = 2
  ConsentLimit = 2
  ConsentTtl = 1
  StaleAge = 2
  CleanupBatch = 1
  Budget = 8
  MaxGen = 2
  MaxFaults = 1
  LastTime = 4
INVARIANTS RecalledNeverUsable CurrentConsentStands LeftoversStayListed
SYMMETRY Symmetry
CHECK_DEADLOCK FALSE
