SPECIFICATION Spec
CONSTANTS
  h1 = h1  h2 = h2  h3 = h3
  Paths = {pa}
  Hashes = {h1, h2}
  HashOrder <- MCHashOrder
  NoHash = NoHash
  Uploads = {u1, u2}
  Calls = {alarm, owner}
  NoCall = NoCall
  PageSize = 1
  BatchSize = 1
  MaxRuns = 2
INVARIANTS ReferencedStored MarkedUnreferenced FinishedRunSwept DeletesAreFenced
CHECK_DEADLOCK FALSE
