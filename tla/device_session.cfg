SPECIFICATION Spec
CONSTANTS
  k1 = k1  k2 = k2
  Callers <- MCCallers
  Clients <- MCClients
  MaxTokens = 3
  MaxFaults = 2
  MaxTurns = 3
INVARIANTS IdentityAgrees SessionUsable StatusTrue
SYMMETRY Symmetry
CHECK_DEADLOCK FALSE
