SPECIFICATION Spec
CONSTANTS
  Scopes <- MCScopes
  MaxActs = 4
  MaxFaults = 2
INVARIANTS DutyCovers ConnectedRuns
PROPERTY PausedStartsNothing
CHECK_DEADLOCK FALSE
