SPECIFICATION Spec
CONSTANTS
  Texts = {ta, tb}
  Absent = Absent
  NoKey = NoKey
  OpKeys = {k1, k2, k3, k4, k5}
  MaxEdits = 3
  MaxWrites = 2
  MaxFaults = 2
  MaxChanges = 4
  FreshChanges = 3
SYMMETRY Symmetry
INVARIANTS NoEditLost BaseTrue CursorCovered SameKeySameRequest
PROPERTIES KnownOverwrites DeletesFollowEvents
