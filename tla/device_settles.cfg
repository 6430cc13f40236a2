SPECIFICATION FairSpec
CONSTANTS
  Texts = {ta, tb}
  Absent = Absent
  NoKey = NoKey
  OpKeys = {k1, k2, k3, k4, k5}
  MaxEdits = 1
  MaxWrites = 2
  MaxFaults = 1
  MaxChanges = 3
  FreshChanges = 2
PROPERTIES Settles
