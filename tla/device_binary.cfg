SPECIFICATION Spec
CONSTANTS
  Bytes = {b1, b2, b3}
  Absent = Absent
  MaxCopies = 6
  Scenes = {"plain", "settings", "inline", "rename"}
  MaxEdits = 2
  MaxRows = 2
  MaxStops = 1
SYMMETRY Symmetry
INVARIANTS NoBytesLost StopsOnlyForEdits
PROPERTIES BaseConfirmed
CHECK_DEADLOCK FALSE
