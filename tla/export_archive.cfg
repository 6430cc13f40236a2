SPECIFICATION Spec
CONSTANTS
  txt = txt  bin = bin
  NumPaths = 2
  Contents = {txt, bin}
  Blobs = {bin}
  Size <- MCSize
  NoContent = NoContent
  Ids = {i1}
  StepSize = 2
  PartSize = 3
  MaxArchive = 5
  MaxWrites = 3
  MaxFaults = 2
INVARIANTS DownloadIsSnapshot WorkIntact
PROPERTIES EveryExportEnds
CHECK_DEADLOCK FALSE
