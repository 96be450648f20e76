CONSTANTS
  Writers = {p1, p2}
  Paths = {"unit", "load"}
  Symbols = {"test"}
  Tags = {"k4"}
  Keys <- MCKeys
  Shas <- MCShas
  Times <- MCTimes
  KeepLast = 2
  Sources <- MCSources
SPECIFICATION Spec
INVARIANTS
  TypeOK
  ReaderSeesWholeDag
  TempFilesRemoved
PROPERTIES
  RerunIsNoOp
  ImplementsLedger
  EveryoneFinishes
CHECK_DEADLOCK FALSE
