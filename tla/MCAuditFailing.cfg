CONSTANTS
  Paths = {"code", "test"}
  Symbols = {"unit"}
  Tags = {}
  Keys <- MCKeys
  Shas <- MCShas
  Times <- MCTimes
  KeepLast = 1
  Versions = {v1, v2}
  Edits = {e1}
  Defining <- MCDefining
  Absent = Absent
  Late = {"test"}
  Ontologies <- JustTested
  Measured <- MCMeasured
  Shapes <- MCShapes
SYMMETRY Symmetry
SPECIFICATION Spec
INVARIANT
  FailingBinaryIsReported
CHECK_DEADLOCK FALSE
