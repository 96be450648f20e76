CONSTANTS
  Paths = {"code", "test"}
  Symbols = {"unit"}
  Tags = {}
  Keys <- MCKeys
  Shas <- MCShas
  Times <- MCTimes
  KeepLast = 1
  Versions = {v1, v2}
  Edits = {e1}
  Defining <- MCDefining
  Absent = Absent
  Late = {"test"}
  Ontologies <- MCOntologies
  Measured <- MCMeasured
  Shapes <- MCShapes
SYMMETRY Symmetry
SPECIFICATION Spec
INVARIANTS
  TypeOK
  GateMeansTested
  RunAtHeadClears
  TestedClaimsHaveEvidence
CHECK_DEADLOCK FALSE
