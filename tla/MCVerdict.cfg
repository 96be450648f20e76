CONSTANTS
  Rings <- MCRings
  FewSamples = 4
  SomeSamples = 17
  MaxPoints = 8
  MaxSignals = 12
SPECIFICATION Spec
INVARIANTS
  TypeOK
  OverallIsWorst
  GreenIsEarned
  HiddenPeriodFlagged
CHECK_DEADLOCK FALSE
