CONSTANTS
  NCPU = 1
  Samples = {s1, s2}
  SummaryWords <- MCSummaryWords
  TopkWords <- MCTopkWords
  MaxWindows = 2
SYMMETRY SampleSymmetry
SPECIFICATION Spec
INVARIANTS
  RaceOnlyLoses
CHECK_DEADLOCK FALSE
