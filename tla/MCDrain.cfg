CONSTANTS
  NCPU = 2
  Samples = {s1, s2}
  SummaryWords <- MCSummaryWords
  TopkWords <- MCTopkWords
  MaxWindows = 2
SYMMETRY SampleSymmetry
SPECIFICATION Spec
INVARIANTS
  TypeOK
  CleanWindowsExact
  QuietDrainRepairs
CHECK_DEADLOCK FALSE
