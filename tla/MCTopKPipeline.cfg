CONSTANTS
  K = 2
  NCPU = 2
  Values <- MCValues
  MaxSamples = 4
  MaxWindows = 2
SPECIFICATION Spec
INVARIANTS
  TypeOK
  ReservoirsExact
  HillSeesKLargest
CHECK_DEADLOCK FALSE
