CONSTANTS
  Programs = 2
  UnitsPerSecond = 4
  Durations <- MCDurations
  Windows <- MCWindows
  MaxTime = 11
SPECIFICATION Spec
INVARIANTS
  TypeOK
  WindowsKeptInOrder
  StopWithinWindow
  EverythingReleased
  StatusTellsReport
PROPERTY
  RunEnds
CHECK_DEADLOCK FALSE
