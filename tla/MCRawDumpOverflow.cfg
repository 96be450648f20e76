CONSTANTS
  Samples = {s1, s2, s3}
  Running = 2
  Capacity = 2
  MaxDrains = 2
SPECIFICATION DumpSpec
INVARIANT
  OverflowIsSurfaced
CHECK_DEADLOCK FALSE
