CONSTANTS
  Reqs = {r1, r2, r3}
  MaxEntries = 2
  Limit = 3
  MaxTime = 5
  MayMiss = TRUE
  Samples = {s1, s2, s3}
  Running = 2
  Capacity = 2
  MaxDrains = 2
SYMMETRY Symmetries
SPECIFICATION CaptureSpec
INVARIANTS
  TypeOK
  EntriesInFlight
  ReportIsDumpedOrLost
  OnlyLastWindowIsMissing
PROPERTIES
  LatencyIsOwn
  OneSamplePerIssue
CHECK_DEADLOCK FALSE
