CONSTANTS
  Unit = 8
  Half = 64
  WideHalf = 4096
  Limit = 8
  Values <- MCValues
  MaxSamples = 5
  WithM4 = TRUE
  Bits = 3
  Edges <- MCEdges
SPECIFICATION BpfSpec
INVARIANTS
  SummaryTyped
  MeanWithinSamples
  MeanAccurate
  M2WithinSpread
  SumsAccurate
  MomentsExact
  OracleAgrees
  DoubleWordsExact
CHECK_DEADLOCK FALSE
