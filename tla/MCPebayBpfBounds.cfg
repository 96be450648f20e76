CONSTANTS
  Unit = 32
  Half = 512
  WideHalf = 524288
  Limit = 16
  Values <- MCStalls
  MaxSamples = 16
  WithM4 = TRUE
  Bits = 3
  Edges <- MCEdges
SPECIFICATION BpfSpec
INVARIANT
  IntermediatesInBounds
CHECK_DEADLOCK FALSE
