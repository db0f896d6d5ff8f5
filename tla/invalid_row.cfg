CONSTANTS
  Trades <- AllRows
  MaxRows = 2
  ChunkSizes = {2}
  JumpPct = 5
  Threshold = 15
  NsPerUs = 10
  UsPerMs = 10
  NsPerSecond = 1000
  Grid = 4
  NaN = NaN
  NULL = NULL
SPECIFICATION Spec
CHECK_DEADLOCK FALSE
INVARIANTS
  InvalidRowsAreOnlyDropped
