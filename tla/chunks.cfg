CONSTANTS
  Trades <- AllRows
  MaxRows = 4
  ChunkSizes = {1, 2, 3}
  JumpPct = 5
  Threshold = 15
  NsPerUs = 10
  UsPerMs = 10
  NsPerSecond = 1000
  Grid = 4
  NaN = NaN
  NULL = NULL
SPECIFICATION Spec
CHECK_DEADLOCK FALSE
INVARIANTS
  TypeOK
  ReportIsOfPrefix
  JumpsBetween
  TimesAreKept
  VerificationExact
