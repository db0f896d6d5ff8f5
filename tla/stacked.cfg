SPECIFICATION Spec
CONSTANTS
  Scenarios <- AllScenarios
  Fine = 2
  Coarse = 4
  SessionLength = 8
  Zone = 2
  BinSize = 2
  Ratio = 3
  MinBars = 2
  Lookback = 2
  NULL = NULL
INVARIANTS
  StackedBarsAreConsecutive
CHECK_DEADLOCK FALSE
