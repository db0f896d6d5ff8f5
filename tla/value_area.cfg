CONSTANTS
  MaxBins = 6
  Histograms <- AllHistograms
  Pct = 70
SPECIFICATION Spec
CHECK_DEADLOCK FALSE
INVARIANTS
  CoversTarget
  NoBinTooMany
  HighestInside
  ShortestRange
