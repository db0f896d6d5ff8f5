CONSTANTS
  Months = {1}
  Formats = {"csv"}
  Good = {g1}
  Lossy = {}
  Unparsable = {}
  Rejected = {}
  NULL = NULL
  Forces = {FALSE}
  Concurrent = FALSE
  Budget <- WithLoss
SPECIFICATION Spec
INVARIANT
  ResumedFeaturesCover
