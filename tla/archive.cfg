CONSTANTS
  Months = {1, 2}
  Formats = {"csv"}
  Good = {g1}
  Lossy = {lossy}
  Unparsable = {}
  Rejected = {}
  NULL = NULL
  Forces = {TRUE, FALSE}
  Concurrent = TRUE
  Budget <- WithLoss
SPECIFICATION Spec
INVARIANTS
  IInv
  FeaturesCover
PROPERTIES
  ImplementsArchive
  NoColumnLost
