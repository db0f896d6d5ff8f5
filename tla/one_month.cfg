CONSTANTS
  Months = {1}
  Formats = {"csv", "zip"}
  Good = {g1, g2}
  Lossy = {lossy}
  Unparsable = {unparsable}
  Rejected = {rejected}
  NULL = NULL
  Forces = {TRUE, FALSE}
  Concurrent = FALSE
  Budget <- OneMonth
SPECIFICATION Spec
INVARIANTS
  TypeOK
  DoneIntact
  CheckpointIntact
  OnlyVerifiedData
PROPERTIES
  DeletionLicensed
  ReportedIsFinal
