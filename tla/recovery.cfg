CONSTANTS
  Months = {1}
  Formats = {"csv"}
  Good = {g1}
  Lossy = {lossy}
  Unparsable = {unparsable}
  Rejected = {rejected}
  NULL = NULL
  Forces = {FALSE}
  Concurrent = TRUE
  Budget <- Recovering
SPECIFICATION FairSpec
PROPERTIES
  GoodSourceIsVerified
  VerifiedIsGenerated
  FeaturesAreReported
