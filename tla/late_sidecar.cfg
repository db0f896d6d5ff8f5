CONSTANTS
  Processes = {ingest}
  Contents = {sound1}
  Damaged = {}
  WrongMarket = {}
  Malformed = {}
  BadCrc = {}
  Zip = TRUE
  Published = {sound1}
  MaxReplaced = 0
  NULL = NULL
SPECIFICATION Spec
PROPERTIES
  PresentSidecarIsVerified
