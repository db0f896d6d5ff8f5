CONSTANTS
  Processes = {discover, ingest}
  Contents = {sound1, sound2, damaged, spot, malformed, badcrc}
  Damaged = {damaged}
  WrongMarket = {spot}
  Malformed = {malformed}
  BadCrc = {badcrc}
  Zip = TRUE
  Published = {sound1, sound2}
  MaxReplaced = 2
  NULL = NULL
SPECIFICATION Spec
SYMMETRY Symmetry
INVARIANTS
  CacheIsFaithful
PROPERTIES
  HashIsStable
