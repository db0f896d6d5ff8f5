CONSTANTS
  Start <- November
  First <- October
  Last <- February
  Histories <- Past
  Setbacks = 1
  NULL = NULL
SPECIFICATION FairSpec
INVARIANTS
  TypeOK
  GapsAreHoles
  NextIsSettled
PROPERTIES
  GapsExact
  OutputAddsUp
  SequenceCompletes
