SPECIFICATION FairSpec
CONSTANTS
  d1 = d1
  d2 = d2
  AstDiffs <- BothDiffs
  Obligations <- BothDiffs
  SetDiffs <- NoDiffs
  RecursiveDiffs <- NoDiffs
  Suites <- PairedSuite
  MaxWorlds = 2
  MaxAttempts = 1
  DeadlineMayFire = TRUE
CHECK_DEADLOCK FALSE
INVARIANTS
  EveryWorldAttempted
  AcceptanceHasEvidence
PROPERTIES
  KeepsContract
