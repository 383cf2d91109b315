SPECIFICATION Spec
CONSTANTS
  d1 = d1
  d2 = d2
  AstDiffs <- OneDiff
  Obligations <- OneDiff
  SetDiffs <- NoDiffs
  RecursiveDiffs <- NoDiffs
  Suites <- OneWorld
  MaxWorlds = 1
  MaxAttempts = 1
  DeadlineMayFire = TRUE
CHECK_DEADLOCK FALSE
INVARIANTS
  TimeoutNeverBlamesStudent
