SPECIFICATION FairSpec
CONSTANTS
  d1 = d1
  d2 = d2
  AstDiffs <- BothDiffs
  Obligations <- BothDiffs
  SetDiffs <- NoDiffs
  RecursiveDiffs <- SecondDiff
  Suites <- SmallSuites
  MaxWorlds = 2
  MaxAttempts = 2
  DeadlineMayFire = FALSE
CHECK_DEADLOCK FALSE
INVARIANTS
  TypeOK
  SelectedIsFirstConflict
  AttributionPreferred
  ConflictDecidesVerdict
  WrongHasSeparatingRows
  SelectedInSync
PROPERTIES
  Returns
