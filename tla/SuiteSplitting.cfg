SPECIFICATION Spec
CONSTANTS
  NoCell = NoCell
  cellA = cellA
  cellB = cellB
  MaxCount = 4
  Budgets = {3, 6, 8}
  Pairs <- SomePairs
CHECK_DEADLOCK FALSE
INVARIANTS
  WorldBudget
  IdsDistinct
  CompositeIffSeveral
  ConflictOnlyAtLimit
  PinsOwned
  IsolationKept
  NothingLost
  SplitsFollowLedger
PROPERTIES
  SuiteReturned
