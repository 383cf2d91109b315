SPECIFICATION Spec
CONSTANTS
  Pairs <- SomePairs
  MaxFailures = 1
CHECK_DEADLOCK FALSE
INVARIANTS
  OneChangeOwned
  RepairProvesItsDifference
  RepairFound
