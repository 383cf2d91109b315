SPECIFICATION Spec
CONSTANTS
  NoAdapter = NoAdapter
  Adapters <- SomeAdapters
  Declarations <- SomeDeclarations
  Databases <- SomeDatabases
CHECK_DEADLOCK FALSE
INVARIANTS
  RunsAreTransactions
  OwnersWereAccepted
  PromisesKept
  ConflictsAreReal
