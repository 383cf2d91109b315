SPECIFICATION Spec
CONSTANTS
  Null = Null
  RowQueries <- Queries
  RowRewritesOf <- RewritesOf
  SomeForms <- Forms
  Rows <- AllRows
  Tables <- TablePairs
CHECK_DEADLOCK FALSE
INVARIANTS
  RewritesPreserveResults
