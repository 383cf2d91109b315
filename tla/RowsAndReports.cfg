SPECIFICATION Spec
CONSTANTS
  Null = Null
  Worlds <- AllWorlds
  MaxAttempts = 3
  BaseValues <- SomeValues
CHECK_DEADLOCK FALSE
INVARIANTS
  RetryReportHolds
  WindowReportHolds
  LatestRowsTraceToWrites
