SPECIFICATION Spec
CONSTANTS
  Null = Null
  Unsupported = Unsupported
  Families <- All
  Obligations <- Some
  MaxRows = 4
CHECK_DEADLOCK FALSE
INVARIANTS
  PathsSeparate
  FallbackShowsItsDifference
  FullWorldServes
