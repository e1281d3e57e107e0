SPECIFICATION Spec
CONSTANTS
  MaxItems = 5
  Null = Null
INVARIANT OrderOnly
CHECK_DEADLOCK FALSE
