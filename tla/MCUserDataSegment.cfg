CONSTANTS
  Lines = {1}
  Exceptions = {3}
  MaxRaises = 1
  MaxExceptions = 1
SPECIFICATION Spec
INVARIANT DataSegment
CHECK_DEADLOCK FALSE
