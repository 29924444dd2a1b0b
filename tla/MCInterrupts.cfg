CONSTANTS
  Lines = {1, 7, 8, 15}
  Exceptions = {3, 14}
  MaxRaises = 3
  MaxExceptions = 2
SPECIFICATION Spec
INVARIANTS FrameIntact OneAtATime
PROPERTIES Resumes Served
CHECK_DEADLOCK FALSE
