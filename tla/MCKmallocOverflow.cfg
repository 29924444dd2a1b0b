CONSTANTS
  HeaderBytes = 2
  PageUnits = 2
  MIN_BLOCK_SIZE = 3
  WordSize = 64
  HeapPages = 2
  Requests = {2, 63}
SPECIFICATION Spec
INVARIANT BlockBigEnough
