CONSTANTS
  HeaderBytes = 2
  PageUnits = 2
  MIN_BLOCK_SIZE = 3
  WordSize = 64
  HeapPages = 5
  Requests = {0, 2, 7, 63}
SPECIFICATION FairSpec
INVARIANTS TypeOK BlocksTile FreeListSorted Coalesced RequestFits NoGapMissed
PROPERTIES CallReturns HeapSpec
