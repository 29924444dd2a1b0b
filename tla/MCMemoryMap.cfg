CONSTANTS
  FOUR_KB = 4
  Word = 128
  LowMemory = 8
  kernel_physical_start = 8
  kernel_physical_end = 13
  MAX_NUM_MEMORY_MAP = 2
  ByteBits = 2
  CellBits = 4
  FreePages = 2
  Tables <- MCTables
SPECIFICATION Spec
INVARIANTS MapUsable ScanInsideBitmap BitmapBeforeUse
CHECK_DEADLOCK FALSE
