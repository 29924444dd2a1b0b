CONSTANTS
  mmap_len = 3
  addr <- MCaddr
  len <- MClen
  offset <- MCoffset
  CellBits = 4
  ByteBits = 2
  AddrFrames = 16
  MaxRequest = 3
SPECIFICATION Spec
INVARIANTS TypeOK NoDoubleAllocation NoFrameLost OneFrameFound ScanAgrees
PROPERTY PoolSpec
