CONSTANTS
  mmap_len = 2
  addr <- MCaddrFull
  len <- MClenFull
  offset <- MCoffsetFull
  CellBits = 4
  ByteBits = 2
  AddrFrames = 16
  MaxRequest = 2
SPECIFICATION Spec
INVARIANT AllFramesAvailable
