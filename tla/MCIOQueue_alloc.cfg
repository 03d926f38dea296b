CONSTANTS
  b1 = b1
  b2 = b2
  b3 = b3
  Bins <- MCBins
  Buf = Buf
  NULL = NULL
  SMALL_IO_QUEUE = 2
  Lens = {0, 1, 2}
  Offs = {0}
  MaxVec = 2
  MaxSize = 2
  AllocFails = TRUE
SYMMETRY MCSymmetry
SPECIFICATION Spec
INVARIANT NoMemoryFault
