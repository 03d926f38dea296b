CONSTANTS
  t1 = t1
  t2 = t2
  t3 = t3
  b1 = b1
  b2 = b2
  b3 = b3
  b4 = b4
  Threads <- MCThreads
  Blocks <- MCBlocks
  NULL = NULL
  MallocFails = FALSE
  SharedTerms = FALSE
SPECIFICATION Spec
INVARIANTS FATypeOK FreeListSound NoHeldOnFreeList AllocatedCount
