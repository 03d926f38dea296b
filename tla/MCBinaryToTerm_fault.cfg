CONSTANTS
  WordBits = 32
  ThisNodeName <- MCName
  ThisCreation = 1
  MAX_CREATION = 4
  ERTS_MAX_REF_NUMBERS = 3
  MAX_REFERENCE = 262144
  ERTS_MAX_PID_NUMBER = 32767
  ERTS_MAX_PID_SERIAL = 7
  ERTS_MAX_PORT_NUMBER = 262143
  EXTERNAL_THING_HEAD_SIZE = 3
  REF_THING_HEAD_SIZE = 1
  ERL_ONHEAP_BIN_LIMIT = 64
  PROC_BIN_SIZE = 5
  ERL_FUN_SIZE = 6
  Inputs <- FaultOrExitIn
  Inflate <- MCInflate
  MaxAlloc = 1048576
SPECIFICATION Spec
INVARIANT MemorySafe
