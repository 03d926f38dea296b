CONSTANTS
  p1 = p1
  p2 = p2
  Procs <- MCProcs
  NoProc = NoProc
  NoId = NoId
  MaxPorts = 2
  PortExtraLimit = 2
  MaxQ = 1
SPECIFICATION Spec
INVARIANT EnfileOnlyWhenFull
