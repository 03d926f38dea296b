CONSTANTS
  log_generations = 3
  log_maxsize = 4
  Header = 1
  Stamp = 1
  Lens = {2, 4}
  NoFile = NoFile
  MaxWrites = 6
  MaxStarts = 3
SPECIFICATION Spec
INVARIANTS RELTypeOK LogOrder
PROPERTY StartKeepsLatest
CHECK_DEADLOCK FALSE
