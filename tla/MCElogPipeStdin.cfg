CONSTANTS
  Maxes = {1, 2}
  MaxBytes = 4
SPECIFICATION Spec
INVARIANTS ESTypeOK StdinInOrder EofSignaled
PROPERTY AllDelivered
CHECK_DEADLOCK FALSE
