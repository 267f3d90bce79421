SPECIFICATION Spec
CONSTANTS
  MaxScans = 2
  MaxUpsets = 0
INVARIANT AgeingClosed
CHECK_DEADLOCK FALSE
