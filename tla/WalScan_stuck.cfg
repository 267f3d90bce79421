SPECIFICATION Spec
CONSTANTS
  MaxScans = 2
  MaxUpsets = 0
INVARIANT RefusedMeansRunning
CHECK_DEADLOCK FALSE
