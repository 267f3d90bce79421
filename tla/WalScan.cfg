SPECIFICATION LiveSpec
CONSTANTS
  MaxScans = 2
  MaxUpsets = 1
INVARIANTS
  GuardOwn
PROPERTIES
  ScanContract
  ScanEnds
CHECK_DEADLOCK FALSE
