SPECIFICATION Spec
CONSTANTS
  SeqMod = 32
  BufSize = 4
  BmpSize = 8
  WinSize = 4
  FirstSeq = 30
  MaxFrame = 5
  Delay = 1
  MaxAhead = 2
  MaxEvents = 1
CHECK_DEADLOCK FALSE
INVARIANTS
  NothingLost
