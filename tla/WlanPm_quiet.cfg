SPECIFICATION LiveSpec
CONSTANTS
  Voters = {}
  CheckCnt = 1
  TryTimes = 1
  MaxPacket = 1
  SplitVote = FALSE
  LateAck = TRUE
  Active = {"exc"}
INVARIANTS
  SleepAgreed
PROPERTIES
  ExceptionStays
  KeepsAsking
