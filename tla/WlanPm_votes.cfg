SPECIFICATION Spec
CONSTANTS
  Voters = {ap, sta}
  CheckCnt = 1
  TryTimes = 2
  MaxPacket = 1
  SplitVote = FALSE
  LateAck = FALSE
  Active = {"tx", "exc"}
INVARIANTS
  VoteKeepsAwake
  WatchdogAlive
  TransferOnlyAwake
SYMMETRY Perms
PROPERTIES
  VoteContract
