SPECIFICATION Spec
CONSTANTS
  Voters = {ap, sta}
  CheckCnt = 1
  TryTimes = 1
  MaxPacket = 1
  SplitVote = TRUE
  LateAck = TRUE
  Active = {}
INVARIANTS
  VoteKeepsAwake
