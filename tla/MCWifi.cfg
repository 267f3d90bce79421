SPECIFICATION MCSpec
CONSTANTS
  Users = {"ap", "sta"}
  Tids = {"be", "vo"}
  RxUse <- MCRxUse
  TxUse <- MCTxUse
  MaxRx = 3
  MaxTx = 1
  MaxAttempts = 2
  MaxToken = 3
  MaxFailures = 1
  Most <- MCMost
  MaxCredit = 2
  AssemMax = 2
  LowLimit = 2
  KeyLimit = 3
  MaxFaults = 1
  MayExit = TRUE
INVARIANTS
  WithinCredit RxCountExact TxCountExact NoLutLost
PROPERTIES
  TransmitContract QueuesDrain ExitEnds RequestsEnd HeldEnds
CHECK_DEADLOCK FALSE
