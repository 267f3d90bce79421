SPECIFICATION MCSpec
CONSTANTS
  TxSlots = 3
  XmitDepth = 2
  RxSlots = 4
  RecvDepth = 2
  AllocFaults = 1
  BUF_SIZE = 3
  Burst = 2
  MaxCount = 2
INVARIANTS
  RingExact SendsIntoRoom RxMatch
PROPERTIES
  RxRevives FifoContract WakesOnOneCore
