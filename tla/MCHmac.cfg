SPECIFICATION MCSpec
CONSTANTS
  SeqMod = 64
  BufSize = 4
  BmpSize = 8
  WinSize = 3
  FirstSeq = 61
  MaxFrame = 8
  Delay = 0
  MaxAhead = 1
  MaxEvents = 1
  Aps = {"a", "b"}
  MaxAuth = 1
  MaxAsoc = 1
  MaxReject = 2
  MaxConnects = 2
  MaxFailures = 1
  Timers = {"guard", "ba"}
  Shared = {"guard"}
  Callers = {"stop"}
  MaxIds = 3
  MaxQueued = 1
INVARIANTS
  BufferSound
  BitmapTrue
  IeOwned
  OwnAp
  HostAgrees
  ExpiryFound
PROPERTIES
  ReorderContract
  ConnContract
  RequestAnswered
CHECK_DEADLOCK FALSE
