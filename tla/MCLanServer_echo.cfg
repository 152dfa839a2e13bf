SPECIFICATION Spec
CONSTANTS
  SessionMax = 1
  Workers = {w1, w2}
  Acceptor = acc
  Callers = {}
  MaxConns = 2
  MaxMsgs = 2
  MaxCalls = 0
  SendbufMax = 4
  QueueMax = 4
  RecvMax = 3
  OnJoin = {"greet"}
  OnRecv = {"echo", "disconnect"}
  BadHeaders = FALSE
  NoBufs = TRUE
  Stoppable = FALSE
SYMMETRY Symmetry
CHECK_DEADLOCK FALSE
INVARIANTS
  TypeOK
  RefsExact
  ReleasedAlone
  OneSender
  PacketsCounted
  SlotsAccounted
  LeavesOnce
PROPERTIES
  ImplementsService
