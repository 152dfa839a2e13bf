SPECIFICATION Spec
CONSTANTS
  SessionMax = 1
  Workers = {w1, w2}
  Acceptor = acc
  Callers = {}
  MaxConns = 1
  MaxMsgs = 2
  MaxCalls = 0
  SendbufMax = 4
  QueueMax = 4
  RecvMax = 4
  OnJoin = {"greet"}
  OnRecv = {"echo"}
  BadHeaders = FALSE
  NoBufs = FALSE
  Stoppable = FALSE
SYMMETRY Symmetry
CHECK_DEADLOCK FALSE
INVARIANTS
  NoEchoLeft
