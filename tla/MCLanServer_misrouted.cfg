SPECIFICATION Spec
CONSTANTS
  SessionMax = 1
  Workers = {w1, w2}
  Acceptor = acc
  Callers = {a1}
  MaxConns = 2
  MaxMsgs = 1
  MaxCalls = 1
  SendbufMax = 4
  QueueMax = 4
  RecvMax = 3
  OnJoin = {"greet"}
  OnRecv = {"echo"}
  BadHeaders = FALSE
  NoBufs = FALSE
  Stoppable = FALSE
SYMMETRY Symmetry
CHECK_DEADLOCK FALSE
INVARIANTS
  SentToAddressee
