SPECIFICATION FairSpec
CONSTANTS
  SessionMax = 1
  Workers = {w1, w2}
  Acceptor = acc
  Callers = {}
  MaxConns = 1
  MaxMsgs = 2
  MaxCalls = 0
  SendbufMax = 4
  QueueMax = 1
  RecvMax = 4
  OnJoin = {"greet"}
  OnRecv = {"echo"}
  BadHeaders = FALSE
  NoBufs = FALSE
  Stoppable = FALSE
CHECK_DEADLOCK FALSE
PROPERTIES
  ForcedSessionsEnd
