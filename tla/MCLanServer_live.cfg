SPECIFICATION FairSpec
CONSTANTS
  SessionMax = 1
  Workers = {w1, w2}
  Acceptor = acc
  Callers = {}
  MaxConns = 1
  MaxMsgs = 1
  MaxCalls = 0
  SendbufMax = 4
  QueueMax = 4
  RecvMax = 2
  OnJoin = {"greet"}
  OnRecv = {"echo"}
  BadHeaders = TRUE
  NoBufs = TRUE
  Stoppable = TRUE
CHECK_DEADLOCK FALSE
PROPERTIES
  SessionsEnd
  ForcedSessionsEnd
  StopReturns
