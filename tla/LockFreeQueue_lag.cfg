SPECIFICATION FairQueueSpec
CONSTANTS
  Clients = {c1, c2}
  Cells = {m1, m2, m3, m4}
  NoCell = NoCell
  Items = {d1}
  NoItem = NoItem
  MaxCnt = 3
  MaxTag = 3
CHECK_DEADLOCK FALSE
PROPERTY LaggingTailIsPushed
