SPECIFICATION LibrarySpec
CONSTANTS
  Subjects = {"stack", "pool", "queue", "ring", "db", "tls", "packet", "log"}
  Threads = {t1, t2}
  Nodes = {n1, n2}
  Null = Null
  Values = {v1, v2}
  NoValue = NoValue
  MaxUnique = 5
  Users = {t1, t2}
  BlockNums = {0, 2}
  StartCounts = {0}
  MaxCount = 2
  MaxNumber = 4
  Clients = {t1, t2}
  Cells = {m1, m2, m3}
  NoCell = NoCell
  Items = {v1, v2}
  NoItem = NoItem
  MaxCnt = 2
  MaxTag = 5
  BufferSize = 4
  Bytes = {0, 1}
  Inserts = 2
  Selects = 3
  MaxRows = 2
  Reconnect = 2
  Owners = {t1, t2}
  NoOwner = NoOwner
  ChunkSize = 2
  MaxChunks = 3
  PacketSize = 13
  HeaderRoom = 5
  HeaderLen = 2
  Leftover = x
  Marks = {a, b}
  Loggers = {t1, t2}
  Nobody = Nobody
  Months = 2
  MaxLogNo = 3
SYMMETRY Symmetry
CHECK_DEADLOCK FALSE
INVARIANTS
  StackTypeOK
  LonePopperSafe
  NoBadTop
  CountBounded
  CountLags
  RingTypeOK
  FaultsOnlyWithoutRetries
  NoResultLeaks
  OwnerKeepsChunk
  LoneFreerSafe
  ApartSafe
  PacketTypeOK
  ReadInOrder
  SentWhole
  RecordsWhole
  EveryRecordOnce
  FiledByDate
PROPERTIES
  ImplementsStack
  ImplementsLockedPool
  ImplementsFifo
  ImplementsByteQueue
