SPECIFICATION RingSpec
CONSTANTS
  BufferSize = 4
  Bytes = {0, 1}
CHECK_DEADLOCK FALSE
PROPERTY EveryByteKept
