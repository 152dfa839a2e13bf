SPECIFICATION Spec
CONSTANTS
  Threads = {t1, t2, t3}
  BlockNums = {0, 1}
  StartCounts = {0, 1}
  MaxCount = 2
SYMMETRY Symmetry
CHECK_DEADLOCK FALSE
INVARIANTS
  TypeOK
  NoFault
  OneOwner
  Accounted
