---------------------------- MODULE MCLibrary ----------------------------
(***************************************************************************)
(* The library classes, each by itself: what one does is independent of    *)
(* the others, so a behaviour exercises one of them, the subject, while    *)
(* the others stay as they were made.                                      *)
(***************************************************************************)
EXTENDS LockFreeStack, MemoryPoolLF, LockFreeQueue, RingBuffer, DBConnector, MemoryPoolTLS,
  PacketBuffer, SystemLog, TLC

CONSTANT Subjects

VARIABLE subject

\* The classes that are not the subject are made in one way only.
Unused ==
  /\ subject # "stack" => poppers = {}
  /\ subject # "pool" => storeFlag /\ stpNext = <<>> /\ start = 0
  /\ subject # "queue" => enqueuers = {} /\ head.node = CHOOSE n \in Cells : TRUE
  /\ subject # "tls" => freers = {} /\ apart
  /\ subject # "log" => callers = {} /\ windowprint
  /\ subject # "ring" => pBuffer = [p \in 0 .. BufferSize - 1 |-> CHOOSE b \in Bytes : TRUE]

LibraryInit ==
  /\ subject \in Subjects
  /\ StackInit /\ PoolInit /\ QueueInit /\ RingInit /\ DBInit
  /\ TlsInit /\ PacketInit /\ LogInit
  /\ Unused

UnlessSubject(s, v) == subject # s => UNCHANGED v

LibraryNext ==
  /\ UNCHANGED subject
  /\ \/ subject = "stack" /\ StackNext
     \/ subject = "pool" /\ PoolNext
     \/ subject = "queue" /\ QueueNext
     \/ subject = "ring" /\ RingNext
     \/ subject = "db" /\ DBNext
     \/ subject = "tls" /\ TlsNext
     \/ subject = "packet" /\ PacketNext
     \/ subject = "log" /\ LogNext
  /\ UnlessSubject("stack", stackVars)
  /\ UnlessSubject("pool", poolVars)
  /\ UnlessSubject("queue", queueVars)
  /\ UnlessSubject("ring", ringVars)
  /\ UnlessSubject("db", dbVars)
  /\ UnlessSubject("tls", tlsVars)
  /\ UnlessSubject("packet", packetVars)
  /\ UnlessSubject("log", logVars)

libraryVars ==
  <<subject, stackVars, poolVars, queueVars, ringVars, dbVars, tlsVars, packetVars, logVars>>

LibrarySpec == LibraryInit /\ [][LibraryNext]_libraryVars

Symmetry == Permutations(Threads) \cup Permutations(Nodes) \cup Permutations(Values)
==========================================================================
