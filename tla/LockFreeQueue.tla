--------------------------- MODULE LockFreeQueue ---------------------------
(***************************************************************************)
(* CQueue_LF: a linked queue with a dummy node before the first value.     *)
(* Head and tail are pairs of a node and a unique number, changed by       *)
(* compare-and-swap.  Enqueue links its node behind the tail and then      *)
(* moves the tail; Dequeue moves the head to the successor of the dummy,   *)
(* which becomes the dummy, and frees the old one.                         *)
(*                                                                         *)
(* One action is one access to memory that threads share, and the code is  *)
(* kept where it departs from the algorithm it follows: the link is put    *)
(* behind whatever is the tail by then (118), the exchange that should     *)
(* move a tail that lags compares the first word of the tail's NODE, its   *)
(* Data, with a node (113), and Data is read after the head has moved past *)
(* the node (157).                                                         *)
(*                                                                         *)
(* Nodes come from _pMemPool, a CMemoryPool: Alloc hands out a node nobody *)
(* has (MemoryPool).  A thread is an enqueuer or a dequeuer for the life   *)
(* of a queue.                                                             *)
(***************************************************************************)
EXTENDS Integers, Sequences, FiniteSets

CONSTANTS
  Clients,   \* the threads that use the queue
  Cells,     \* the NODEs
  NoCell,    \* NULL
  Items,     \* the DATA that is queued: no NODE pointers
  NoItem,    \* what a client has before it was given a value
  MaxCnt,    \* the length at which Enqueue refuses
  MaxTag     \* bound: no call begins when _UniqueueNum has reached it

ASSUME NoCellIsNoCell == NoCell \notin Cells
ASSUME MaxCntAssumption == MaxCnt \in Nat \ {0}
ASSUME ClientsFinite == IsFiniteSet(Clients)

VARIABLES
  enqueuers,  \* the clients that call Enqueue, the others call Dequeue
  head,       \* *_pHead
  tail,       \* *_pTail
  tagNo,      \* _UniqueueNum
  nodeCnt,    \* _NodeCnt
  nextOf,     \* pNext of each node
  dataOf,     \* Data of each node
  spare,      \* the nodes in _pMemPool
  line,       \* history: the nodes linked and not yet passed by the head, in order
  qs          \* each client: the access it makes next, and its locals

queueVars == <<enqueuers, head, tail, tagNo, nodeCnt, nextOf, dataOf, spare, line, qs>>

\* pre is PreNode, node is pNode, tag is Uniqueue, live the tail's node for the link,
\* item the value enqueued or dequeued.
Idle == [at |-> "out", pre |-> [node |-> NoCell, tag |-> 0], node |-> NoCell, tag |-> 0,
         live |-> NoCell, item |-> NoItem]

\* CQueue_LF()
QueueInit ==
  /\ enqueuers \in SUBSET Clients
  /\ \E dummy \in Cells :
       /\ head = [node |-> dummy, tag |-> 0]
       /\ spare = Cells \ {dummy}
  /\ tail = head
  /\ tagNo = 0 /\ nodeCnt = 0 /\ line = <<>>
  /\ nextOf = [n \in Cells |-> NoCell]
  /\ dataOf = [n \in Cells |-> NoItem]
  /\ qs = [c \in Clients |-> Idle]

Moves(c, from, new) == qs[c].at = from /\ qs' = [qs EXCEPT ![c] = new]

ends == <<head, tail, line>>
nodes == <<nextOf, dataOf, spare>>

\* A read of shared memory into a local.
Reads(c, from, new) == Moves(c, from, new) /\ UNCHANGED <<enqueuers, ends, nodes, tagNo, nodeCnt>>

\* InterlockedIncrement64 (&_UniqueueNum)
TakeTag(c, from, new) ==
  /\ Moves(c, from, [new EXCEPT !.tag = tagNo + 1])
  /\ tagNo' = tagNo + 1
  /\ UNCHANGED <<enqueuers, ends, nodes, nodeCnt>>

-----------------------------------------------------------------------------
(* Enqueue *)

\* Slip: one too many is let in.
Slip_TestFull(c) ==
  /\ c \in enqueuers /\ tagNo < MaxTag
  /\ Reads(c, "out", [Idle EXCEPT !.at = IF nodeCnt > MaxCnt THEN "refused" ELSE "alloc"])

\* _NodeCnt >= _MaxCnt
TestFull(c) ==
  /\ c \in enqueuers /\ tagNo < MaxTag
  /\ Reads(c, "out", [Idle EXCEPT !.at = IF nodeCnt >= MaxCnt THEN "refused" ELSE "alloc"])

Refuse(c) == Reads(c, "refused", Idle)

\* Slip: pNext is left as it was.
Slip_AllocCell(c) ==
  /\ \E n \in spare, d \in Items :
       /\ Moves(c, "alloc", [qs[c] EXCEPT !.at = "tag", !.node = n, !.item = d])
       /\ spare' = spare \ {n}
       /\ dataOf' = [dataOf EXCEPT ![n] = d]
  /\ UNCHANGED <<enqueuers, ends, nextOf, tagNo, nodeCnt>>

\* With the writes to Data and pNext of a node nobody else has.
AllocCell(c) ==
  /\ \E n \in spare, d \in Items :
       /\ Moves(c, "alloc", [qs[c] EXCEPT !.at = "tag", !.node = n, !.item = d])
       /\ spare' = spare \ {n}
       /\ dataOf' = [dataOf EXCEPT ![n] = d]
       /\ nextOf' = [nextOf EXCEPT ![n] = NoCell]
  /\ UNCHANGED <<enqueuers, ends, tagNo, nodeCnt>>

EnqueueTag(c) == TakeTag(c, "tag", [qs[c] EXCEPT !.at = "tailNode"])

TailNode(c) == Reads(c, "tailNode", [qs[c] EXCEPT !.at = "tailTag", !.pre.node = tail.node])

TailTag(c) == Reads(c, "tailTag", [qs[c] EXCEPT !.at = "tailNext", !.pre.tag = tail.tag])

\* PreNode.pNode->pNext != NULL
TailNext(c) ==
  Reads(c, "tailNext",
        [qs[c] EXCEPT !.at = IF nextOf[qs[c].pre.node] # NoCell THEN "help" ELSE "live"])

\* The exchange on the first word of the tail's node, and continue.
Help(c) ==
  /\ Moves(c, "help", [qs[c] EXCEPT !.at = "tailNode"])
  /\ dataOf' = IF dataOf[tail.node] = qs[c].pre.node
               THEN [dataOf EXCEPT ![tail.node] = nextOf[qs[c].pre.node]]
               ELSE dataOf
  /\ UNCHANGED <<enqueuers, ends, nextOf, spare, tagNo, nodeCnt>>

\* _pTail->pNode of the link's address.
LiveTail(c) == Reads(c, "live", [qs[c] EXCEPT !.at = "link", !.live = tail.node])

LinkCell(c) ==
  LET last == qs[c].live IN
  /\ qs[c].at = "link"
  /\ IF nextOf[last] = NoCell
     THEN /\ qs' = [qs EXCEPT ![c].at = "swing"]
          /\ nextOf' = [nextOf EXCEPT ![last] = qs[c].node]
          /\ line' = Append(line, qs[c].node)
          /\ UNCHANGED <<enqueuers, head, tail, dataOf, spare, tagNo, nodeCnt>>
     ELSE Reads(c, "link", [qs[c] EXCEPT !.at = "tailNode"])

\* The exchange of the tail; nothing is done when it fails.
Swing(c) ==
  /\ Moves(c, "swing", [qs[c] EXCEPT !.at = "count"])
  /\ tail' = IF tail = qs[c].pre THEN [node |-> qs[c].node, tag |-> qs[c].tag] ELSE tail
  /\ UNCHANGED <<enqueuers, head, line, nodes, tagNo, nodeCnt>>

CountCell(c) ==
  /\ Moves(c, "count", Idle)
  /\ nodeCnt' = nodeCnt + 1
  /\ UNCHANGED <<enqueuers, ends, nodes, tagNo>>

-----------------------------------------------------------------------------
(* Dequeue *)

DequeueTag(c) ==
  /\ c \notin enqueuers /\ tagNo < MaxTag
  /\ TakeTag(c, "out", [Idle EXCEPT !.at = "headNode"])

HeadNode(c) == Reads(c, "headNode", [qs[c] EXCEPT !.at = "headTag", !.pre.node = head.node])

HeadTag(c) == Reads(c, "headTag", [qs[c] EXCEPT !.at = "headNext", !.pre.tag = head.tag])

\* With the test for NULL: Dequeue returns false.
HeadNext(c) ==
  LET n == nextOf[qs[c].pre.node] IN
  Reads(c, "headNext", IF n = NoCell THEN [Idle EXCEPT !.at = "nothing"]
                       ELSE [qs[c] EXCEPT !.at = "swap", !.node = n])

ReturnFalse(c) == Reads(c, "nothing", Idle)

SwapHead(c) ==
  IF head = qs[c].pre
  THEN /\ Moves(c, "swap", [qs[c] EXCEPT !.at = "data"])
       /\ head' = [node |-> qs[c].node, tag |-> qs[c].tag]
       /\ line' = SubSeq(line, 2, Len(line))
       /\ UNCHANGED <<enqueuers, tail, nodes, tagNo, nodeCnt>>
  ELSE Reads(c, "swap", [qs[c] EXCEPT !.at = "headNode"])

\* *pOut = pNode->Data
ReadData(c) == Reads(c, "data", [qs[c] EXCEPT !.at = "free", !.item = dataOf[qs[c].node]])

\* _pMemPool->Free (PreNode.pNode).  The first dummy, which only the first Dequeue frees,
\* is not from _pMemPool but malloc'ed: Free reads Safe behind it, and refuses it or not.
FreeCell(c) ==
  /\ Moves(c, "free", [qs[c] EXCEPT !.at = "uncount"])
  /\ \/ spare' = spare \cup {qs[c].pre.node}
     \/ qs[c].pre.tag = 0 /\ UNCHANGED spare
  /\ UNCHANGED <<enqueuers, ends, nextOf, dataOf, tagNo, nodeCnt>>

\* Slip: the node is not uncounted.
Slip_UncountCell(c) == Reads(c, "uncount", Idle)

UncountCell(c) ==
  /\ Moves(c, "uncount", Idle)
  /\ nodeCnt' = nodeCnt - 1
  /\ UNCHANGED <<enqueuers, ends, nodes, tagNo>>

-----------------------------------------------------------------------------
\* The rest of a call that has begun.
Continue(c) ==
  \/ Refuse(c) \/ AllocCell(c) \/ EnqueueTag(c) \/ TailNode(c) \/ TailTag(c) \/ TailNext(c)
  \/ Help(c) \/ LiveTail(c) \/ LinkCell(c) \/ Swing(c) \/ CountCell(c)
  \/ HeadNode(c) \/ HeadTag(c) \/ HeadNext(c) \/ ReturnFalse(c) \/ SwapHead(c) \/ ReadData(c)
  \/ FreeCell(c) \/ UncountCell(c)

QueueNext == \E c \in Clients : TestFull(c) \/ DequeueTag(c) \/ Continue(c)

QueueSpec == QueueInit /\ [][QueueNext]_queueVars

\* A thread that is in a call runs.
FairQueueSpec == QueueSpec /\ \A c \in Clients : WF_queueVars(Continue(c))

-----------------------------------------------------------------------------
(* Properties *)

Among(places) == {c \in Clients : qs[c].at \in places}

\* Past the test for a full queue, and not yet counted.
Admitted == {"alloc", "tag", "tailNode", "tailTag", "tailNext", "help", "live", "link", "swing",
             "count"}

\* The test for a full queue and the counting are apart, so each enqueuer may put in one
\* more, but no more than that: _NodeCnt passes _MaxCnt by less than their number, with any
\* number of enqueuers and dequeuers.
CountBounded == nodeCnt + Cardinality(Among(Admitted)) <= MaxCnt - 1 + Cardinality(enqueuers)

OneOfEach == Cardinality(enqueuers) = 1 /\ Cardinality(Clients \ enqueuers) = 1

\* With one enqueuer and one dequeuer _NodeCnt, which PostSend relies on through
\* GetUseSize, differs from the length only by the calls that are about to count.
CountLags ==
  OneOfEach => nodeCnt = Len(line) - Cardinality(Among({"swing", "count"}))
                                   + Cardinality(Among({"data", "free", "uncount"}))

CallIn(c) ==
  LET s == qs[c] IN
  CASE s.at \in {"out", "alloc"} -> [op |-> "none", val |-> NoItem]
    [] s.at = "refused" -> [op |-> "refused", val |-> NoItem]
    [] s.at \in {"tag", "tailNode", "tailTag", "tailNext", "help", "live", "link"} ->
         [op |-> "enqueue", val |-> s.item]
    [] s.at \in {"swing", "count", "nothing"} -> [op |-> "done", val |-> NoItem]
    [] s.at = "data" -> [op |-> "taken", val |-> dataOf[s.node]]
    [] s.at \in {"free", "uncount"} -> [op |-> "taken", val |-> s.item]
    [] OTHER -> [op |-> "dequeue", val |-> NoItem]

Fifo == INSTANCE QueueSpec WITH
  Values <- Items, NoValue <- NoItem, Capacity <- MaxCnt,
  items <- [i \in DOMAIN line |-> dataOf[line[i]]],
  call <- [c \in Clients |-> CallIn(c)]

\* Between one enqueuer and one dequeuer CQueue_LF is a bounded queue: nothing is lost,
\* doubled or overtaken, also when the dequeuer frees the node the tail still points to and
\* nodes come back at once, and it is never full or empty without reason.
ImplementsFifo == Fifo!Init /\ [][OneOfEach => Fifo!Next]_(Fifo!vars)

\* LockFreeQueue.h, 110: when the next of the tail is not NULL somebody has put a node
\* there already, and the tail is pushed along.
LaggingTailIsPushed ==
  \A c \in Clients : qs[c].at = "help" ~> nextOf[tail.node] = NoCell
=============================================================================
