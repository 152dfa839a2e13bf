------------------------ MODULE LockFreeQueueProofs ------------------------
(***************************************************************************)
(* CQueue_LF lets _NodeCnt pass _MaxCnt by less than the number of         *)
(* enqueuers, for any number of threads and any _MaxCnt, although the test *)
(* and the counting are two accesses.  Between one enqueuer and one        *)
(* dequeuer it is the bounded queue of QueueSpec, for any capacity, number *)
(* of nodes and values, and _NodeCnt is its length but for the calls that  *)
(* are about to count.                                                     *)
(*                                                                         *)
(* CountBounded needs that only enqueuers are between the two (Admittance):*)
(* the one that finds room stands for a part of the allowance that nobody  *)
(* between the two has used.  The refinement needs FifoInv: how the links  *)
(* follow the line, who has the nodes that are not in it, and how far the  *)
(* tail can lag.                                                           *)
(***************************************************************************)
EXTENDS LockFreeQueue, FiniteSetTheorems, SequenceTheorems, TLAPS

\* Every client has a place.
Placed == qs = [c \in Clients |-> qs[c]] /\ \A c \in Clients : "at" \in DOMAIN qs[c]

Admittance == enqueuers \subseteq Clients /\ Among(Admitted) \subseteq enqueuers

CountInv == nodeCnt \in Int /\ Placed /\ Admittance /\ CountBounded

-----------------------------------------------------------------------------
(* Steps from place to place *)

LEMMA AmongFinite ==
  ASSUME NEW places
  PROVE  IsFiniteSet(Among(places)) /\ Cardinality(Among(places)) \in Nat
BY ClientsFinite, FS_Subset, FS_CardinalityType DEF Among

\* A step of a client from place to place.
Goes(c, from, to) == \E new : Moves(c, from, new) /\ "at" \in DOMAIN new /\ new.at = to

\* Which of its locals a client sets with its place does not matter.
LEMMA GoesBySetting ==
  ASSUME NEW c, NEW from, NEW to, NEW r, "at" \in DOMAIN r, NEW v, NEW w
  PROVE  /\ Moves(c, from, [r EXCEPT !.at = to]) => Goes(c, from, to)
         /\ Moves(c, from, [r EXCEPT !.at = to, !.tag = v]) => Goes(c, from, to)
         /\ Moves(c, from, [r EXCEPT !.at = to, !.node = v]) => Goes(c, from, to)
         /\ Moves(c, from, [r EXCEPT !.at = to, !.live = v]) => Goes(c, from, to)
         /\ Moves(c, from, [r EXCEPT !.at = to, !.item = v]) => Goes(c, from, to)
         /\ Moves(c, from, [r EXCEPT !.at = to, !.node = v, !.item = w]) => Goes(c, from, to)
         /\ Moves(c, from, [r EXCEPT !.at = to, !.pre.node = v]) => Goes(c, from, to)
         /\ Moves(c, from, [r EXCEPT !.at = to, !.pre.tag = v]) => Goes(c, from, to)
<1> DEFINE Fits(new) == "at" \in DOMAIN new /\ new.at = to
<1>1. /\ Fits([r EXCEPT !.at = to])
      /\ Fits([r EXCEPT !.at = to, !.tag = v])
      /\ Fits([r EXCEPT !.at = to, !.node = v])
      /\ Fits([r EXCEPT !.at = to, !.live = v])
      /\ Fits([r EXCEPT !.at = to, !.item = v])
      /\ Fits([r EXCEPT !.at = to, !.node = v, !.item = w])
      /\ Fits([r EXCEPT !.at = to, !.pre.node = v])
      /\ Fits([r EXCEPT !.at = to, !.pre.tag = v])
  OBVIOUS
<1>2. \A new : Moves(c, from, new) /\ Fits(new) => Goes(c, from, to)
  BY DEF Goes
<1> HIDE DEF Fits
<1> QED
  BY <1>1, <1>2, Zenon

\* A client that goes from one place to another changes who is among the admitted by itself.
LEMMA PlaceStep ==
  ASSUME Placed, NEW c \in Clients, NEW from, NEW new, Moves(c, from, new),
         "at" \in DOMAIN new
  PROVE  /\ Placed' /\ qs[c].at = from
         /\ (c \in Among(Admitted)) = (from \in Admitted)
         /\ Among(Admitted)' = IF new.at \in Admitted THEN Among(Admitted) \cup {c}
                                                      ELSE Among(Admitted) \ {c}
<1>1. qs' = [d \in Clients |-> IF d = c THEN new ELSE qs[d]]
  BY DEF Moves, Placed
<1>2. qs[c].at = from
  BY DEF Moves
<1>3. Placed'
  BY <1>1 DEF Placed
<1>4. \A d \in Clients : qs'[d] = IF d = c THEN new ELSE qs[d]
  BY <1>1
<1>5. Among(Admitted)' = {d \in Clients : qs'[d].at \in Admitted}
  BY DEF Among, Admitted
<1>6. Among(Admitted)' = IF new.at \in Admitted THEN Among(Admitted) \cup {c}
                                                ELSE Among(Admitted) \ {c}
  BY <1>4, <1>5 DEF Among
<1> QED
  BY <1>2, <1>3, <1>6 DEF Among

\* A step of a client that stays admitted, or stays outside, and does not count.
LEMMA SameSide ==
  ASSUME CountInv, NEW c \in Clients, NEW from, NEW new, Moves(c, from, new),
         "at" \in DOMAIN new, (from \in Admitted) = (new.at \in Admitted),
         nodeCnt' \in Int, nodeCnt' <= nodeCnt, UNCHANGED enqueuers
  PROVE  CountInv'
<1>1. Placed' /\ Among(Admitted)' = Among(Admitted)
  BY PlaceStep DEF CountInv
<1>2. Admittance'
  BY <1>1 DEF CountInv, Admittance
<1>3. Cardinality(Among(Admitted)) \in Nat /\ IsFiniteSet(enqueuers)
  BY AmongFinite, ClientsFinite, FS_Subset DEF CountInv, Admittance
<1>4. Cardinality(enqueuers) \in Nat
  BY <1>3, FS_CardinalityType
<1>5. CountBounded'
  BY <1>1, <1>3, <1>4, MaxCntAssumption DEF CountInv, CountBounded
<1> QED
  BY <1>1, <1>2, <1>5 DEF CountInv

-----------------------------------------------------------------------------
(* CountInv is inductive *)

LEMMA InitCountInv == QueueInit => CountInv
<1> SUFFICES ASSUME QueueInit PROVE CountInv
  OBVIOUS
<1>1. qs = [c \in Clients |-> Idle] /\ nodeCnt = 0 /\ enqueuers \subseteq Clients
  BY DEF QueueInit
<1>2. Placed
  BY <1>1 DEF Placed, Idle
<1>3. Among(Admitted) = {}
  BY <1>1 DEF Among, Admitted, Idle
<1>4. Admittance
  BY <1>1, <1>3 DEF Admittance
<1>5. Cardinality(Among(Admitted)) = 0 /\ Cardinality(enqueuers) \in Nat
  BY <1>1, <1>3, ClientsFinite, FS_EmptySet, FS_Subset, FS_CardinalityType
<1>6. CountBounded
  BY <1>1, <1>5, MaxCntAssumption DEF CountBounded
<1> QED
  BY <1>1, <1>2, <1>4, <1>6 DEF CountInv

\* The enqueuer is not yet among the admitted, so they are fewer than the enqueuers, and
\* below _MaxCnt there is room for it beside every one of them.
LEMMA TestFullCountInv ==
  ASSUME CountInv, NEW c \in Clients, TestFull(c)
  PROVE  CountInv'
<1> DEFINE new == [Idle EXCEPT !.at = IF nodeCnt >= MaxCnt THEN "refused" ELSE "alloc"]
<1>1. Moves(c, "out", new) /\ UNCHANGED <<enqueuers, nodeCnt>> /\ c \in enqueuers
  BY DEF TestFull, Reads
<1>2. "at" \in DOMAIN new /\ new.at = IF nodeCnt >= MaxCnt THEN "refused" ELSE "alloc"
  BY DEF Idle
<1>3. CASE nodeCnt >= MaxCnt
  BY <1>1, <1>2, <1>3, SameSide DEF CountInv, Admitted
<1>4. CASE ~(nodeCnt >= MaxCnt)
  <2>1. /\ Placed' /\ c \notin Among(Admitted)
        /\ Among(Admitted)' = Among(Admitted) \cup {c}
    BY <1>1, <1>2, <1>4, PlaceStep DEF CountInv, Admitted
  <2>2. Admittance'
    BY <1>1, <2>1 DEF CountInv, Admittance
  <2>3. IsFiniteSet(enqueuers) /\ Among(Admitted)' \subseteq enqueuers
    BY <1>1, <2>1, ClientsFinite, FS_Subset DEF CountInv, Admittance
  <2>4. Cardinality(Among(Admitted)') <= Cardinality(enqueuers)
    BY <2>3, FS_Subset
  <2>5. Cardinality(Among(Admitted)') \in Nat /\ Cardinality(enqueuers) \in Nat
    BY <2>3, FS_Subset, FS_CardinalityType
  <2>6. nodeCnt <= MaxCnt - 1
    BY <1>4, MaxCntAssumption DEF CountInv
  <2>7. CountBounded'
    BY <1>1, <2>4, <2>5, <2>6, MaxCntAssumption DEF CountInv, CountBounded
  <2> QED
    BY <1>1, <2>1, <2>2, <2>7 DEF CountInv
<1> QED
  BY <1>3, <1>4

\* What was set aside for the node becomes its place in _NodeCnt.
LEMMA CountCellCountInv ==
  ASSUME CountInv, NEW c \in Clients, CountCell(c)
  PROVE  CountInv'
<1>1. /\ Moves(c, "count", Idle) /\ nodeCnt' = nodeCnt + 1 /\ enqueuers' = enqueuers
      /\ "at" \in DOMAIN Idle /\ Idle.at = "out"
  BY DEF CountCell, Idle
<1>2. /\ Placed' /\ c \in Among(Admitted) /\ Among(Admitted)' = Among(Admitted) \ {c}
  BY <1>1, PlaceStep DEF CountInv, Admitted
<1>3. Admittance'
  BY <1>1, <1>2 DEF CountInv, Admittance
<1>4. IsFiniteSet(Among(Admitted)) /\ Cardinality(Among(Admitted)) \in Nat
  BY AmongFinite
<1>5. Cardinality(Among(Admitted)') = Cardinality(Among(Admitted)) - 1
  BY <1>2, <1>4, FS_RemoveElement
<1>6. Cardinality(enqueuers) \in Nat
  BY ClientsFinite, FS_Subset, FS_CardinalityType DEF CountInv, Admittance
<1>7. CountBounded'
  BY <1>1, <1>4, <1>5, <1>6, MaxCntAssumption DEF CountInv, CountBounded
<1> QED
  BY <1>1, <1>2, <1>3, <1>7 DEF CountInv

\* A step of an enqueuer between the test and the counting.
LEMMA EnqueueCountInv ==
  ASSUME CountInv, NEW c \in Clients,
         \/ Refuse(c) \/ AllocCell(c) \/ EnqueueTag(c) \/ TailNode(c) \/ TailTag(c)
         \/ TailNext(c) \/ Help(c) \/ LiveTail(c) \/ LinkCell(c) \/ Swing(c)
  PROVE  CountInv'
<1>1. "at" \in DOMAIN qs[c] /\ nodeCnt \in Int /\ "at" \in DOMAIN Idle /\ Idle.at = "out"
  BY DEF CountInv, Placed, Idle
<1>2. \E from, new : /\ Moves(c, from, new) /\ "at" \in DOMAIN new
                     /\ (from \in Admitted) = (new.at \in Admitted)
                     /\ UNCHANGED <<enqueuers, nodeCnt>>
  <2>1. CASE Refuse(c)
    BY <1>1, <2>1 DEF Refuse, Reads, Admitted
  <2>2. CASE AllocCell(c)
    <3>1. Goes(c, "alloc", "tag") /\ UNCHANGED <<enqueuers, nodeCnt>>
      BY <1>1, <2>2, GoesBySetting, Zenon DEF AllocCell
    <3> QED
      BY <3>1 DEF Goes, Admitted
  <2>3. CASE EnqueueTag(c)
    <3>1. Goes(c, "tag", "tailNode") /\ UNCHANGED <<enqueuers, nodeCnt>>
      BY <1>1, <2>3, GoesBySetting, Zenon DEF EnqueueTag, TakeTag
    <3> QED
      BY <3>1 DEF Goes, Admitted
  <2>4. CASE TailNode(c)
    <3>1. Goes(c, "tailNode", "tailTag") /\ UNCHANGED <<enqueuers, nodeCnt>>
      BY <1>1, <2>4, GoesBySetting, Zenon DEF TailNode, Reads
    <3> QED
      BY <3>1 DEF Goes, Admitted
  <2>5. CASE TailTag(c)
    <3>1. Goes(c, "tailTag", "tailNext") /\ UNCHANGED <<enqueuers, nodeCnt>>
      BY <1>1, <2>5, GoesBySetting, Zenon DEF TailTag, Reads
    <3> QED
      BY <3>1 DEF Goes, Admitted
  <2>6. CASE TailNext(c)
    BY <1>1, <2>6 DEF TailNext, Reads, Admitted
  <2>7. CASE Help(c)
    BY <1>1, <2>7 DEF Help, Admitted
  <2>8. CASE LiveTail(c)
    <3>1. Goes(c, "live", "link") /\ UNCHANGED <<enqueuers, nodeCnt>>
      BY <1>1, <2>8, GoesBySetting, Zenon DEF LiveTail, Reads
    <3> QED
      BY <3>1 DEF Goes, Admitted
  <2>9. CASE LinkCell(c)
    <3>1. CASE nextOf[qs[c].live] = NoCell
      <4>1. Moves(c, "link", [qs[c] EXCEPT !.at = "swing"]) /\ UNCHANGED <<enqueuers, nodeCnt>>
        BY <2>9, <3>1 DEF LinkCell, Moves
      <4> QED
        BY <1>1, <4>1 DEF Admitted
    <3>2. CASE nextOf[qs[c].live] # NoCell
      BY <1>1, <2>9, <3>2 DEF LinkCell, Reads, Admitted
    <3> QED
      BY <3>1, <3>2
  <2>10. CASE Swing(c)
    BY <1>1, <2>10 DEF Swing, Admitted
  <2> QED
    BY <2>1, <2>2, <2>3, <2>4, <2>5, <2>6, <2>7, <2>8, <2>9, <2>10
<1> QED
  BY <1>1, <1>2, SameSide

\* A step of a dequeuer; the last one can only make _NodeCnt smaller.
LEMMA DequeueCountInv ==
  ASSUME CountInv, NEW c \in Clients,
         \/ DequeueTag(c) \/ HeadNode(c) \/ HeadTag(c) \/ HeadNext(c) \/ ReturnFalse(c)
         \/ SwapHead(c) \/ ReadData(c) \/ FreeCell(c) \/ UncountCell(c)
  PROVE  CountInv'
<1>1. "at" \in DOMAIN qs[c] /\ nodeCnt \in Int /\ "at" \in DOMAIN Idle /\ Idle.at = "out"
  BY DEF CountInv, Placed, Idle
<1>2. \E from, new : /\ Moves(c, from, new) /\ "at" \in DOMAIN new
                     /\ (from \in Admitted) = (new.at \in Admitted)
                     /\ UNCHANGED enqueuers /\ nodeCnt' \in {nodeCnt, nodeCnt - 1}
  <2>1. CASE DequeueTag(c)
    <3>1. Goes(c, "out", "headNode") /\ UNCHANGED <<enqueuers, nodeCnt>>
      BY <1>1, <2>1, GoesBySetting, Zenon DEF DequeueTag, TakeTag
    <3> QED
      BY <3>1 DEF Goes, Admitted
  <2>2. CASE HeadNode(c)
    <3>1. Goes(c, "headNode", "headTag") /\ UNCHANGED <<enqueuers, nodeCnt>>
      BY <1>1, <2>2, GoesBySetting, Zenon DEF HeadNode, Reads
    <3> QED
      BY <3>1 DEF Goes, Admitted
  <2>3. CASE HeadTag(c)
    <3>1. Goes(c, "headTag", "headNext") /\ UNCHANGED <<enqueuers, nodeCnt>>
      BY <1>1, <2>3, GoesBySetting, Zenon DEF HeadTag, Reads
    <3> QED
      BY <3>1 DEF Goes, Admitted
  <2>4. CASE HeadNext(c)
    <3>1. Goes(c, "headNext", "nothing") \/ Goes(c, "headNext", "swap")
      <4>1. CASE nextOf[qs[c].pre.node] = NoCell
        <5>1. Moves(c, "headNext", [Idle EXCEPT !.at = "nothing"])
          BY <2>4, <4>1 DEF HeadNext, Reads
        <5> QED
          BY <1>1, <5>1, GoesBySetting, Zenon
      <4>2. CASE nextOf[qs[c].pre.node] # NoCell
        <5>1. Moves(c, "headNext", [qs[c] EXCEPT !.at = "swap", !.node = nextOf[qs[c].pre.node]])
          BY <2>4, <4>2 DEF HeadNext, Reads
        <5> QED
          BY <1>1, <5>1, GoesBySetting, Zenon
      <4> QED
        BY <4>1, <4>2
    <3>2. UNCHANGED <<enqueuers, nodeCnt>>
      BY <2>4 DEF HeadNext, Reads
    <3> QED
      BY <3>1, <3>2 DEF Goes, Admitted
  <2>5. CASE ReturnFalse(c)
    BY <1>1, <2>5 DEF ReturnFalse, Reads, Admitted
  <2>6. CASE SwapHead(c)
    BY <1>1, <2>6 DEF SwapHead, Reads, Admitted
  <2>7. CASE ReadData(c)
    <3>1. Goes(c, "data", "free") /\ UNCHANGED <<enqueuers, nodeCnt>>
      BY <1>1, <2>7, GoesBySetting, Zenon DEF ReadData, Reads
    <3> QED
      BY <3>1 DEF Goes, Admitted
  <2>8. CASE FreeCell(c)
    BY <1>1, <2>8 DEF FreeCell, Admitted
  <2>9. CASE UncountCell(c)
    BY <1>1, <2>9 DEF UncountCell, Admitted
  <2> QED
    BY <2>1, <2>2, <2>3, <2>4, <2>5, <2>6, <2>7, <2>8, <2>9
<1> QED
  BY <1>1, <1>2, SameSide

LEMMA StepCountInv == CountInv /\ [QueueNext]_queueVars => CountInv'
<1> SUFFICES ASSUME CountInv, [QueueNext]_queueVars PROVE CountInv'
  OBVIOUS
<1>1. CASE UNCHANGED queueVars
  BY <1>1 DEF queueVars, CountInv, Placed, Admittance, Among, Admitted, CountBounded
<1>2. ASSUME NEW c \in Clients, TestFull(c) \/ DequeueTag(c) \/ Continue(c) PROVE CountInv'
  BY <1>2, TestFullCountInv, CountCellCountInv, EnqueueCountInv, DequeueCountInv DEF Continue
<1> QED
  BY <1>1, <1>2 DEF QueueNext

\* The length the queue reports never passes its limit by as much as the number of
\* enqueuers: the test at the head of Enqueue and the increment at its end, taken by any
\* number of threads in any order.
THEOREM QueueCountBounded == QueueSpec => []CountBounded
<1>1. CountInv => CountBounded
  BY DEF CountInv
<1> QED
  BY InitCountInv, StepCountInv, <1>1, PTL DEF QueueSpec

-----------------------------------------------------------------------------
(* One enqueuer and one dequeuer: the invariant *)

\* e is the enqueuer and d the dequeuer, and there is nobody else.
Pair(e, d) == enqueuers = {e} /\ Clients = {e, d} /\ e # d

Cell == Cells \cup {NoCell}
Tagged == [node : Cells, tag : Nat]
EnqueuePlaces == {"out", "refused"} \cup Admitted
DequeuePlaces ==
  {"out", "headNode", "headTag", "headNext", "nothing", "swap", "data", "free", "uncount"}
Locals(places) ==
  [at : places, pre : [node : Cell, tag : Nat], node : Cell, tag : Nat, live : Cell,
   item : Items \cup {NoItem}]

Typed(e, d) ==
  /\ head \in Tagged /\ tail \in Tagged /\ tagNo \in Nat /\ nodeCnt \in Int
  /\ nextOf \in [Cells -> Cell] /\ dataOf \in [Cells -> Items \cup {NoItem}]
  /\ spare \subseteq Cells /\ line \in Seq(Cells)
  /\ qs \in [Clients -> Locals(EnqueuePlaces \cup DequeuePlaces)]
  /\ qs[e].at \in EnqueuePlaces /\ qs[d].at \in DequeuePlaces

\* The dummy and the nodes behind it.
Linked == {head.node} \cup {line[i] : i \in 1 .. Len(line)}
LastCell == IF line = <<>> THEN head.node ELSE line[Len(line)]

\* The links follow the line, and end with it.
Follows ==
  /\ \A i \in 1 .. Len(line) : line[i] # head.node
  /\ \A i, j \in 1 .. Len(line) : line[i] = line[j] => i = j
  /\ line # <<>> => nextOf[head.node] = line[1]
  /\ \A i \in 1 .. Len(line) - 1 : nextOf[line[i]] = line[i + 1]
  /\ nextOf[LastCell] = NoCell

\* A node is in the pool, in the queue, or with the one who has just taken it from either.
Bringing == {"tag", "tailNode", "tailTag", "tailNext", "live", "link"}
Parted(e, d) ==
  /\ spare \cap Linked = {}
  /\ qs[e].at \in Bringing =>
       /\ qs[e].node \in Cells \ (spare \cup Linked)
       /\ nextOf[qs[e].node] = NoCell /\ dataOf[qs[e].node] = qs[e].item
  /\ qs[d].at \in {"data", "free"} =>
       /\ qs[d].pre.node \in Cells \ (spare \cup Linked)
       /\ qs[e].at \in Bringing => qs[e].node # qs[d].pre.node

\* The tail is the last node, or the one before it while the enqueuer is about to move it;
\* nobody else moves it, so what the enqueuer has read of it is so, and Help is not reached.
AtTail(e) ==
  /\ qs[e].at # "help"
  /\ IF qs[e].at = "swing" THEN tail = qs[e].pre /\ qs[e].node = LastCell ELSE tail.node = LastCell
  /\ qs[e].at \in {"tailTag", "tailNext", "live", "link"} => qs[e].pre.node = tail.node
  /\ qs[e].at \in {"tailNext", "live", "link"} => qs[e].pre.tag = tail.tag
  /\ qs[e].at = "link" => qs[e].live = tail.node

\* Nobody but the dequeuer moves the head.
AtHead(d) ==
  /\ qs[d].at \in {"headTag", "headNext", "swap"} => qs[d].pre.node = head.node
  /\ qs[d].at \in {"headNext", "swap"} => qs[d].pre.tag = head.tag
  /\ qs[d].at = "swap" => line # <<>> /\ qs[d].node = line[1]
  /\ qs[d].at = "data" => qs[d].node = head.node

\* _NodeCnt is the length but for the one who is about to count, and there is room for the
\* node of an enqueuer that was let in.
Counted(e, d) ==
  /\ nodeCnt = Len(line) - (IF qs[e].at \in {"swing", "count"} THEN 1 ELSE 0)
                         + (IF qs[d].at \in {"data", "free", "uncount"} THEN 1 ELSE 0)
  /\ qs[e].at \in Admitted => nodeCnt < MaxCnt

FifoInv(e, d) ==
  Typed(e, d) /\ Follows /\ Parted(e, d) /\ AtTail(e) /\ AtHead(d) /\ Counted(e, d)

PairInv == \A e, d \in Clients : Pair(e, d) => FifoInv(e, d)

-----------------------------------------------------------------------------
(* One enqueuer and one dequeuer: the invariant is inductive *)

LEMMA PairMoves ==
  ASSUME NEW e, NEW d, Pair(e, d), Typed(e, d), NEW c \in {e, d}, NEW from, NEW new,
         Moves(c, from, new), new \in Locals(EnqueuePlaces \cup DequeuePlaces)
  PROVE  /\ qs[c].at = from /\ qs'[c] = new
         /\ \A x \in {e, d} \ {c} : qs'[x] = qs[x]
         /\ qs' \in [Clients -> Locals(EnqueuePlaces \cup DequeuePlaces)]
BY DEF Pair, Typed, Moves

\* A step of the enqueuer that changes nothing but its locals.
LEMMA EnqueuerReads ==
  ASSUME NEW e, NEW d, Pair(e, d), FifoInv(e, d), NEW from, NEW new, Moves(e, from, new),
         new \in Locals(EnqueuePlaces), UNCHANGED <<enqueuers, ends, nodes, nodeCnt>>,
         tagNo' \in Nat,
         from \notin {"swing", "count"}, new.at \notin {"swing", "count", "help"},
         new.at \in Bringing =>
           from \in Bringing /\ new.node = qs[e].node /\ new.item = qs[e].item,
         new.at \in {"tailTag", "tailNext", "live", "link"} => new.pre.node = tail.node,
         new.at \in {"tailNext", "live", "link"} => new.pre.tag = tail.tag,
         new.at = "link" => new.live = tail.node,
         new.at \in Admitted => nodeCnt < MaxCnt
  PROVE  FifoInv(e, d)'
<1>1. new \in Locals(EnqueuePlaces \cup DequeuePlaces) /\ new.at \in EnqueuePlaces
  BY DEF Locals
<1>2. /\ qs[e].at = from /\ qs'[e] = new /\ qs'[d] = qs[d]
      /\ qs' \in [Clients -> Locals(EnqueuePlaces \cup DequeuePlaces)]
  BY <1>1, PairMoves DEF FifoInv, Pair
<1>3. /\ UNCHANGED <<head, tail, line, nextOf, dataOf, spare, nodeCnt>>
      /\ Linked' = Linked /\ LastCell' = LastCell
  BY DEF ends, nodes, Linked, LastCell
<1>4. Typed(e, d)'
  BY <1>1, <1>2, <1>3 DEF FifoInv, Typed
<1>5. Follows'
  BY <1>3 DEF FifoInv, Follows
<1>6. Parted(e, d)'
  BY <1>2, <1>3 DEF FifoInv, Parted
<1>7. AtTail(e)'
  BY <1>2, <1>3 DEF FifoInv, AtTail
<1>8. AtHead(d)'
  BY <1>2, <1>3 DEF FifoInv, AtHead
<1>9. Counted(e, d)'
  BY <1>2, <1>3 DEF FifoInv, Counted
<1> QED
  BY <1>4, <1>5, <1>6, <1>7, <1>8, <1>9 DEF FifoInv

\* The places of a dequeuer that has moved the head and not yet counted.
Leaving == {"data", "free", "uncount"}

\* A step of the dequeuer that changes nothing but its locals.
LEMMA DequeuerReads ==
  ASSUME NEW e, NEW d, Pair(e, d), FifoInv(e, d), NEW from, NEW new, Moves(d, from, new),
         new \in Locals(DequeuePlaces), UNCHANGED <<enqueuers, ends, nodes, nodeCnt>>,
         tagNo' \in Nat,
         from \in Leaving <=> new.at \in Leaving,
         new.at \in {"data", "free"} => from = "data" /\ new.pre = qs[d].pre,
         new.at \in {"headTag", "headNext", "swap"} => new.pre.node = head.node,
         new.at \in {"headNext", "swap"} => new.pre.tag = head.tag,
         new.at = "swap" => line # <<>> /\ new.node = line[1],
         new.at = "data" => new.node = head.node
  PROVE  FifoInv(e, d)'
<1>1. /\ new \in Locals(EnqueuePlaces \cup DequeuePlaces) /\ new.at \in DequeuePlaces
      /\ e \in {e, d} \ {d} /\ Typed(e, d)
  BY DEF Locals, Pair, FifoInv
<1>2. /\ qs[d].at = from /\ qs'[d] = new /\ qs'[e] = qs[e]
      /\ qs' \in [Clients -> Locals(EnqueuePlaces \cup DequeuePlaces)]
  BY <1>1 DEF Pair, Typed, Moves
<1>3. /\ UNCHANGED <<head, tail, line, nextOf, dataOf, spare, nodeCnt>>
      /\ Linked' = Linked /\ LastCell' = LastCell
  BY DEF ends, nodes, Linked, LastCell
<1>4. Typed(e, d)'
  BY <1>1, <1>2, <1>3 DEF FifoInv, Typed
<1>5. Follows'
  BY <1>3 DEF FifoInv, Follows
<1>6. Parted(e, d)'
  BY <1>2, <1>3 DEF FifoInv, Parted
<1>7. AtTail(e)'
  BY <1>2, <1>3 DEF FifoInv, AtTail
<1>8. AtHead(d)'
  BY <1>2, <1>3 DEF FifoInv, AtHead
<1>9. Counted(e, d)'
  BY <1>2, <1>3 DEF FifoInv, Counted, Leaving
<1> QED
  BY <1>4, <1>5, <1>6, <1>7, <1>8, <1>9 DEF FifoInv

LEMMA LastInLine ==
  ASSUME NEW e, NEW d, FifoInv(e, d)
  PROVE  /\ LastCell \in Linked /\ LastCell \in Cells /\ head.node \in Cells
         /\ Linked \subseteq Cells /\ Len(line) \in Nat
         /\ nextOf[head.node] = (IF line = <<>> THEN NoCell ELSE line[1])
<1>1. /\ line \in Seq(Cells) /\ head.node \in Cells /\ Len(line) \in Nat
      /\ \A i \in 1 .. Len(line) : line[i] \in Cells
      /\ line # <<>> => Len(line) \in 1 .. Len(line)
  BY DEF FifoInv, Typed, Tagged
<1>2. LastCell \in Linked
  BY <1>1 DEF LastCell, Linked
<1>3. Linked \subseteq Cells
  BY <1>1 DEF Linked
<1> QED
  BY <1>1, <1>2, <1>3 DEF LastCell, FifoInv, Follows
LEMMA EnqueuerReadSteps ==
  ASSUME NEW e, NEW d, Pair(e, d), FifoInv(e, d),
         \/ TestFull(e) \/ Refuse(e) \/ EnqueueTag(e) \/ TailNode(e) \/ TailTag(e) \/ TailNext(e)
         \/ LiveTail(e)
  PROVE  FifoInv(e, d)'
<1> DEFINE r == qs[e]
<1>1. /\ r \in Locals(EnqueuePlaces \cup DequeuePlaces) /\ r.at \in EnqueuePlaces
      /\ tail \in Tagged /\ tagNo \in Nat /\ nodeCnt \in Int
  BY DEF FifoInv, Typed, Pair
<1>2. Idle \in Locals(EnqueuePlaces) /\ Idle.at = "out"
  BY DEF Idle, Locals, EnqueuePlaces, Cell
<1>3. CASE TestFull(e)
  <2>1. PICK new : /\ new = [Idle EXCEPT !.at = IF nodeCnt >= MaxCnt THEN "refused" ELSE "alloc"]
                   /\ Reads(e, "out", new)
    BY <1>3 DEF TestFull
  <2>2. /\ new.at = IF nodeCnt >= MaxCnt THEN "refused" ELSE "alloc"
        /\ new \in Locals(EnqueuePlaces)
    BY <2>1 DEF Idle, Locals, EnqueuePlaces, Admitted, Cell
  <2>3. new.at \in {"refused", "alloc"} /\ (new.at = "alloc" => nodeCnt < MaxCnt)
    BY <1>1, <2>2, MaxCntAssumption
  <2>4. /\ Moves(e, "out", new) /\ UNCHANGED <<enqueuers, ends, nodes, nodeCnt>> /\ tagNo' \in Nat
        /\ new \in Locals(EnqueuePlaces)
    BY <1>1, <2>1, <2>2 DEF Reads
  <2> QED
    BY <2>3, <2>4, EnqueuerReads DEF Bringing, Admitted
<1>4. CASE Refuse(e)
  BY <1>1, <1>2, <1>4, EnqueuerReads DEF Refuse, Reads, Bringing, Admitted
<1>5. CASE EnqueueTag(e)
  <2>1. PICK new : /\ new = [[r EXCEPT !.at = "tailNode"] EXCEPT !.tag = tagNo + 1]
                   /\ Moves(e, "tag", new)
                   /\ UNCHANGED <<enqueuers, ends, nodes, nodeCnt>> /\ tagNo' = tagNo + 1
    BY <1>5 DEF EnqueueTag, TakeTag
  <2>2. /\ new.at = "tailNode" /\ new.node = r.node /\ new.item = r.item
        /\ new \in Locals(EnqueuePlaces) /\ tagNo' \in Nat
    <3>1. PICK k \in Nat : k = tagNo + 1
      BY <1>1
    <3>2. PICK q \in Locals(EnqueuePlaces) :
            q.at = "tailNode" /\ q.node = r.node /\ q.item = r.item /\ q = [r EXCEPT !.at = "tailNode"]
      BY <1>1 DEF Locals, EnqueuePlaces, Admitted
    <3>3. new = [q EXCEPT !.tag = k]
      BY <2>1, <3>1, <3>2
    <3> QED
      BY <2>1, <3>1, <3>2, <3>3 DEF Locals
  <2>3. nodeCnt < MaxCnt /\ r.at = "tag"
    BY <2>1 DEF Moves, FifoInv, Counted, Admitted
  <2> QED
    BY <2>1, <2>2, <2>3, EnqueuerReads DEF Bringing, Admitted
<1>6. CASE TailNode(e)
  <2>1. PICK new : new = [r EXCEPT !.at = "tailTag", !.pre.node = tail.node] /\ Reads(e, "tailNode", new)
    BY <1>6 DEF TailNode
  <2>2. /\ new.at = "tailTag" /\ new.node = r.node /\ new.item = r.item /\ new.pre.node = tail.node
        /\ new \in Locals(EnqueuePlaces)
    BY <1>1, <2>1 DEF Locals, EnqueuePlaces, Admitted, Tagged, Cell
  <2>3. nodeCnt < MaxCnt /\ r.at = "tailNode"
    BY <2>1 DEF Reads, Moves, FifoInv, Counted, Admitted
  <2> QED
    BY <1>1, <2>1, <2>2, <2>3, EnqueuerReads DEF Reads, Bringing, Admitted
<1>7. CASE TailTag(e)
  <2>1. PICK new : new = [r EXCEPT !.at = "tailNext", !.pre.tag = tail.tag] /\ Reads(e, "tailTag", new)
    BY <1>7 DEF TailTag
  <2>2. /\ new.at = "tailNext" /\ new.node = r.node /\ new.item = r.item
        /\ new.pre.node = r.pre.node /\ new.pre.tag = tail.tag
        /\ new \in Locals(EnqueuePlaces)
    BY <1>1, <2>1 DEF Locals, EnqueuePlaces, Admitted, Tagged, Cell
  <2>3. nodeCnt < MaxCnt /\ r.at = "tailTag" /\ r.pre.node = tail.node
    BY <2>1 DEF Reads, Moves, FifoInv, Counted, Admitted, AtTail
  <2> QED
    BY <1>1, <2>1, <2>2, <2>3, EnqueuerReads DEF Reads, Bringing, Admitted
<1>8. CASE TailNext(e)
  <2>1. nodeCnt < MaxCnt /\ r.at = "tailNext" /\ r.pre.node = tail.node /\ r.pre.tag = tail.tag
    BY <1>8 DEF TailNext, Reads, Moves, FifoInv, Counted, Admitted, AtTail
  <2>2. nextOf[tail.node] = NoCell
    BY <2>1 DEF FifoInv, AtTail, Follows
  <2>3. PICK new : new = [r EXCEPT !.at = "live"] /\ Reads(e, "tailNext", new)
    BY <1>8, <2>1, <2>2 DEF TailNext
  <2>4. /\ new.at = "live" /\ new.node = r.node /\ new.item = r.item /\ new.pre = r.pre
        /\ new \in Locals(EnqueuePlaces)
    BY <1>1, <2>3 DEF Locals, EnqueuePlaces, Admitted
  <2> QED
    BY <1>1, <2>1, <2>3, <2>4, EnqueuerReads DEF Reads, Bringing, Admitted
<1>9. CASE LiveTail(e)
  <2>1. PICK new : new = [r EXCEPT !.at = "link", !.live = tail.node] /\ Reads(e, "live", new)
    BY <1>9 DEF LiveTail
  <2>2. /\ new.at = "link" /\ new.node = r.node /\ new.item = r.item /\ new.pre = r.pre
        /\ new.live = tail.node /\ new \in Locals(EnqueuePlaces)
    BY <1>1, <2>1 DEF Locals, EnqueuePlaces, Admitted, Tagged, Cell
  <2>3. nodeCnt < MaxCnt /\ r.at = "live" /\ r.pre.node = tail.node /\ r.pre.tag = tail.tag
    BY <2>1 DEF Reads, Moves, FifoInv, Counted, Admitted, AtTail
  <2> QED
    BY <1>1, <2>1, <2>2, <2>3, EnqueuerReads DEF Reads, Bringing, Admitted
<1> QED
  BY <1>3, <1>4, <1>5, <1>6, <1>7, <1>8, <1>9

LEMMA DequeuerReadSteps ==
  ASSUME NEW e, NEW d, Pair(e, d), FifoInv(e, d),
         DequeueTag(d) \/ HeadNode(d) \/ HeadTag(d) \/ HeadNext(d) \/ ReturnFalse(d) \/ ReadData(d)
  PROVE  FifoInv(e, d)'
<1> DEFINE r == qs[d]
<1>1. /\ r \in Locals(EnqueuePlaces \cup DequeuePlaces) /\ r.at \in DequeuePlaces
      /\ head \in Tagged /\ tagNo \in Nat
  BY DEF FifoInv, Typed, Pair
<1>2. Idle \in Locals(DequeuePlaces) /\ Idle.at = "out"
  BY DEF Idle, Locals, DequeuePlaces, Cell
<1>3. CASE DequeueTag(d)
  <2>1. PICK new : /\ new = [[Idle EXCEPT !.at = "headNode"] EXCEPT !.tag = tagNo + 1]
                   /\ Moves(d, "out", new)
                   /\ UNCHANGED <<enqueuers, ends, nodes, nodeCnt>> /\ tagNo' = tagNo + 1
    BY <1>3 DEF DequeueTag, TakeTag
  <2>2. new.at = "headNode" /\ new \in Locals(DequeuePlaces) /\ tagNo' \in Nat
    <3>1. PICK k \in Nat : k = tagNo + 1
      BY <1>1
    <3>2. PICK q \in Locals(DequeuePlaces) : q.at = "headNode" /\ q = [Idle EXCEPT !.at = "headNode"]
      BY <1>2 DEF Locals, DequeuePlaces
    <3>3. new = [q EXCEPT !.tag = k]
      BY <2>1, <3>1, <3>2
    <3> QED
      BY <2>1, <3>1, <3>2, <3>3 DEF Locals
  <2> QED
    BY <2>1, <2>2, DequeuerReads DEF Leaving
<1>4. CASE HeadNode(d)
  <2>1. PICK new : new = [r EXCEPT !.at = "headTag", !.pre.node = head.node] /\ Reads(d, "headNode", new)
    BY <1>4 DEF HeadNode
  <2>2. new.at = "headTag" /\ new.pre.node = head.node /\ new \in Locals(DequeuePlaces)
    BY <1>1, <2>1 DEF Locals, DequeuePlaces, Tagged, Cell
  <2> QED
    BY <1>1, <2>1, <2>2, DequeuerReads DEF Reads, Leaving
<1>5. CASE HeadTag(d)
  <2>1. PICK new : new = [r EXCEPT !.at = "headNext", !.pre.tag = head.tag] /\ Reads(d, "headTag", new)
    BY <1>5 DEF HeadTag
  <2>2. /\ new.at = "headNext" /\ new.pre.node = r.pre.node /\ new.pre.tag = head.tag
        /\ new \in Locals(DequeuePlaces)
    BY <1>1, <2>1 DEF Locals, DequeuePlaces, Tagged, Cell
  <2>3. r.pre.node = head.node
    BY <2>1 DEF Reads, Moves, FifoInv, AtHead
  <2> QED
    BY <1>1, <2>1, <2>2, <2>3, DequeuerReads DEF Reads, Leaving
<1>6. CASE HeadNext(d)
  <2>1. r.at = "headNext" /\ r.pre.node = head.node /\ r.pre.tag = head.tag
    BY <1>6 DEF HeadNext, Reads, Moves, FifoInv, AtHead
  <2>2. CASE nextOf[head.node] = NoCell
    <3>1. PICK new : new = [Idle EXCEPT !.at = "nothing"] /\ Reads(d, "headNext", new)
      BY <1>6, <2>1, <2>2 DEF HeadNext
    <3>2. new.at = "nothing" /\ new \in Locals(DequeuePlaces)
      BY <1>2, <3>1 DEF Locals, DequeuePlaces
    <3> QED
      BY <1>1, <3>1, <3>2, DequeuerReads DEF Reads, Leaving
  <2>3. CASE nextOf[head.node] # NoCell
    <3>1. line # <<>> /\ nextOf[head.node] = line[1] /\ nextOf[head.node] \in Cell
      BY <2>3, LastInLine DEF FifoInv, Typed, Tagged
    <3>2. PICK new : new = [r EXCEPT !.at = "swap", !.node = nextOf[head.node]] /\ Reads(d, "headNext", new)
      BY <1>6, <2>1, <2>3 DEF HeadNext
    <3>3. /\ new.at = "swap" /\ new.node = line[1] /\ new.pre = r.pre
          /\ new \in Locals(DequeuePlaces)
      BY <1>1, <3>1, <3>2 DEF Locals, DequeuePlaces
    <3> QED
      BY <1>1, <2>1, <3>1, <3>2, <3>3, DequeuerReads DEF Reads, Leaving
  <2> QED
    BY <2>2, <2>3
<1>7. CASE ReturnFalse(d)
  BY <1>1, <1>2, <1>7, DequeuerReads DEF ReturnFalse, Reads, Leaving
<1>8. CASE ReadData(d)
  <2>1. r.at = "data" /\ r.node = head.node
    BY <1>8 DEF ReadData, Reads, Moves, FifoInv, AtHead
  <2>2. dataOf[r.node] \in Items \cup {NoItem}
    BY <1>1, <2>1 DEF FifoInv, Typed, Tagged
  <2>3. PICK new : new = [r EXCEPT !.at = "free", !.item = dataOf[r.node]] /\ Reads(d, "data", new)
    BY <1>8 DEF ReadData
  <2>4. new.at = "free" /\ new.pre = r.pre /\ new \in Locals(DequeuePlaces)
    BY <1>1, <2>2, <2>3 DEF Locals, DequeuePlaces
  <2> QED
    BY <1>1, <2>1, <2>3, <2>4, DequeuerReads DEF Reads, Leaving
<1> QED
  BY <1>3, <1>4, <1>5, <1>6, <1>7, <1>8

LEMMA SameTagged ==
  ASSUME NEW p \in [node : Cell, tag : Nat], NEW q \in [node : Cell, tag : Nat],
         p.node = q.node, p.tag = q.tag
  PROVE  p = q
<1>1. p = [node |-> p.node, tag |-> p.tag] /\ q = [node |-> q.node, tag |-> q.tag]
  OBVIOUS
<1> QED
  BY <1>1

LEMMA AllocCellFifo ==
  ASSUME NEW e, NEW d, Pair(e, d), FifoInv(e, d), AllocCell(e)
  PROVE  FifoInv(e, d)'
<1>1. PICK n \in spare, v \in Items :
        /\ Moves(e, "alloc", [qs[e] EXCEPT !.at = "tag", !.node = n, !.item = v])
        /\ spare' = spare \ {n}
        /\ dataOf' = [dataOf EXCEPT ![n] = v] /\ nextOf' = [nextOf EXCEPT ![n] = NoCell]
  BY DEF AllocCell
<1>2. /\ n \in Cells /\ n \notin Linked /\ qs[e] \in Locals(EnqueuePlaces \cup DequeuePlaces)
      /\ UNCHANGED <<enqueuers, head, tail, line, tagNo, nodeCnt>>
  BY DEF FifoInv, Typed, Parted, Pair, AllocCell, ends
<1>3. PICK new \in Locals(EnqueuePlaces \cup DequeuePlaces) :
        /\ new = [qs[e] EXCEPT !.at = "tag", !.node = n, !.item = v]
        /\ new.at = "tag" /\ new.node = n /\ new.item = v
  <2>1. "tag" \in EnqueuePlaces \cup DequeuePlaces /\ n \in Cell
    BY <1>2 DEF EnqueuePlaces, Admitted, Cell
  <2>2. [qs[e] EXCEPT !.at = "tag", !.node = n, !.item = v] \in Locals(EnqueuePlaces \cup DequeuePlaces)
    BY <1>2, <2>1 DEF Locals
  <2>3. /\ [qs[e] EXCEPT !.at = "tag", !.node = n, !.item = v].at = "tag"
        /\ [qs[e] EXCEPT !.at = "tag", !.node = n, !.item = v].node = n
        /\ [qs[e] EXCEPT !.at = "tag", !.node = n, !.item = v].item = v
    BY <1>2 DEF Locals
  <2> QED
    BY <2>2, <2>3
<1>4. /\ qs[e].at = "alloc" /\ qs'[e] = new /\ qs'[d] = qs[d]
      /\ qs' \in [Clients -> Locals(EnqueuePlaces \cup DequeuePlaces)]
  BY <1>1, <1>3 DEF FifoInv, Pair, Typed, Moves
<1>5. Linked' = Linked /\ LastCell' = LastCell
  BY <1>2 DEF Linked, LastCell
<1>6. /\ nextOf' \in [Cells -> Cell] /\ dataOf' \in [Cells -> Items \cup {NoItem}]
      /\ \A c \in Cells \ {n} : nextOf'[c] = nextOf[c] /\ dataOf'[c] = dataOf[c]
      /\ nextOf'[n] = NoCell /\ dataOf'[n] = v
  BY <1>1, <1>2 DEF FifoInv, Typed, Cell
<1>7. Typed(e, d)'
  BY <1>1, <1>2, <1>3, <1>4, <1>6 DEF FifoInv, Typed, EnqueuePlaces, Admitted
<1>8. Follows'
  <2>1. head.node \in Linked /\ \A i \in 1 .. Len(line) : line[i] \in Linked
    BY DEF Linked
  <2>2. \A c \in Linked : nextOf'[c] = nextOf[c]
    BY <1>2, <1>6, LastInLine
  <2>3. LastCell \in Linked /\ Len(line) \in Nat
    BY LastInLine
  <2>4. \A i \in 1 .. Len(line) - 1 : i \in 1 .. Len(line)
    BY <2>3
  <2>5. line # <<>> => nextOf'[head.node] = line[1]
    BY <2>1, <2>2 DEF FifoInv, Follows
  <2>6. \A i \in 1 .. Len(line) - 1 : nextOf'[line[i]] = line[i + 1]
    BY <2>1, <2>2, <2>4 DEF FifoInv, Follows
  <2>7. nextOf'[LastCell] = NoCell
    BY <2>2, <2>3 DEF FifoInv, Follows
  <2> QED
    BY <1>2, <1>5, <2>5, <2>6, <2>7 DEF FifoInv, Follows
<1>9. Parted(e, d)'
  <2>1. qs[d].at \in {"data", "free"} => qs[d].pre.node # n
    BY <1>1 DEF FifoInv, Parted
  <2> QED
    BY <1>1, <1>2, <1>3, <1>4, <1>5, <1>6, <2>1 DEF FifoInv, Parted
<1>10. AtTail(e)'
  BY <1>2, <1>3, <1>4, <1>5 DEF FifoInv, AtTail
<1>11. AtHead(d)'
  BY <1>2, <1>4 DEF FifoInv, AtHead
<1>12. Counted(e, d)'
  BY <1>2, <1>3, <1>4 DEF FifoInv, Counted, Admitted
<1> QED
  BY <1>7, <1>8, <1>9, <1>10, <1>11, <1>12 DEF FifoInv

\* The enqueuer links its node at the end of the line: its exchange never fails.
LEMMA LinkCellFifo ==
  ASSUME NEW e, NEW d, Pair(e, d), FifoInv(e, d), LinkCell(e)
  PROVE  /\ FifoInv(e, d)'
         /\ qs[e].at = "link" /\ qs' = [qs EXCEPT ![e].at = "swing"]
         /\ line' = Append(line, qs[e].node) /\ UNCHANGED dataOf
<1> DEFINE n == qs[e].node
<1>1. /\ qs[e].at = "link" /\ qs[e].live = LastCell /\ nextOf[LastCell] = NoCell
      /\ qs[e].pre.node = tail.node /\ qs[e].pre.tag = tail.tag
      /\ n \in Cells /\ n \notin spare /\ n \notin Linked
      /\ nextOf[n] = NoCell /\ dataOf[n] = qs[e].item
      /\ qs[e] \in Locals(EnqueuePlaces \cup DequeuePlaces)
  BY DEF LinkCell, FifoInv, AtTail, Follows, Parted, Bringing, Typed, Pair
<1>2. /\ qs' = [qs EXCEPT ![e].at = "swing"]
      /\ nextOf' = [nextOf EXCEPT ![LastCell] = n]
      /\ line' = Append(line, n)
      /\ UNCHANGED <<enqueuers, head, tail, dataOf, spare, tagNo, nodeCnt>>
  BY <1>1 DEF LinkCell
<1>3. /\ qs'[e].at = "swing" /\ qs'[e].node = n /\ qs'[e].pre = qs[e].pre /\ qs'[d] = qs[d]
      /\ qs' \in [Clients -> Locals(EnqueuePlaces \cup DequeuePlaces)]
  <2>1. PICK new \in Locals(EnqueuePlaces \cup DequeuePlaces) :
          /\ new = [qs[e] EXCEPT !.at = "swing"]
          /\ new.at = "swing" /\ new.node = n /\ new.pre = qs[e].pre
    <3>1. "swing" \in EnqueuePlaces \cup DequeuePlaces /\ n \in Cell
      BY <1>1 DEF EnqueuePlaces, Admitted, Cell
    <3>2. [qs[e] EXCEPT !.at = "swing"] \in Locals(EnqueuePlaces \cup DequeuePlaces)
      BY <1>1, <3>1 DEF Locals
    <3>3. /\ [qs[e] EXCEPT !.at = "swing"].at = "swing" /\ [qs[e] EXCEPT !.at = "swing"].node = n
          /\ [qs[e] EXCEPT !.at = "swing"].pre = qs[e].pre
      BY <1>1 DEF Locals
    <3> QED
      BY <3>2, <3>3
  <2>2. qs' = [qs EXCEPT ![e] = new]
    BY <1>2, <2>1
  <2> QED
    BY <2>1, <2>2 DEF Pair, FifoInv, Typed
<1>4. /\ Len(line) \in Nat /\ line \in Seq(Cells) /\ line' \in Seq(Cells)
      /\ Len(line') = Len(line) + 1 /\ line'[Len(line) + 1] = n /\ line' # <<>>
      /\ \A i \in 1 .. Len(line) : line'[i] = line[i]
  BY <1>1, <1>2 DEF FifoInv, Typed
<1>5. Linked' = Linked \cup {n} /\ LastCell' = n
  <2>1. LastCell' = n
    BY <1>4 DEF LastCell
  <2>2. 1 .. Len(line') = 1 .. Len(line) \cup {Len(line) + 1}
    BY <1>4
  <2> QED
    BY <1>2, <1>4, <2>1, <2>2 DEF Linked
<1>6. /\ nextOf' \in [Cells -> Cell]
      /\ \A c \in Cells \ {LastCell} : nextOf'[c] = nextOf[c]
      /\ nextOf'[LastCell] = n
  BY <1>1, <1>2, LastInLine DEF FifoInv, Typed, Cell
<1>7. Typed(e, d)'
  BY <1>2, <1>3, <1>4, <1>6 DEF FifoInv, Typed, EnqueuePlaces, Admitted
<1>8. n # LastCell /\ n # head.node /\ \A i \in 1 .. Len(line) : line[i] # n
  BY <1>1, LastInLine DEF Linked
<1>9. Follows'
  <2>1. \A i \in 1 .. Len(line') : line'[i] # head'.node
    BY <1>2, <1>4, <1>8 DEF FifoInv, Follows
  <2>2. \A i, j \in 1 .. Len(line') : line'[i] = line'[j] => i = j
    BY <1>4, <1>8 DEF FifoInv, Follows
  <2>3. nextOf'[head'.node] = line'[1]
    <3>1. CASE line = <<>>
      BY <1>2, <1>4, <1>6, <3>1 DEF LastCell
    <3>2. CASE line # <<>>
      <4>1. head.node # LastCell /\ 1 \in 1 .. Len(line)
        BY <1>4, <3>2 DEF LastCell, FifoInv, Follows
      <4> QED
        BY <1>2, <1>4, <1>6, <3>2, <4>1, LastInLine DEF FifoInv, Follows
    <3> QED
      BY <3>1, <3>2
  <2>4. ASSUME NEW i \in 1 .. Len(line') - 1 PROVE nextOf'[line'[i]] = line'[i + 1]
    <3>1. i \in 1 .. Len(line) /\ line'[i] = line[i] /\ line[i] \in Cells
      BY <1>4
    <3>2. CASE i = Len(line)
      BY <1>4, <1>6, <3>1, <3>2 DEF LastCell
    <3>3. CASE i # Len(line)
      <4>1. i \in 1 .. Len(line) - 1 /\ i + 1 \in 1 .. Len(line) /\ Len(line) \in 1 .. Len(line)
        BY <1>4, <3>1, <3>3
      <4>2. line[i] # LastCell
        BY <1>4, <3>1, <3>3, <4>1 DEF LastCell, FifoInv, Follows
      <4> QED
        BY <1>4, <1>6, <3>1, <4>1, <4>2 DEF FifoInv, Follows
    <3> QED
      BY <3>2, <3>3
  <2>5. nextOf'[LastCell'] = NoCell
    BY <1>1, <1>5, <1>6, <1>8
  <2> QED
    BY <2>1, <2>2, <2>3, <2>4, <2>5 DEF Follows
<1>10. Parted(e, d)'
  BY <1>1, <1>2, <1>3, <1>5 DEF FifoInv, Parted, Bringing
<1>11. AtTail(e)'
  <2>1. qs[e].pre \in [node : Cell, tag : Nat] /\ tail \in [node : Cell, tag : Nat]
    BY <1>1 DEF FifoInv, Typed, Tagged, Locals, Cell
  <2>2. tail = qs[e].pre
    BY <1>1, <2>1, SameTagged
  <2> QED
    BY <1>2, <1>3, <1>5, <2>2 DEF AtTail
<1>12. AtHead(d)'
  <2>1. line # <<>> => line'[1] = line[1]
    BY <1>4
  <2> QED
    BY <1>2, <1>3, <1>4, <2>1 DEF FifoInv, AtHead
<1>13. Counted(e, d)'
  <2> DEFINE k == IF qs[d].at \in {"data", "free", "uncount"} THEN 1 ELSE 0
  <2>1. nodeCnt < MaxCnt /\ nodeCnt = Len(line) - 0 + k /\ k \in Int
    BY <1>1 DEF FifoInv, Counted, Admitted
  <2>2. nodeCnt = Len(line') - 1 + k
    BY <1>4, <2>1
  <2> QED
    BY <1>2, <1>3, <2>1, <2>2 DEF Counted
<1> QED
  BY <1>1, <1>2, <1>7, <1>9, <1>10, <1>11, <1>12, <1>13 DEF FifoInv

LEMMA SwingFifo ==
  ASSUME NEW e, NEW d, Pair(e, d), FifoInv(e, d), Swing(e)
  PROVE  FifoInv(e, d)'
<1>1. /\ qs[e].at = "swing" /\ tail = qs[e].pre /\ qs[e].node = LastCell
      /\ qs[e] \in Locals(EnqueuePlaces \cup DequeuePlaces)
  BY DEF Swing, Moves, FifoInv, AtTail, Typed, Pair
<1>2. /\ qs' = [qs EXCEPT ![e] = [qs[e] EXCEPT !.at = "count"]]
      /\ tail' = [node |-> qs[e].node, tag |-> qs[e].tag]
      /\ UNCHANGED <<enqueuers, head, line, nextOf, dataOf, spare, tagNo, nodeCnt>>
  BY <1>1 DEF Swing, Moves, nodes
<1>3. /\ qs'[e].at = "count" /\ qs'[d] = qs[d]
      /\ qs' \in [Clients -> Locals(EnqueuePlaces \cup DequeuePlaces)]
  <2>1. "count" \in EnqueuePlaces \cup DequeuePlaces
    BY DEF EnqueuePlaces, Admitted
  <2>2. PICK new : new = [qs[e] EXCEPT !.at = "count"]
    OBVIOUS
  <2>3. new \in Locals(EnqueuePlaces \cup DequeuePlaces) /\ new.at = "count"
    BY <1>1, <2>1, <2>2 DEF Locals
  <2> QED
    BY <1>2, <2>2, <2>3 DEF Pair, FifoInv, Typed
<1>4. /\ Linked' = Linked /\ LastCell' = LastCell /\ tail'.node = LastCell
      /\ tail' \in Tagged
  BY <1>1, <1>2, LastInLine DEF Linked, LastCell, Tagged, Locals
<1>5. Typed(e, d)'
  BY <1>2, <1>3, <1>4 DEF FifoInv, Typed, EnqueuePlaces, Admitted
<1>6. Follows'
  BY <1>2, <1>4 DEF FifoInv, Follows
<1>7. Parted(e, d)'
  BY <1>2, <1>3, <1>4 DEF FifoInv, Parted, Bringing
<1>8. AtTail(e)'
  BY <1>3, <1>4 DEF AtTail
<1>9. AtHead(d)'
  BY <1>2, <1>3 DEF FifoInv, AtHead
<1>10. Counted(e, d)'
  BY <1>1, <1>2, <1>3 DEF FifoInv, Counted, Admitted
<1> QED
  BY <1>5, <1>6, <1>7, <1>8, <1>9, <1>10 DEF FifoInv

LEMMA CountCellFifo ==
  ASSUME NEW e, NEW d, Pair(e, d), FifoInv(e, d), CountCell(e)
  PROVE  FifoInv(e, d)'
<1>1. qs[e].at = "count" /\ qs' = [qs EXCEPT ![e] = Idle] /\ nodeCnt' = nodeCnt + 1
      /\ UNCHANGED <<enqueuers, head, tail, line, nextOf, dataOf, spare, tagNo>>
  BY DEF CountCell, Moves, ends, nodes
<1>2. /\ Idle.at = "out" /\ Idle \in Locals(EnqueuePlaces \cup DequeuePlaces)
      /\ nodeCnt \in Int /\ Len(line) \in Nat /\ "out" \in EnqueuePlaces
  BY DEF Idle, Locals, EnqueuePlaces, Cell, FifoInv, Typed
<1>3. /\ qs'[e].at = "out" /\ qs'[d] = qs[d]
      /\ qs' \in [Clients -> Locals(EnqueuePlaces \cup DequeuePlaces)]
  BY <1>1, <1>2 DEF Pair, FifoInv, Typed
<1>4. Linked' = Linked /\ LastCell' = LastCell
  BY <1>1 DEF Linked, LastCell
<1>5. Typed(e, d)'
  <2>1. nodeCnt' \in Int
    BY <1>1, <1>2
  <2>2. UNCHANGED <<head, tail, line, nextOf, dataOf, spare, tagNo>>
    BY <1>1
  <2> QED
    BY <1>2, <1>3, <2>1, <2>2 DEF FifoInv, Typed
<1>6. Follows'
  BY <1>1, <1>4 DEF FifoInv, Follows
<1>7. Parted(e, d)'
  BY <1>1, <1>3, <1>4 DEF FifoInv, Parted, Bringing
<1>8. AtTail(e)'
  BY <1>1, <1>3, <1>4 DEF FifoInv, AtTail
<1>9. AtHead(d)'
  BY <1>1, <1>3 DEF FifoInv, AtHead
<1>10. Counted(e, d)'
  <2> DEFINE k == IF qs[d].at \in {"data", "free", "uncount"} THEN 1 ELSE 0
  <2>1. nodeCnt = Len(line) - 1 + k /\ k \in Int
    BY <1>1 DEF FifoInv, Counted
  <2>2. nodeCnt' = Len(line) - 0 + k
    BY <1>1, <1>2, <2>1
  <2> QED
    BY <1>1, <1>3, <2>2 DEF Counted, Admitted
<1> QED
  BY <1>5, <1>6, <1>7, <1>8, <1>9, <1>10 DEF FifoInv

\* The dequeuer makes the first node of the line the dummy: its exchange never fails.
LEMMA SwapHeadFifo ==
  ASSUME NEW e, NEW d, Pair(e, d), FifoInv(e, d), SwapHead(d)
  PROVE  /\ FifoInv(e, d)'
         /\ qs[d].at = "swap" /\ qs' = [qs EXCEPT ![d].at = "data"]
         /\ line # <<>> /\ qs[d].node = line[1] /\ line' = Tail(line) /\ UNCHANGED dataOf
<1> DEFINE n == qs[d].node
           old == head.node
<1>1. /\ qs[d].at = "swap" /\ qs[d].pre.node = old /\ qs[d].pre.tag = head.tag
      /\ line # <<>> /\ n = line[1]
      /\ qs[d] \in Locals(EnqueuePlaces \cup DequeuePlaces)
  BY DEF SwapHead, Moves, Reads, FifoInv, AtHead, Typed, Pair
<1>2. head = qs[d].pre
  <2>1. qs[d].pre \in [node : Cell, tag : Nat] /\ head \in [node : Cell, tag : Nat]
    BY <1>1 DEF FifoInv, Typed, Tagged, Locals, Cell
  <2> QED
    BY <1>1, <2>1, SameTagged
<1>3. /\ qs' = [qs EXCEPT ![d] = [qs[d] EXCEPT !.at = "data"]]
      /\ head' = [node |-> n, tag |-> qs[d].tag]
      /\ line' = SubSeq(line, 2, Len(line))
      /\ UNCHANGED <<enqueuers, tail, nextOf, dataOf, spare, tagNo, nodeCnt>>
  BY <1>2 DEF SwapHead, Moves, nodes
<1>4. /\ qs'[d].at = "data" /\ qs'[d].node = n /\ qs'[d].pre = head /\ qs'[e] = qs[e]
      /\ qs' \in [Clients -> Locals(EnqueuePlaces \cup DequeuePlaces)]
  <2>1. "data" \in EnqueuePlaces \cup DequeuePlaces
    BY DEF DequeuePlaces
  <2>2. PICK new : new = [qs[d] EXCEPT !.at = "data"]
    OBVIOUS
  <2>3. /\ new \in Locals(EnqueuePlaces \cup DequeuePlaces) /\ new.at = "data" /\ new.node = n
        /\ new.pre = head
    BY <1>1, <1>2, <2>1, <2>2 DEF Locals
  <2> QED
    BY <1>3, <2>2, <2>3 DEF Pair, FifoInv, Typed
<1>5. /\ Len(line) \in Nat \ {0} /\ line \in Seq(Cells) /\ line' \in Seq(Cells)
      /\ line' = Tail(line) /\ Len(line') = Len(line) - 1
      /\ \A i \in 1 .. Len(line) - 1 : line'[i] = line[i + 1]
  <2>1. line \in Seq(Cells) /\ Len(line) \in Nat \ {0}
    BY <1>1 DEF FifoInv, Typed
  <2>2. SubSeq(line, 2, Len(line)) = Tail(line)
    BY <1>1, <2>1
  <2>3. /\ Tail(line) \in Seq(Cells) /\ Len(Tail(line)) = Len(line) - 1
        /\ \A i \in 1 .. Len(line) - 1 : Tail(line)[i] = line[i + 1]
    BY <1>1, <2>1
  <2> QED
    BY <1>3, <2>1, <2>2, <2>3
<1>6. n \in Cells /\ n # old /\ \A i \in 2 .. Len(line) : line[i] # n
  BY <1>1, <1>5 DEF FifoInv, Follows
<1>7. LastCell' = LastCell
  BY <1>1, <1>3, <1>5 DEF LastCell
<1>8. Linked' = Linked \ {old}
  <2>1. \A x : x \in Linked' <=> x = n \/ \E i \in 1 .. Len(line) - 1 : x = line[i + 1]
    BY <1>3, <1>5 DEF Linked
  <2>2. \A x : x \in Linked <=> x = old \/ x = n \/ \E i \in 2 .. Len(line) : x = line[i]
    BY <1>1, <1>5 DEF Linked
  <2>3. \A i \in 2 .. Len(line) : i - 1 \in 1 .. Len(line) - 1 /\ line[(i - 1) + 1] = line[i]
    BY <1>5
  <2>4. \A i \in 1 .. Len(line) - 1 : i + 1 \in 2 .. Len(line)
    BY <1>5
  <2>5. n # old /\ \A i \in 2 .. Len(line) : line[i] # old
    BY <1>5, <1>6 DEF FifoInv, Follows
  <2>6. \A x : x \in Linked' <=> x = n \/ \E i \in 2 .. Len(line) : x = line[i]
    BY <2>1, <2>3, <2>4
  <2> QED
    BY <2>2, <2>5, <2>6
<1>9. Typed(e, d)'
  BY <1>1, <1>3, <1>4, <1>5, <1>6 DEF FifoInv, Typed, Tagged, DequeuePlaces, Locals
<1>10. Follows'
  <2>1. head'.node = n /\ nextOf' = nextOf
    BY <1>3
  <2>2. \A i \in 1 .. Len(line') : i + 1 \in 2 .. Len(line) /\ line'[i] = line[i + 1]
    BY <1>5
  <2>3. \A i \in 1 .. Len(line') : line'[i] # head'.node
    BY <1>6, <2>1, <2>2
  <2>4. \A i, j \in 1 .. Len(line') : line'[i] = line'[j] => i = j
    BY <1>5, <2>2 DEF FifoInv, Follows
  <2>5. line' # <<>> => nextOf'[head'.node] = line'[1]
    BY <1>1, <1>5, <2>1 DEF FifoInv, Follows
  <2>6. ASSUME NEW i \in 1 .. Len(line') - 1 PROVE nextOf'[line'[i]] = line'[i + 1]
    <3>1. /\ i + 1 \in 1 .. Len(line) - 1 /\ line'[i] = line[i + 1]
          /\ line'[i + 1] = line[(i + 1) + 1]
      BY <1>5
    <3> QED
      BY <2>1, <3>1 DEF FifoInv, Follows
  <2>7. nextOf'[LastCell'] = NoCell
    BY <1>7, <2>1 DEF FifoInv, Follows
  <2> QED
    BY <2>3, <2>4, <2>5, <2>6, <2>7 DEF Follows
<1>11. Parted(e, d)'
  <2>1. old \in Linked /\ old \in Cells
    BY LastInLine DEF Linked
  <2>2. spare \cap Linked = {} /\ UNCHANGED <<spare, nextOf, dataOf>>
    BY <1>3 DEF FifoInv, Parted
  <2>3. qs[e].at \in Bringing =>
          /\ qs[e].node \in Cells \ (spare \cup Linked)
          /\ nextOf[qs[e].node] = NoCell /\ dataOf[qs[e].node] = qs[e].item
    BY DEF FifoInv, Parted
  <2>4. old \in Cells \ (spare \cup Linked')
    BY <1>8, <2>1, <2>2
  <2> QED
    BY <1>4, <1>8, <2>1, <2>2, <2>3, <2>4 DEF Parted
<1>12. AtTail(e)'
  BY <1>3, <1>4, <1>7 DEF FifoInv, AtTail
<1>13. AtHead(d)'
  BY <1>3, <1>4 DEF AtHead
<1>14. Counted(e, d)'
  <2> DEFINE k == IF qs[e].at \in {"swing", "count"} THEN 1 ELSE 0
  <2>1. nodeCnt = Len(line) - k + 0 /\ k \in Int
    BY <1>1 DEF FifoInv, Counted
  <2>2. nodeCnt = Len(line') - k + 1
    <3>1. Len(line') = Len(line) - 1 /\ Len(line) \in Nat
      BY <1>5
    <3> HIDE DEF k
    <3> QED
      BY ONLY <2>1, <3>1
  <2> QED
    BY <1>3, <1>4, <2>2 DEF FifoInv, Counted, Admitted
<1> QED
  BY <1>1, <1>3, <1>5, <1>9, <1>10, <1>11, <1>12, <1>13, <1>14 DEF FifoInv

LEMMA FreeCellFifo ==
  ASSUME NEW e, NEW d, Pair(e, d), FifoInv(e, d), FreeCell(d)
  PROVE  FifoInv(e, d)'
<1> DEFINE old == qs[d].pre.node
<1>1. /\ qs[d].at = "free" /\ qs' = [qs EXCEPT ![d] = [qs[d] EXCEPT !.at = "uncount"]]
      /\ spare' \in {spare, spare \cup {old}}
      /\ UNCHANGED <<enqueuers, head, tail, line, nextOf, dataOf, tagNo, nodeCnt>>
      /\ qs[d] \in Locals(EnqueuePlaces \cup DequeuePlaces)
  BY DEF FreeCell, Moves, ends, FifoInv, Typed, Pair
<1>2. /\ qs'[d].at = "uncount" /\ qs'[e] = qs[e]
      /\ qs' \in [Clients -> Locals(EnqueuePlaces \cup DequeuePlaces)]
  <2>1. "uncount" \in EnqueuePlaces \cup DequeuePlaces
    BY DEF DequeuePlaces
  <2>2. PICK new : new = [qs[d] EXCEPT !.at = "uncount"]
    OBVIOUS
  <2>3. new \in Locals(EnqueuePlaces \cup DequeuePlaces) /\ new.at = "uncount"
    BY <1>1, <2>1, <2>2 DEF Locals
  <2> QED
    BY <1>1, <2>2, <2>3 DEF Pair, FifoInv, Typed
<1>3. Linked' = Linked /\ LastCell' = LastCell
  BY <1>1 DEF Linked, LastCell
<1>4. Typed(e, d)'
  <2>1. spare' \subseteq Cells
    BY <1>1 DEF FifoInv, Typed, Parted
  <2> QED
    BY <1>1, <1>2, <2>1 DEF FifoInv, Typed, DequeuePlaces
<1>5. Follows'
  BY <1>1, <1>3 DEF FifoInv, Follows
<1>6. Parted(e, d)'
  <2>1. /\ spare \cap Linked = {} /\ old \in Cells \ (spare \cup Linked)
        /\ qs[e].at \in Bringing => qs[e].node # old
    BY <1>1 DEF FifoInv, Parted
  <2>2. qs[e].at \in Bringing =>
          /\ qs[e].node \in Cells \ (spare \cup Linked)
          /\ nextOf[qs[e].node] = NoCell /\ dataOf[qs[e].node] = qs[e].item
    BY DEF FifoInv, Parted
  <2>3. spare' \subseteq spare \cup {old} /\ UNCHANGED <<nextOf, dataOf>>
    BY <1>1
  <2>4. spare' \cap Linked' = {}
    BY <1>3, <2>1, <2>3
  <2>5. qs[e].at \in Bringing => qs[e].node \in Cells \ (spare' \cup Linked')
    BY <1>3, <2>1, <2>2, <2>3
  <2> QED
    BY <1>2, <2>2, <2>3, <2>4, <2>5 DEF Parted
<1>7. AtTail(e)'
  BY <1>1, <1>2, <1>3 DEF FifoInv, AtTail
<1>8. AtHead(d)'
  BY <1>2 DEF AtHead
<1>9. Counted(e, d)'
  BY <1>1, <1>2 DEF FifoInv, Counted
<1> QED
  BY <1>4, <1>5, <1>6, <1>7, <1>8, <1>9 DEF FifoInv

LEMMA UncountCellFifo ==
  ASSUME NEW e, NEW d, Pair(e, d), FifoInv(e, d), UncountCell(d)
  PROVE  FifoInv(e, d)'
<1>1. qs[d].at = "uncount" /\ qs' = [qs EXCEPT ![d] = Idle] /\ nodeCnt' = nodeCnt - 1
      /\ UNCHANGED <<enqueuers, head, tail, line, nextOf, dataOf, spare, tagNo>>
  BY DEF UncountCell, Moves, ends, nodes
<1>2. /\ Idle.at = "out" /\ Idle \in Locals(EnqueuePlaces \cup DequeuePlaces)
      /\ nodeCnt \in Int /\ Len(line) \in Nat /\ "out" \in DequeuePlaces
  BY DEF Idle, Locals, EnqueuePlaces, DequeuePlaces, Cell, FifoInv, Typed
<1>3. /\ qs'[d].at = "out" /\ qs'[e] = qs[e]
      /\ qs' \in [Clients -> Locals(EnqueuePlaces \cup DequeuePlaces)]
  BY <1>1, <1>2 DEF Pair, FifoInv, Typed
<1>4. Linked' = Linked /\ LastCell' = LastCell
  BY <1>1 DEF Linked, LastCell
<1>5. Typed(e, d)'
  <2>1. nodeCnt' \in Int
    BY <1>1, <1>2
  <2>2. UNCHANGED <<head, tail, line, nextOf, dataOf, spare, tagNo>>
    BY <1>1
  <2> QED
    BY <1>2, <1>3, <2>1, <2>2 DEF FifoInv, Typed
<1>6. Follows'
  BY <1>1, <1>4 DEF FifoInv, Follows
<1>7. Parted(e, d)'
  BY <1>1, <1>3, <1>4 DEF FifoInv, Parted
<1>8. AtTail(e)'
  BY <1>1, <1>3, <1>4 DEF FifoInv, AtTail
<1>9. AtHead(d)'
  BY <1>3 DEF AtHead
<1>10. Counted(e, d)'
  <2> DEFINE k == IF qs[e].at \in {"swing", "count"} THEN 1 ELSE 0
  <2>1. nodeCnt = Len(line) - k + 1 /\ k \in Int
    BY <1>1 DEF FifoInv, Counted
  <2>2. nodeCnt' = Len(line) - k + 0
    <3> HIDE DEF k
    <3> QED
      BY <1>1, <1>2, <2>1
  <2>3. qs[e].at \in Admitted => nodeCnt' < MaxCnt
    <3>1. qs[e].at \in Admitted => nodeCnt < MaxCnt
      BY DEF FifoInv, Counted
    <3>2. nodeCnt < MaxCnt => nodeCnt' < MaxCnt
      BY <1>1, <1>2, MaxCntAssumption
    <3> QED
      BY <3>1, <3>2
  <2> QED
    BY <1>1, <1>3, <2>2, <2>3 DEF Counted, Admitted
<1> QED
  BY <1>5, <1>6, <1>7, <1>8, <1>9, <1>10 DEF FifoInv

\* The enqueuer takes steps of Enqueue only, the dequeuer of Dequeue only, and Help is not
\* among them.
LEMMA PairSteps ==
  ASSUME NEW e, NEW d, Pair(e, d), FifoInv(e, d), QueueNext
  PROVE  \/ TestFull(e) \/ Refuse(e) \/ EnqueueTag(e) \/ TailNode(e) \/ TailTag(e) \/ TailNext(e)
         \/ LiveTail(e)
         \/ AllocCell(e) \/ LinkCell(e) \/ Swing(e) \/ CountCell(e)
         \/ DequeueTag(d) \/ HeadNode(d) \/ HeadTag(d) \/ HeadNext(d) \/ ReturnFalse(d) \/ ReadData(d)
         \/ SwapHead(d) \/ FreeCell(d) \/ UncountCell(d)
<1>1. qs[e].at \in EnqueuePlaces /\ qs[d].at \in DequeuePlaces /\ qs[e].at # "help"
  BY DEF FifoInv, Typed, AtTail
<1>2. ASSUME NEW c \in Clients, TestFull(c) PROVE TestFull(e)
  BY <1>2 DEF TestFull, Pair
<1>3. ASSUME NEW c \in Clients, DequeueTag(c) PROVE DequeueTag(d)
  BY <1>3 DEF DequeueTag, Pair
<1>4. ASSUME Continue(d)
      PROVE  \/ HeadNode(d) \/ HeadTag(d) \/ HeadNext(d) \/ ReturnFalse(d) \/ ReadData(d)
             \/ SwapHead(d) \/ FreeCell(d) \/ UncountCell(d)
  BY <1>1, <1>4 DEF DequeuePlaces, Continue, Refuse, AllocCell, EnqueueTag, TakeTag, TailNode,
     TailTag, TailNext, Help, LiveTail, LinkCell, Swing, CountCell, Reads, Moves
<1>5. ASSUME Continue(e)
      PROVE  \/ Refuse(e) \/ EnqueueTag(e) \/ TailNode(e) \/ TailTag(e) \/ TailNext(e) \/ LiveTail(e)
             \/ AllocCell(e) \/ LinkCell(e) \/ Swing(e) \/ CountCell(e)
  BY <1>1, <1>5 DEF EnqueuePlaces, Admitted, Continue, HeadNode, HeadTag, HeadNext, ReturnFalse,
     SwapHead, ReadData, FreeCell, UncountCell, Help, Reads, Moves
<1> QED
  BY <1>2, <1>3, <1>4, <1>5 DEF QueueNext, Pair

LEMMA PairStep ==
  ASSUME NEW e, NEW d, Pair(e, d), FifoInv(e, d), [QueueNext]_queueVars
  PROVE  FifoInv(e, d)'
<1>1. CASE UNCHANGED queueVars
  <2>1. UNCHANGED <<enqueuers, head, tail, tagNo, nodeCnt, nextOf, dataOf, spare, line, qs>>
    BY <1>1 DEF queueVars
  <2>2. Linked' = Linked /\ LastCell' = LastCell
    BY <2>1 DEF Linked, LastCell
  <2> QED
    BY <2>1, <2>2 DEF FifoInv, Typed, Follows, Parted, AtTail, AtHead, Counted
<1>2. CASE QueueNext
  <2>1. CASE \/ TestFull(e) \/ Refuse(e) \/ EnqueueTag(e) \/ TailNode(e) \/ TailTag(e)
             \/ TailNext(e) \/ LiveTail(e)
    BY <2>1, EnqueuerReadSteps
  <2>2. CASE AllocCell(e) \/ LinkCell(e) \/ Swing(e) \/ CountCell(e)
    BY <2>2, AllocCellFifo, LinkCellFifo, SwingFifo, CountCellFifo
  <2>3. CASE \/ DequeueTag(d) \/ HeadNode(d) \/ HeadTag(d) \/ HeadNext(d) \/ ReturnFalse(d)
             \/ ReadData(d)
    BY <2>3, DequeuerReadSteps
  <2>4. CASE SwapHead(d) \/ FreeCell(d) \/ UncountCell(d)
    BY <2>4, SwapHeadFifo, FreeCellFifo, UncountCellFifo
  <2> QED
    BY <1>2, <2>1, <2>2, <2>3, <2>4, PairSteps
<1> QED
  BY <1>1, <1>2

LEMMA InitFifo ==
  ASSUME NEW e, NEW d, Pair(e, d), QueueInit
  PROVE  FifoInv(e, d)
<1>1. /\ qs = [c \in Clients |-> Idle] /\ tail = head /\ tagNo = 0 /\ nodeCnt = 0 /\ line = <<>>
      /\ nextOf = [n \in Cells |-> NoCell] /\ dataOf = [n \in Cells |-> NoItem]
      /\ head.node \in Cells /\ spare = Cells \ {head.node} /\ head \in Tagged
  BY DEF QueueInit, Tagged
<1>2. Idle \in Locals(EnqueuePlaces \cup DequeuePlaces) /\ Idle.at = "out"
  BY DEF Idle, Locals, EnqueuePlaces, Cell
<1>3. qs[e].at = "out" /\ qs[d].at = "out"
  BY <1>1, <1>2 DEF Pair
<1>4. Linked = {head.node} /\ LastCell = head.node /\ Len(line) = 0
  BY <1>1 DEF Linked, LastCell
<1>5. Typed(e, d)
  BY <1>1, <1>2, <1>3 DEF Typed, EnqueuePlaces, DequeuePlaces, Cell
<1>6. Follows
  BY <1>1, <1>4 DEF Follows
<1>7. Parted(e, d) /\ AtTail(e) /\ AtHead(d)
  BY <1>1, <1>3, <1>4 DEF Parted, Bringing, AtTail, AtHead
<1>8. Counted(e, d)
  BY <1>1, <1>3, <1>4, MaxCntAssumption DEF Counted, Admitted
<1> QED
  BY <1>5, <1>6, <1>7, <1>8 DEF FifoInv

\* With one enqueuer and one dequeuer, and only then, the invariant is about them.
LEMMA PairOfEach ==
  ASSUME enqueuers \subseteq Clients, OneOfEach
  PROVE  \E e, d \in Clients : Pair(e, d)
<1>1. IsFiniteSet(enqueuers) /\ IsFiniteSet(Clients \ enqueuers)
  BY ClientsFinite, FS_Subset
<1>2. (\E e : enqueuers = {e}) /\ (\E d : Clients \ enqueuers = {d})
  BY <1>1, FS_Singleton DEF OneOfEach
<1>3. PICK e : enqueuers = {e}
  BY <1>2
<1>4. PICK d : Clients \ enqueuers = {d}
  BY <1>2
<1> QED
  BY <1>3, <1>4 DEF Pair

EachInv == enqueuers \subseteq Clients /\ PairInv

LEMMA InitEachInv == QueueInit => EachInv
<1> SUFFICES ASSUME QueueInit PROVE EachInv
  OBVIOUS
<1>1. enqueuers \subseteq Clients
  BY DEF QueueInit
<1> QED
  BY <1>1, InitFifo DEF EachInv, PairInv

LEMMA SameClients == [QueueNext]_queueVars => UNCHANGED enqueuers
<1> SUFFICES ASSUME [QueueNext]_queueVars PROVE UNCHANGED enqueuers
  OBVIOUS
<1>1. ASSUME NEW c \in Clients, TestFull(c) \/ DequeueTag(c) \/ Continue(c) PROVE UNCHANGED enqueuers
  BY <1>1 DEF Continue, TestFull, Refuse, AllocCell, EnqueueTag, TailNode, TailTag, TailNext, Help,
     LiveTail, LinkCell, Swing, CountCell, DequeueTag, HeadNode, HeadTag, HeadNext, ReturnFalse,
     SwapHead, ReadData, FreeCell, UncountCell, Reads, TakeTag
<1> QED
  BY <1>1 DEF QueueNext, queueVars

LEMMA StepEachInv == EachInv /\ [QueueNext]_queueVars => EachInv'
<1> SUFFICES ASSUME EachInv, [QueueNext]_queueVars PROVE EachInv'
  OBVIOUS
<1>1. UNCHANGED enqueuers
  BY SameClients
<1>2. ASSUME NEW e \in Clients, NEW d \in Clients, Pair(e, d)' PROVE FifoInv(e, d)'
  <2>1. Pair(e, d)
    BY <1>1, <1>2 DEF Pair
  <2>2. FifoInv(e, d)
    BY <2>1 DEF EachInv, PairInv
  <2> QED
    BY <2>1, <2>2, PairStep
<1> QED
  BY <1>1, <1>2 DEF EachInv, PairInv

LEMMA AmongOne ==
  ASSUME NEW c \in Clients, NEW places, \A u \in Clients : qs[u].at \in places => u = c
  PROVE  Cardinality(Among(places)) = (IF qs[c].at \in places THEN 1 ELSE 0)
<1>1. CASE qs[c].at \in places
  <2>1. Among(places) = {c}
    BY <1>1 DEF Among
  <2> QED
    BY <1>1, <2>1, FS_Singleton
<1>2. CASE qs[c].at \notin places
  <2>1. Among(places) = {}
    BY <1>2 DEF Among
  <2> QED
    BY <1>2, <2>1, FS_EmptySet
<1> QED
  BY <1>1, <1>2

\* Between one enqueuer and one dequeuer, what GetUseSize returns is the length of the
\* queue but for the calls that are about to count, whatever the order of their accesses.
THEOREM QueueCountLags == QueueSpec => []CountLags
<1>1. EachInv => CountLags
  <2> SUFFICES ASSUME EachInv, OneOfEach
               PROVE  nodeCnt = Len(line) - Cardinality(Among({"swing", "count"}))
                                          + Cardinality(Among({"data", "free", "uncount"}))
    BY DEF CountLags
  <2>1. PICK e \in Clients, d \in Clients : Pair(e, d)
    BY PairOfEach DEF EachInv
  <2>2. FifoInv(e, d)
    BY <2>1 DEF EachInv, PairInv
  <2>3. Cardinality(Among({"swing", "count"})) = (IF qs[e].at \in {"swing", "count"} THEN 1 ELSE 0)
    <3>1. \A c \in Clients : qs[c].at \in {"swing", "count"} => c = e
      BY <2>1, <2>2 DEF Pair, FifoInv, Typed, DequeuePlaces
    <3> QED
      BY <3>1, AmongOne
  <2>4. Cardinality(Among({"data", "free", "uncount"}))
          = (IF qs[d].at \in {"data", "free", "uncount"} THEN 1 ELSE 0)
    <3>1. \A c \in Clients : qs[c].at \in {"data", "free", "uncount"} => c = d
      BY <2>1, <2>2 DEF Pair, FifoInv, Typed, EnqueuePlaces, Admitted
    <3> QED
      BY <3>1, AmongOne
  <2> QED
    BY <2>2, <2>3, <2>4 DEF FifoInv, Counted
<1> QED
  BY <1>1, InitEachInv, StepEachInv, PTL DEF QueueSpec

-----------------------------------------------------------------------------
(* The refinement: with one enqueuer and one dequeuer each step is a step of one call of  *)
(* the bounded queue, or none.                                                             *)

\* What stands for the abstract variables.
Contents == [i \in DOMAIN line |-> dataOf[line[i]]]
Calls == [c \in Clients |-> CallIn(c)]

Call(op, v) == [op |-> op, val |-> v]

\* The call of a client by where it is.
LEMMA CallAt ==
  ASSUME NEW c \in Clients
  PROVE  /\ qs[c].at \in {"out", "alloc"} => CallIn(c) = Call("none", NoItem)
         /\ qs[c].at = "refused" => CallIn(c) = Call("refused", NoItem)
         /\ qs[c].at \in Bringing => CallIn(c) = Call("enqueue", qs[c].item)
         /\ qs[c].at \in {"swing", "count", "nothing"} => CallIn(c) = Call("done", NoItem)
         /\ qs[c].at \in {"headNode", "headTag", "headNext", "swap"} =>
              CallIn(c) = Call("dequeue", NoItem)
         /\ qs[c].at = "data" => CallIn(c) = Call("taken", dataOf[qs[c].node])
         /\ qs[c].at \in {"free", "uncount"} => CallIn(c) = Call("taken", qs[c].item)
BY DEF CallIn, Call, Bringing

LEMMA CallAtNext ==
  ASSUME NEW c \in Clients
  PROVE  /\ qs'[c].at \in {"out", "alloc"} => CallIn(c)' = Call("none", NoItem)
         /\ qs'[c].at = "refused" => CallIn(c)' = Call("refused", NoItem)
         /\ qs'[c].at \in Bringing => CallIn(c)' = Call("enqueue", qs'[c].item)
         /\ qs'[c].at \in {"swing", "count", "nothing"} => CallIn(c)' = Call("done", NoItem)
         /\ qs'[c].at \in {"headNode", "headTag", "headNext", "swap"} =>
              CallIn(c)' = Call("dequeue", NoItem)
         /\ qs'[c].at = "data" => CallIn(c)' = Call("taken", dataOf'[qs'[c].node])
         /\ qs'[c].at \in {"free", "uncount"} => CallIn(c)' = Call("taken", qs'[c].item)
BY DEF CallIn, Call, Bringing

LEMMA InitRefines == QueueInit => Fifo!Init
<1> SUFFICES ASSUME QueueInit PROVE Fifo!Init
  OBVIOUS
<1>1. line = <<>> /\ \A c \in Clients : qs[c].at = "out"
  BY DEF QueueInit, Idle
<1>2. \A c \in Clients : CallIn(c) = Call("none", NoItem)
  BY <1>1, CallAt
<1> QED
  BY <1>1, <1>2 DEF Fifo!Init, Fifo!NoCall, Call

LEMMA CallsMove ==
  ASSUME NEW c \in Clients, \A u \in Clients \ {c} : CallIn(u)' = CallIn(u)
  PROVE  /\ Calls' = [Calls EXCEPT ![c] = CallIn(c)'] /\ Calls[c] = CallIn(c)
         /\ CallIn(c)' = CallIn(c) => Calls' = Calls
BY DEF Calls

\* A step of c that leaves the contents alone begins or ends a call, finds the queue empty,
\* or is none of the abstract queue.
LEMMA CallSteps ==
  ASSUME NEW c \in Clients, Contents' = Contents, \A u \in Clients \ {c} : CallIn(u)' = CallIn(u),
         \/ CallIn(c)' = CallIn(c)
         \/ \E v \in Items : CallIn(c) = Call("none", NoItem) /\ CallIn(c)' = Call("enqueue", v)
         \/ CallIn(c) = Call("none", NoItem) /\ CallIn(c)' = Call("dequeue", NoItem)
         \/ /\ CallIn(c) = Call("dequeue", NoItem) /\ CallIn(c)' = Call("done", NoItem)
            /\ Contents = <<>>
         \/ CallIn(c).op \in {"done", "taken", "refused"} /\ CallIn(c)' = Call("none", NoItem)
  PROVE  [Fifo!Next]_(Fifo!vars)
<1>1. Calls' = [Calls EXCEPT ![c] = CallIn(c)'] /\ Calls[c] = CallIn(c)
  BY CallsMove
<1>2. CASE CallIn(c)' = CallIn(c)
  BY <1>2, CallsMove DEF Fifo!vars, Contents, Calls
<1>3. CASE \E v \in Items : CallIn(c) = Call("none", NoItem) /\ CallIn(c)' = Call("enqueue", v)
  <2>1. PICK v \in Items : CallIn(c) = Call("none", NoItem) /\ CallIn(c)' = Call("enqueue", v)
    BY <1>3
  <2>2. Calls[c].op = "none" /\ Calls' = [Calls EXCEPT ![c] = Call("enqueue", v)]
    BY <1>1, <2>1 DEF Call
  <2>3. Fifo!BeginEnqueue(c)
    BY <2>2 DEF Fifo!BeginEnqueue, Fifo!Becomes, Call, Contents, Calls
  <2> QED
    BY <2>3 DEF Fifo!Next
<1>4. CASE CallIn(c) = Call("none", NoItem) /\ CallIn(c)' = Call("dequeue", NoItem)
  <2>1. Fifo!BeginDequeue(c)
    BY <1>1, <1>4 DEF Fifo!BeginDequeue, Fifo!Becomes, Call, Contents, Calls
  <2> QED
    BY <2>1 DEF Fifo!Next
<1>5. CASE /\ CallIn(c) = Call("dequeue", NoItem) /\ CallIn(c)' = Call("done", NoItem)
           /\ Contents = <<>>
  <2>1. Fifo!Nothing(c)
    BY <1>1, <1>5 DEF Fifo!Nothing, Fifo!Becomes, Call, Contents, Calls
  <2> QED
    BY <2>1 DEF Fifo!Next
<1>6. CASE CallIn(c).op \in {"done", "taken", "refused"} /\ CallIn(c)' = Call("none", NoItem)
  <2>1. Fifo!End(c)
    BY <1>1, <1>6 DEF Fifo!End, Fifo!NoCall, Call, Contents, Calls
  <2> QED
    BY <2>1 DEF Fifo!Next
<1> QED
  BY <1>2, <1>3, <1>4, <1>5, <1>6

\* The nodes in the line and the dummy keep what they hold, and so does the queue.
LEMMA ContentsStay ==
  ASSUME NEW e, NEW d, Pair(e, d), FifoInv(e, d), line' = line,
         dataOf' = dataOf \/ \A n \in Linked : dataOf'[n] = dataOf[n]
  PROVE  /\ Contents' = Contents
         /\ qs'[d] = qs[d] => CallIn(d)' = CallIn(d)
         /\ qs'[e] = qs[e] => CallIn(e)' = CallIn(e)
<1>1. \A n \in Linked : dataOf'[n] = dataOf[n]
  OBVIOUS
<1>2. line \in Seq(Cells) /\ DOMAIN line = 1 .. Len(line)
  BY DEF FifoInv, Typed
<1>3. \A i \in DOMAIN line : dataOf'[line[i]] = dataOf[line[i]]
  BY <1>1, <1>2 DEF Linked
<1>4. Contents' = Contents
  BY <1>3 DEF Contents
<1>5. ASSUME qs'[d] = qs[d] PROVE CallIn(d)' = CallIn(d)
  <2>1. qs[d].at = "data" => dataOf'[qs[d].node] = dataOf[qs[d].node]
    BY <1>1 DEF FifoInv, AtHead, Linked
  <2> QED
    BY <1>5, <2>1 DEF CallIn
<1>6. ASSUME qs'[e] = qs[e] PROVE CallIn(e)' = CallIn(e)
  <2>1. qs[e].at # "data"
    BY DEF FifoInv, Typed, EnqueuePlaces, Admitted
  <2> QED
    BY <1>6, <2>1 DEF CallIn
<1> QED
  BY <1>4, <1>5, <1>6

LEMMA ContentsType ==
  ASSUME NEW e, NEW d, FifoInv(e, d)
  PROVE  /\ line \in Seq(Cells) /\ Contents \in Seq(Items \cup {NoItem})
         /\ Len(Contents) = Len(line) /\ Len(line) \in Nat
         /\ \A i \in 1 .. Len(line) : Contents[i] = dataOf[line[i]]
         /\ Contents = <<>> <=> line = <<>>
<1>1. /\ line \in Seq(Cells) /\ Len(line) \in Nat /\ DOMAIN line = 1 .. Len(line)
      /\ \A i \in 1 .. Len(line) : line[i] \in Cells
      /\ dataOf \in [Cells -> Items \cup {NoItem}]
  BY DEF FifoInv, Typed
<1>2. Contents \in [1 .. Len(line) -> Items \cup {NoItem}]
  BY <1>1 DEF Contents
<1>3. Contents \in Seq(Items \cup {NoItem}) /\ Len(Contents) = Len(line)
  BY <1>1, <1>2
<1>4. \A i \in 1 .. Len(line) : Contents[i] = dataOf[line[i]]
  BY <1>1 DEF Contents
<1>5. Contents = <<>> <=> line = <<>>
  BY <1>1, <1>3
<1> QED
  BY <1>1, <1>3, <1>4, <1>5

LEMMA ContentsPut ==
  ASSUME NEW e, NEW d, FifoInv(e, d), FifoInv(e, d)', NEW n \in Cells, line' = Append(line, n),
         dataOf' = dataOf
  PROVE  Contents' = Append(Contents, dataOf[n])
<1> DEFINE g == Contents
           h == Contents'
           r == Append(g, dataOf[n])
<1>1. /\ line \in Seq(Cells) /\ g \in Seq(Items \cup {NoItem}) /\ Len(g) = Len(line)
      /\ Len(line) \in Nat /\ \A i \in 1 .. Len(line) : g[i] = dataOf[line[i]]
  BY ContentsType
<1>2. /\ h \in Seq(Items \cup {NoItem}) /\ Len(h) = Len(line')
      /\ \A i \in 1 .. Len(line') : h[i] = dataOf'[line'[i]]
  <2>1. /\ line' \in Seq(Cells) /\ Len(line') \in Nat /\ DOMAIN line' = 1 .. Len(line')
        /\ \A i \in 1 .. Len(line') : line'[i] \in Cells
        /\ dataOf' \in [Cells -> Items \cup {NoItem}]
    BY DEF FifoInv, Typed
  <2>2. h \in [1 .. Len(line') -> Items \cup {NoItem}]
    BY <2>1 DEF Contents
  <2> QED
    BY <2>1, <2>2 DEF Contents
<1>3. /\ Len(line') = Len(line) + 1 /\ line'[Len(line) + 1] = n
      /\ \A i \in 1 .. Len(line) : line'[i] = line[i]
  BY <1>1
<1>4. dataOf[n] \in Items \cup {NoItem}
  BY DEF FifoInv, Typed
<1>5. /\ r \in Seq(Items \cup {NoItem}) /\ Len(r) = Len(line) + 1 /\ r[Len(line) + 1] = dataOf[n]
      /\ \A i \in 1 .. Len(line) : r[i] = g[i]
  BY <1>1, <1>4
<1> HIDE DEF g, h, r
<1>6. ASSUME NEW i \in 1 .. Len(h) PROVE h[i] = r[i]
  <2>1. i \in 1 .. Len(line) \/ i = Len(line) + 1
    BY <1>1, <1>2, <1>3
  <2> QED
    BY <1>1, <1>2, <1>3, <1>5, <2>1
<1>7. h = r
  BY <1>2, <1>3, <1>5, <1>6, SeqEqual
<1> QED
  BY <1>7 DEF g, h, r

LEMMA ContentsGet ==
  ASSUME NEW e, NEW d, FifoInv(e, d), FifoInv(e, d)', line # <<>>, line' = Tail(line),
         dataOf' = dataOf
  PROVE  Contents # <<>> /\ Contents' = Tail(Contents) /\ Head(Contents) = dataOf[line[1]]
<1> DEFINE g == Contents
           h == Contents'
<1>1. /\ line \in Seq(Cells) /\ g \in Seq(Items \cup {NoItem}) /\ Len(g) = Len(line)
      /\ Len(line) \in Nat /\ \A i \in 1 .. Len(line) : g[i] = dataOf[line[i]]
      /\ g # <<>>
  BY ContentsType
<1>2. /\ h \in Seq(Items \cup {NoItem}) /\ Len(h) = Len(line')
      /\ \A i \in 1 .. Len(line') : h[i] = dataOf'[line'[i]]
  <2>1. /\ line' \in Seq(Cells) /\ Len(line') \in Nat /\ DOMAIN line' = 1 .. Len(line')
        /\ \A i \in 1 .. Len(line') : line'[i] \in Cells
        /\ dataOf' \in [Cells -> Items \cup {NoItem}]
    BY DEF FifoInv, Typed
  <2>2. h \in [1 .. Len(line') -> Items \cup {NoItem}]
    BY <2>1 DEF Contents
  <2> QED
    BY <2>1, <2>2 DEF Contents
<1>3. /\ Len(line') = Len(line) - 1 /\ Len(line) >= 1
      /\ \A i \in 1 .. Len(line') : line'[i] = line[i + 1]
  BY <1>1
<1>4. /\ Tail(g) \in Seq(Items \cup {NoItem}) /\ Len(Tail(g)) = Len(g) - 1
      /\ \A i \in 1 .. Len(Tail(g)) : Tail(g)[i] = g[i + 1]
  BY <1>1
<1> HIDE DEF g, h
<1>5. ASSUME NEW i \in 1 .. Len(h) PROVE h[i] = Tail(g)[i]
  <2>1. i \in 1 .. Len(line') /\ i \in 1 .. Len(Tail(g)) /\ i + 1 \in 1 .. Len(line)
    BY <1>1, <1>2, <1>3, <1>4
  <2> QED
    BY <1>1, <1>2, <1>3, <1>4, <2>1
<1>6. h = Tail(g)
  BY <1>1, <1>2, <1>3, <1>4, <1>5, SeqEqual
<1>7. Head(g) = dataOf[line[1]]
  BY <1>1, <1>3
<1> QED
  BY <1>1, <1>6, <1>7 DEF g, h

\* Enqueue calls the queue full when it is, counting what is being taken out.
LEMMA FullRefines ==
  ASSUME NEW e \in Clients, NEW d \in Clients, Pair(e, d), FifoInv(e, d), TestFull(e),
         nodeCnt >= MaxCnt
  PROVE  [Fifo!Next]_(Fifo!vars)
<1>1. /\ qs[e].at = "out" /\ qs' = [qs EXCEPT ![e] = [Idle EXCEPT !.at = "refused"]]
      /\ UNCHANGED <<line, dataOf>>
  BY DEF TestFull, Reads, Moves, ends, nodes
<1>2. qs'[e].at = "refused" /\ qs'[d] = qs[d]
  BY <1>1 DEF FifoInv, Typed, Pair, Idle
<1>3. CallIn(e) = Call("none", NoItem) /\ CallIn(e)' = Call("refused", NoItem)
  BY <1>1, <1>2, CallAt, CallAtNext
<1>4. Contents' = Contents /\ CallIn(d)' = CallIn(d)
  BY <1>1, <1>2, ContentsStay
<1>5. Calls' = [Calls EXCEPT ![e] = CallIn(e)'] /\ Calls[e] = CallIn(e)
  BY <1>4, CallsMove DEF Pair
<1>6. Fifo!Leaving = {c \in Clients : CallIn(c).op = "taken"}
  BY DEF Fifo!Leaving
<1>7. Len(Contents) + Cardinality(Fifo!Leaving) >= MaxCnt
  <2> DEFINE k == IF qs[d].at \in {"data", "free", "uncount"} THEN 1 ELSE 0
  <2>1. nodeCnt = Len(line) - 0 + k /\ k \in Int /\ nodeCnt \in Int
    BY <1>1 DEF FifoInv, Counted, Typed
  <2>2. Cardinality(Fifo!Leaving) = k
    <3>1. CallIn(d).op = "taken" <=> qs[d].at \in {"data", "free", "uncount"}
      BY CallAt DEF Call, FifoInv, Typed, DequeuePlaces
    <3>2. CallIn(e).op # "taken"
      BY <1>3 DEF Call
    <3>3. Fifo!Leaving = IF qs[d].at \in {"data", "free", "uncount"} THEN {d} ELSE {}
      BY <1>6, <3>1, <3>2 DEF Pair
    <3> QED
      BY <3>3, FS_Singleton, FS_EmptySet
  <2>3. Len(Contents) = Len(line) /\ Len(line) \in Nat
    BY ContentsType
  <2> HIDE DEF k
  <2> QED
    BY <2>1, <2>2, <2>3, MaxCntAssumption
<1>8. \A S : Fifo!Cardinality(S) = Cardinality(S)
  BY DEF Fifo!Cardinality, Cardinality
<1>9. Fifo!Full(e)
  BY <1>8, <1>3, <1>4, <1>5, <1>7 DEF Fifo!Full, Fifo!Becomes, Call, Contents, Calls
<1> QED
  BY <1>9 DEF Fifo!Next

LEMMA EnqueuerRefines ==
  ASSUME NEW e \in Clients, NEW d \in Clients, Pair(e, d), FifoInv(e, d),
         \/ TestFull(e) /\ ~nodeCnt >= MaxCnt
         \/ Refuse(e) \/ EnqueueTag(e) \/ TailNode(e) \/ TailTag(e) \/ TailNext(e) \/ LiveTail(e)
         \/ AllocCell(e) \/ Swing(e) \/ CountCell(e)
  PROVE  [Fifo!Next]_(Fifo!vars)
<1>1. qs[e] \in Locals(EnqueuePlaces \cup DequeuePlaces) /\ qs \in [Clients -> Locals(EnqueuePlaces \cup DequeuePlaces)]
  BY DEF FifoInv, Typed
<1>2. PICK new : qs' = [qs EXCEPT ![e] = new]
  BY DEF TestFull, Refuse, EnqueueTag, TakeTag, TailNode, TailTag, TailNext, LiveTail, AllocCell,
     Swing, CountCell, Reads, Moves
<1>3. qs'[e] = new /\ qs'[d] = qs[d]
  BY <1>1, <1>2 DEF Pair
<1>4. line' = line /\ (dataOf' = dataOf \/ \A n \in Linked : dataOf'[n] = dataOf[n])
  <2>1. CASE AllocCell(e)
    <3>1. PICK n \in spare, v \in Items : dataOf' = [dataOf EXCEPT ![n] = v]
      BY <2>1 DEF AllocCell
    <3>2. n \notin Linked /\ Linked \subseteq Cells
      BY LastInLine DEF FifoInv, Parted
    <3> QED
      BY <2>1, <3>1, <3>2 DEF AllocCell, ends, FifoInv, Typed
  <2>2. CASE ~AllocCell(e)
    BY <2>2 DEF TestFull, Refuse, EnqueueTag, TakeTag, TailNode, TailTag, TailNext, LiveTail,
       Swing, CountCell, Reads, ends, nodes
  <2> QED
    BY <2>1, <2>2
<1>5. Contents' = Contents /\ \A u \in Clients \ {e} : CallIn(u)' = CallIn(u)
  BY <1>3, <1>4, ContentsStay DEF Pair
<1>6. \/ CallIn(e)' = CallIn(e)
      \/ \E v \in Items : CallIn(e) = Call("none", NoItem) /\ CallIn(e)' = Call("enqueue", v)
      \/ CallIn(e).op \in {"done", "refused"} /\ CallIn(e)' = Call("none", NoItem)
  <2>1. CASE TestFull(e) /\ ~nodeCnt >= MaxCnt
    <3>1. qs[e].at = "out" /\ qs'[e].at = "alloc"
      BY <1>1, <2>1 DEF TestFull, Reads, Moves, Idle
    <3> QED
      BY <3>1, CallAt, CallAtNext
  <2>2. CASE Refuse(e)
    <3>1. qs[e].at = "refused" /\ qs'[e].at = "out"
      BY <1>1, <2>2 DEF Refuse, Reads, Moves, Idle
    <3> QED
      BY <3>1, CallAt, CallAtNext DEF Call
  <2>3. CASE EnqueueTag(e) \/ TailNode(e) \/ TailTag(e) \/ TailNext(e) \/ LiveTail(e)
    <3>1. qs[e].at \in Bringing /\ qs'[e].at \in Bringing /\ qs'[e].item = qs[e].item
      <4>1. CASE EnqueueTag(e)
        BY <1>1, <4>1 DEF EnqueueTag, TakeTag, Moves, Bringing, Locals
      <4>2. CASE TailNode(e)
        BY <1>1, <4>2 DEF TailNode, Reads, Moves, Bringing, Locals
      <4>3. CASE TailTag(e)
        BY <1>1, <4>3 DEF TailTag, Reads, Moves, Bringing, Locals
      <4>4. CASE TailNext(e)
        <5>1. qs[e].at = "tailNext" /\ nextOf[qs[e].pre.node] = NoCell
          BY <4>4 DEF TailNext, Reads, Moves, FifoInv, AtTail, Follows
        <5> QED
          BY <1>1, <4>4, <5>1 DEF TailNext, Reads, Moves, Bringing, Locals
      <4>5. CASE LiveTail(e)
        BY <1>1, <4>5 DEF LiveTail, Reads, Moves, Bringing, Locals
      <4> QED
        BY <2>3, <4>1, <4>2, <4>3, <4>4, <4>5
    <3> QED
      BY <3>1, CallAt, CallAtNext
  <2>4. CASE AllocCell(e)
    <3>1. PICK n \in spare, v \in Items :
            Moves(e, "alloc", [qs[e] EXCEPT !.at = "tag", !.node = n, !.item = v])
      BY <2>4 DEF AllocCell
    <3>2. PICK r : r = [qs[e] EXCEPT !.at = "tag", !.node = n, !.item = v]
      OBVIOUS
    <3>3. r.at = "tag" /\ r.item = v
      BY <1>1, <3>2 DEF Locals
    <3>4. qs[e].at = "alloc" /\ qs'[e] = r
      BY <1>1, <3>1, <3>2 DEF Moves
    <3> QED
      BY <3>3, <3>4, CallAt, CallAtNext DEF Bringing
  <2>5. CASE Swing(e)
    <3>1. qs[e].at = "swing" /\ qs'[e].at = "count"
      BY <1>1, <2>5 DEF Swing, Moves, Locals
    <3> QED
      BY <3>1, CallAt, CallAtNext
  <2>6. CASE CountCell(e)
    <3>1. qs[e].at = "count" /\ qs'[e].at = "out"
      BY <1>1, <2>6 DEF CountCell, Moves, Idle
    <3> QED
      BY <3>1, CallAt, CallAtNext DEF Call
  <2> QED
    BY <2>1, <2>2, <2>3, <2>4, <2>5, <2>6
<1> QED
  BY <1>5, <1>6, CallSteps

\* The link is the Enqueue, and there is room for it.
LEMMA LinkRefines ==
  ASSUME NEW e \in Clients, NEW d \in Clients, Pair(e, d), FifoInv(e, d), LinkCell(e)
  PROVE  [Fifo!Next]_(Fifo!vars)
<1>1. /\ FifoInv(e, d)' /\ qs[e].at = "link" /\ qs' = [qs EXCEPT ![e].at = "swing"]
      /\ line' = Append(line, qs[e].node) /\ dataOf' = dataOf
  BY LinkCellFifo
<1>2. qs'[e].at = "swing" /\ qs'[d] = qs[d]
  BY <1>1 DEF FifoInv, Typed, Pair, Locals
<1>3. CallIn(e) = Call("enqueue", qs[e].item) /\ CallIn(e)' = Call("done", NoItem)
  BY <1>1, <1>2, CallAt, CallAtNext DEF Bringing
<1>4. CallIn(d)' = CallIn(d)
  BY <1>1, <1>2 DEF CallIn
<1>5. Calls' = [Calls EXCEPT ![e] = CallIn(e)'] /\ Calls[e] = CallIn(e)
  BY <1>4, CallsMove DEF Pair
<1>6. qs[e].node \in Cells /\ dataOf[qs[e].node] = qs[e].item
  BY <1>1 DEF FifoInv, Parted, Bringing
<1>7. Contents' = Append(Contents, qs[e].item)
  BY <1>1, <1>6, ContentsPut
<1>8. Len(Contents) < MaxCnt
  <2> DEFINE k == IF qs[d].at \in {"data", "free", "uncount"} THEN 1 ELSE 0
  <2>1. nodeCnt = Len(line) - 0 + k /\ nodeCnt < MaxCnt /\ nodeCnt \in Int /\ k \in {0, 1}
    BY <1>1 DEF FifoInv, Counted, Typed, Admitted
  <2>2. Len(Contents) = Len(line) /\ Len(line) \in Nat
    BY ContentsType
  <2> HIDE DEF k
  <2> QED
    BY <2>1, <2>2, MaxCntAssumption
<1>9. /\ Calls[e].op = "enqueue" /\ Calls[e].val = qs[e].item
      /\ Calls' = [Calls EXCEPT ![e] = [op |-> "done", val |-> NoItem]]
  <2>1. Calls[e] = [op |-> "enqueue", val |-> qs[e].item]
    BY <1>3, <1>5 DEF Call
  <2>2. CallIn(e)' = [op |-> "done", val |-> NoItem]
    BY <1>3 DEF Call
  <2> QED
    BY ONLY <1>5, <2>1, <2>2
<1>10. Contents' = Append(Contents, Calls[e].val)
  BY <1>7, <1>9
<1>11. Fifo!DoEnqueue(e)
  BY ONLY <1>8, <1>9, <1>10, Zenon DEF Fifo!DoEnqueue, Fifo!Becomes, Contents, Calls
<1> QED
  BY <1>11 DEF Fifo!Next

\* The move of the head is the Dequeue, and it takes out the oldest value.
LEMMA SwapRefines ==
  ASSUME NEW e \in Clients, NEW d \in Clients, Pair(e, d), FifoInv(e, d), SwapHead(d)
  PROVE  [Fifo!Next]_(Fifo!vars)
<1>1. /\ FifoInv(e, d)' /\ qs[d].at = "swap" /\ qs' = [qs EXCEPT ![d].at = "data"]
      /\ line # <<>> /\ qs[d].node = line[1] /\ line' = Tail(line) /\ dataOf' = dataOf
  BY SwapHeadFifo
<1>2. qs'[d].at = "data" /\ qs'[d].node = line[1] /\ qs'[e] = qs[e]
  BY <1>1 DEF FifoInv, Typed, Pair, Locals
<1>3. CallIn(d) = Call("dequeue", NoItem) /\ CallIn(d)' = Call("taken", dataOf[line[1]])
  BY <1>1, <1>2, CallAt, CallAtNext
<1>4. CallIn(e)' = CallIn(e)
  BY <1>1, <1>2 DEF CallIn
<1>5. Calls' = [Calls EXCEPT ![d] = CallIn(d)'] /\ Calls[d] = CallIn(d)
  BY <1>4, CallsMove DEF Pair
<1>6. Contents # <<>> /\ Contents' = Tail(Contents) /\ Head(Contents) = dataOf[line[1]]
  BY <1>1, ContentsGet
<1>7. /\ Calls[d].op = "dequeue"
      /\ Calls' = [Calls EXCEPT ![d] = [op |-> "taken", val |-> Head(Contents)]]
  <2>1. Calls[d] = [op |-> "dequeue", val |-> NoItem]
    BY <1>3, <1>5 DEF Call
  <2>2. CallIn(d)' = [op |-> "taken", val |-> Head(Contents)]
    BY <1>3, <1>6 DEF Call
  <2> QED
    BY ONLY <1>5, <2>1, <2>2
<1>8. Fifo!DoDequeue(d)
  BY ONLY <1>6, <1>7, Zenon DEF Fifo!DoDequeue, Fifo!Becomes, Contents, Calls
<1> QED
  BY <1>8 DEF Fifo!Next

LEMMA DequeuerRefines ==
  ASSUME NEW e \in Clients, NEW d \in Clients, Pair(e, d), FifoInv(e, d),
         \/ DequeueTag(d) \/ HeadNode(d) \/ HeadTag(d) \/ HeadNext(d) \/ ReturnFalse(d)
         \/ ReadData(d) \/ FreeCell(d) \/ UncountCell(d)
  PROVE  [Fifo!Next]_(Fifo!vars)
<1>1. qs[d] \in Locals(EnqueuePlaces \cup DequeuePlaces) /\ qs \in [Clients -> Locals(EnqueuePlaces \cup DequeuePlaces)]
  BY DEF FifoInv, Typed
<1>2. PICK new : qs' = [qs EXCEPT ![d] = new]
  BY DEF DequeueTag, TakeTag, HeadNode, HeadTag, HeadNext, ReturnFalse, ReadData, FreeCell,
     UncountCell, Reads, Moves
<1>3. qs'[d] = new /\ qs'[e] = qs[e]
  BY <1>1, <1>2 DEF Pair
<1>4. line' = line /\ dataOf' = dataOf
  BY DEF DequeueTag, TakeTag, HeadNode, HeadTag, HeadNext, ReturnFalse, ReadData, FreeCell,
     UncountCell, Reads, ends, nodes
<1>5. Contents' = Contents /\ \A u \in Clients \ {d} : CallIn(u)' = CallIn(u)
  BY <1>3, <1>4, ContentsStay DEF Pair
<1>6. \/ CallIn(d)' = CallIn(d)
      \/ CallIn(d) = Call("none", NoItem) /\ CallIn(d)' = Call("dequeue", NoItem)
      \/ /\ CallIn(d) = Call("dequeue", NoItem) /\ CallIn(d)' = Call("done", NoItem)
         /\ Contents = <<>>
      \/ CallIn(d).op \in {"done", "taken"} /\ CallIn(d)' = Call("none", NoItem)
  <2>1. CASE DequeueTag(d)
    <3>1. qs[d].at = "out" /\ qs'[d].at = "headNode"
      BY <1>1, <2>1 DEF DequeueTag, TakeTag, Moves, Idle
    <3> QED
      BY <3>1, CallAt, CallAtNext
  <2>2. CASE HeadNode(d)
    <3>1. qs[d].at = "headNode" /\ qs'[d].at = "headTag"
      BY <1>1, <2>2 DEF HeadNode, Reads, Moves, Locals
    <3> QED
      BY <3>1, CallAt, CallAtNext
  <2>3. CASE HeadTag(d)
    <3>1. qs[d].at = "headTag" /\ qs'[d].at = "headNext"
      BY <1>1, <2>3 DEF HeadTag, Reads, Moves, Locals
    <3> QED
      BY <3>1, CallAt, CallAtNext
  <2>4. CASE HeadNext(d)
    <3>1. qs[d].at = "headNext" /\ qs[d].pre.node = head.node
      BY <2>4 DEF HeadNext, Reads, Moves, FifoInv, AtHead
    <3>2. CASE nextOf[head.node] = NoCell
      <4>1. line = <<>>
        <5>1. line # <<>> => line[1] \in Cells
          BY DEF FifoInv, Typed
        <5> QED
          BY <3>2, <5>1, LastInLine, NoCellIsNoCell
      <4>2. qs'[d].at = "nothing"
        BY <1>1, <2>4, <3>1, <3>2 DEF HeadNext, Reads, Moves, Idle
      <4> QED
        BY <3>1, <4>1, <4>2, CallAt, CallAtNext, ContentsType
    <3>3. CASE nextOf[head.node] # NoCell
      <4>1. qs'[d].at = "swap"
        BY <1>1, <2>4, <3>1, <3>3 DEF HeadNext, Reads, Moves, Locals
      <4> QED
        BY <3>1, <4>1, CallAt, CallAtNext
    <3> QED
      BY <3>2, <3>3
  <2>5. CASE ReturnFalse(d)
    <3>1. qs[d].at = "nothing" /\ qs'[d].at = "out"
      BY <1>1, <2>5 DEF ReturnFalse, Reads, Moves, Idle
    <3> QED
      BY <3>1, CallAt, CallAtNext DEF Call
  <2>6. CASE ReadData(d)
    <3>1. qs[d].at = "data" /\ qs'[d].at = "free" /\ qs'[d].item = dataOf[qs[d].node]
      BY <1>1, <2>6 DEF ReadData, Reads, Moves, Locals
    <3> QED
      BY <3>1, CallAt, CallAtNext
  <2>7. CASE FreeCell(d)
    <3>1. qs[d].at = "free" /\ qs'[d].at = "uncount" /\ qs'[d].item = qs[d].item
      BY <1>1, <2>7 DEF FreeCell, Moves, Locals
    <3> QED
      BY <3>1, CallAt, CallAtNext
  <2>8. CASE UncountCell(d)
    <3>1. qs[d].at = "uncount" /\ qs'[d].at = "out"
      BY <1>1, <2>8 DEF UncountCell, Moves, Idle
    <3> QED
      BY <3>1, CallAt, CallAtNext DEF Call
  <2> QED
    BY <2>1, <2>2, <2>3, <2>4, <2>5, <2>6, <2>7, <2>8
<1> QED
  BY <1>5, <1>6, CallSteps

LEMMA StepRefines ==
  ASSUME EachInv, [QueueNext]_queueVars
  PROVE  [OneOfEach => Fifo!Next]_(Fifo!vars)
<1>1. CASE UNCHANGED queueVars
  <2>1. UNCHANGED <<line, dataOf, qs>>
    BY <1>1 DEF queueVars
  <2>2. Contents' = Contents /\ \A c \in Clients : CallIn(c)' = CallIn(c)
    BY <2>1 DEF Contents, CallIn
  <2> QED
    BY <2>2 DEF Fifo!vars, Contents
<1>2. CASE QueueNext /\ OneOfEach
  <2>1. PICK e \in Clients, d \in Clients : Pair(e, d)
    BY <1>2, PairOfEach DEF EachInv
  <2>2. FifoInv(e, d)
    BY <2>1 DEF EachInv, PairInv
  <2>3. CASE TestFull(e) /\ nodeCnt >= MaxCnt
    BY <2>1, <2>2, <2>3, FullRefines
  <2>4. CASE \/ TestFull(e) /\ ~nodeCnt >= MaxCnt
             \/ Refuse(e) \/ EnqueueTag(e) \/ TailNode(e) \/ TailTag(e) \/ TailNext(e) \/ LiveTail(e)
             \/ AllocCell(e) \/ Swing(e) \/ CountCell(e)
    BY <2>1, <2>2, <2>4, EnqueuerRefines
  <2>5. CASE LinkCell(e)
    BY <2>1, <2>2, <2>5, LinkRefines
  <2>6. CASE SwapHead(d)
    BY <2>1, <2>2, <2>6, SwapRefines
  <2>7. CASE \/ DequeueTag(d) \/ HeadNode(d) \/ HeadTag(d) \/ HeadNext(d) \/ ReturnFalse(d)
             \/ ReadData(d) \/ FreeCell(d) \/ UncountCell(d)
    BY <2>1, <2>2, <2>7, DequeuerRefines
  <2> QED
    BY <1>2, <2>1, <2>2, <2>3, <2>4, <2>5, <2>6, <2>7, PairSteps
<1>3. CASE ~OneOfEach
  BY <1>3
<1> QED
  BY <1>1, <1>2, <1>3

\* Between one enqueuer and one dequeuer CQueue_LF is the bounded queue, for every capacity,
\* number of nodes and set of values: nothing is lost, doubled or overtaken while nodes come
\* back at once and the dequeuer frees the node the tail points to, and Enqueue and Dequeue
\* return false only when the queue is full or empty.
THEOREM QueueImplemented == QueueSpec => ImplementsFifo
<1>1. EachInv /\ [QueueNext]_queueVars => [OneOfEach => Fifo!Next]_(Fifo!vars)
  BY StepRefines
<1> QED
  BY <1>1, InitRefines, InitEachInv, StepEachInv, PTL DEF QueueSpec, ImplementsFifo
=============================================================================
