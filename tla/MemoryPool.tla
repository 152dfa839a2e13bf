---------------------------- MODULE MemoryPool ----------------------------
(***************************************************************************)
(* CMemoryPool: blocks handed out by Alloc and taken back by Free, from    *)
(* any number of threads.  Only the list of free blocks is under the lock; *)
(* whether to take from it is decided before, from two counters that are   *)
(* read and changed one at a time.  Alloc does not look whether the list   *)
(* is empty: that the counters never send a thread to an empty list is     *)
(* what keeps it from following a NULL _pTop.                              *)
(*                                                                         *)
(* iBlockNum = 0 makes a pool that grows with malloc, another iBlockNum a  *)
(* pool of that many blocks whose Alloc answers nullptr when it is full.   *)
(* The constructor leaves m_iAllocCount as the storage had it; a program   *)
(* whose storage held a negative number is outside this model.             *)
(***************************************************************************)
EXTENDS Integers, Sequences, FiniteSets, SequencesExt

CONSTANTS
  Threads,      \* the threads that use the pool
  BlockNums,    \* the iBlockNum the pool may be built with
  StartCounts,  \* what m_iAllocCount may hold before the first Alloc
  MaxCount      \* bound: no Alloc begins when m_iAllocCount has reached it

ASSUME ThreadsFinite == IsFiniteSet(Threads)
ASSUME BlockNumsNat == BlockNums \subseteq Nat
ASSUME StartCountsNat == StartCounts \subseteq Nat
ASSUME MaxCountNat == MaxCount \in Nat

VARIABLES
  storeFlag,   \* m_bStoreFlag
  BlockCount,  \* m_iBlockCount
  AllocCount,  \* m_iAllocCount
  top,         \* the free list, _pTop first
  inUse,       \* blocks the users of the pool hold
  made,        \* blocks obtained from malloc: they are numbered 1 .. made
  start,       \* what AllocCount started from
  failed,      \* Allocs answered with nullptr
  pc,          \* the step of Alloc or Free a thread is at
  seen,        \* iBlockCount, the local copy Alloc compares with
  blk          \* stpBlock of a thread in the middle of Alloc or Free

vars == <<storeFlag, BlockCount, AllocCount, top, inUse, made, start, failed, pc, seen, blk>>

NoBlock == 0

\* CMemoryPool(iBlockNum)
Init ==
  /\ \E n \in BlockNums :
       /\ storeFlag = (n = 0)
       /\ BlockCount = n
       /\ top = [i \in 1 .. n |-> i]
       /\ made = n
  /\ start \in StartCounts
  /\ AllocCount = start
  /\ inUse = {}
  /\ failed = 0
  /\ pc = [t \in Threads |-> "idle"]
  /\ seen = [t \in Threads |-> 0]
  /\ blk = [t \in Threads |-> NoBlock]

Step(t, from, to) == pc[t] = from /\ pc' = [pc EXCEPT ![t] = to]

\* int iBlockCount = m_iBlockCount;
Read(t) ==
  /\ Step(t, "idle", "count")
  /\ AllocCount < MaxCount
  /\ seen' = [seen EXCEPT ![t] = BlockCount]
  /\ UNCHANGED <<storeFlag, BlockCount, AllocCount, top, inUse, made, start, failed, blk>>

\* Slip: the block is not counted as in use.
Slip_Count(t) ==
  /\ Step(t, "count", "check")
  /\ UNCHANGED <<storeFlag, BlockCount, AllocCount, top, inUse, made, start, failed, seen, blk>>

Count(t) ==
  /\ Step(t, "count", "check")
  /\ AllocCount' = AllocCount + 1
  /\ UNCHANGED <<storeFlag, BlockCount, top, inUse, made, start, failed, seen, blk>>

\* Slip: a block less is wanted than there are.
Slip_Check(t) ==
  /\ Step(t, "check", IF seen[t] + 1 < AllocCount THEN "malloc" ELSE "pop")
  /\ UNCHANGED <<storeFlag, BlockCount, AllocCount, top, inUse, made, start, failed, seen, blk>>

\* iBlockCount < m_iAllocCount, with m_iAllocCount read again.  When a pool that
\* does not grow is full the count taken is not given back.
Check(t) ==
  LET enough == seen[t] >= AllocCount IN
  /\ Step(t, "check", IF enough THEN "pop" ELSE IF storeFlag THEN "malloc" ELSE "idle")
  /\ failed' = IF enough \/ storeFlag THEN failed ELSE failed + 1
  /\ UNCHANGED <<storeFlag, BlockCount, AllocCount, top, inUse, made, start, seen, blk>>

Malloc(t) ==
  /\ Step(t, "malloc", "grow")
  /\ made' = made + 1
  /\ blk' = [blk EXCEPT ![t] = made']
  /\ UNCHANGED <<storeFlag, BlockCount, AllocCount, top, inUse, start, failed, seen>>

\* Slip: the new block is not counted.
Slip_Grow(t) ==
  /\ Step(t, "grow", "idle")
  /\ inUse' = inUse \cup {blk[t]}
  /\ blk' = [blk EXCEPT ![t] = NoBlock]
  /\ UNCHANGED <<storeFlag, BlockCount, AllocCount, top, made, start, failed, seen>>

Grow(t) ==
  /\ Step(t, "grow", "idle")
  /\ BlockCount' = BlockCount + 1
  /\ inUse' = inUse \cup {blk[t]}
  /\ blk' = [blk EXCEPT ![t] = NoBlock]
  /\ UNCHANGED <<storeFlag, AllocCount, top, made, start, failed, seen>>

\* Slip: the next block is not made the top.
Slip_Pop(t) ==
  /\ Step(t, "pop", IF top = <<>> THEN "fault" ELSE "idle")
  /\ inUse' = IF top = <<>> THEN inUse ELSE inUse \cup {Head(top)}
  /\ UNCHANGED <<storeFlag, BlockCount, AllocCount, top, made, start, failed, seen, blk>>

\* The block on top, under the lock.  On an empty list this would read through
\* NULL: the thread gets stuck at "fault".
Pop(t) ==
  /\ Step(t, "pop", IF top = <<>> THEN "fault" ELSE "idle")
  /\ top' = IF top = <<>> THEN top ELSE Tail(top)
  /\ inUse' = IF top = <<>> THEN inUse ELSE inUse \cup {Head(top)}
  /\ UNCHANGED <<storeFlag, BlockCount, AllocCount, made, start, failed, seen, blk>>

\* Free(b), by any thread, for a block its holder has done with.
Free(t) ==
  /\ Step(t, "idle", "push")
  /\ \E b \in inUse :
       /\ inUse' = inUse \ {b}
       /\ blk' = [blk EXCEPT ![t] = b]
  /\ UNCHANGED <<storeFlag, BlockCount, AllocCount, top, made, start, failed, seen>>

\* The block becomes the top, under the lock.
Push(t) ==
  /\ Step(t, "push", "uncount")
  /\ top' = <<blk[t]>> \o top
  /\ blk' = [blk EXCEPT ![t] = NoBlock]
  /\ UNCHANGED <<storeFlag, BlockCount, AllocCount, inUse, made, start, failed, seen>>

Uncount(t) ==
  /\ Step(t, "uncount", "idle")
  /\ AllocCount' = AllocCount - 1
  /\ UNCHANGED <<storeFlag, BlockCount, top, inUse, made, start, failed, seen, blk>>

Alloc(t) == Read(t) \/ Count(t) \/ Check(t) \/ Malloc(t) \/ Grow(t) \/ Pop(t)
Release(t) == Free(t) \/ Push(t) \/ Uncount(t)

Next == \E t \in Threads : Alloc(t) \/ Release(t)

Spec == Init /\ [][Next]_vars

-----------------------------------------------------------------------------
(* Properties *)

Blocks == Nat \ {NoBlock}

\* Every variable keeps its type.
TypeOK ==
  /\ storeFlag \in BOOLEAN
  /\ BlockCount \in Nat /\ AllocCount \in Nat /\ made \in Nat
  /\ start \in Nat /\ failed \in Nat
  /\ top \in Seq(Blocks)
  /\ inUse \in SUBSET Blocks
  /\ pc \in [Threads -> {"idle", "count", "check", "malloc", "grow", "pop", "push",
                         "uncount", "fault"}]
  /\ seen \in [Threads -> Nat]
  /\ blk \in [Threads -> Nat]

Those(labels) == {t \in Threads : pc[t] \in labels}
Number(labels) == Cardinality(Those(labels))

\* No thread has followed a NULL _pTop, in whatever order the threads read and
\* change the two counters and come to the lock.
NoFault == \A t \in Threads : pc[t] # "fault"

\* A block is in one place: once in the list, or with one user, or with one thread
\* that is growing the pool by it or giving it back; so Alloc never hands out a
\* block that is in use.
OneOwner ==
  /\ IsInjective(top)
  /\ ToSet(top) \cap inUse = {}
  /\ \A t \in Those({"grow", "push"}) :
       /\ blk[t] \notin ToSet(top) \cup inUse
       /\ \A u \in Those({"grow", "push"}) \ {t} : blk[u] # blk[t]

\* m_iAllocCount and m_iBlockCount account for every block and every thread on its
\* way: no block is lost and none is counted twice.
Accounted ==
  /\ AllocCount = start + failed + Cardinality(inUse)
                  + Number({"check", "malloc", "grow", "pop", "push", "uncount"})
  /\ BlockCount = Len(top) + Cardinality(inUse) + Number({"push"})
=============================================================================
