---------------------------- MODULE MemoryPoolLF ----------------------------
(***************************************************************************)
(* CMemoryPool_LF: CMemoryPool with the lock replaced by a compare-and-    *)
(* swap of the top and a unique number.  As there, Alloc decides from two  *)
(* counters whether to take a block from the list and does not look        *)
(* whether the list has one; here the successor of the top is moreover     *)
(* read from the live top, in the arguments of the compare-and-swap.       *)
(*                                                                         *)
(* A pool of fixed size is built from blocks whose constructor did not     *)
(* run, and the last one is not given a successor: that word holds Junk,   *)
(* or NULL by chance.  The counters are those of MemoryPool, with the      *)
(* same bounds and the same starting values.                               *)
(***************************************************************************)
EXTENDS Integers, Sequences, FiniteSets

CONSTANTS
  Users,        \* the threads that use the pool
  BlockNums,    \* the iBlockNum the pool may be built with
  StartCounts,  \* what m_iAllocCount may hold before the first Alloc
  MaxCount,     \* bound: no Alloc begins when m_iAllocCount has reached it
  MaxNumber     \* bound: no call begins when _iUniqueNum has reached it

ASSUME UsersFinite == IsFiniteSet(Users)
ASSUME BlockNumsNat == BlockNums \subseteq Nat
ASSUME StartCountsNat == StartCounts \subseteq Nat
ASSUME MaxCountNat == MaxCount \in Nat

VARIABLES
  storeFlag,   \* m_bStoreFlag
  BlockCount,  \* m_iBlockCount
  AllocCount,  \* m_iAllocCount
  poolTop,     \* *_pTop
  number,      \* _iUniqueNum
  stpNext,     \* stpNextBlock of each block
  list,        \* history: the free blocks, the top first
  inUse,       \* blocks the users of the pool hold
  made,        \* blocks obtained from malloc: they are numbered 1 .. made
  start,       \* what AllocCount started from
  failed,      \* Allocs answered with nullptr
  us           \* each thread: the access it makes next, and its locals

poolVars == <<storeFlag, BlockCount, AllocCount, poolTop, number, stpNext, list, inUse, made,
              start, failed, us>>

NULL == 0
Junk == -1

NoBlockTop == [block |-> NULL, unique |-> 0]

\* seen is iBlockCount, id iUniqueNum, pre pPreTopNode, blk stpBlock, live the successor
\* for the exchange.
Away == [at |-> "out", seen |-> 0, id |-> 0, pre |-> NoBlockTop, blk |-> NULL, live |-> NULL]

\* CMemoryPool_LF(iBlockNum)
PoolInit ==
  /\ \E n \in BlockNums, last \in {NULL, Junk} :
       /\ storeFlag = (n = 0)
       /\ BlockCount = n
       /\ list = [i \in 1 .. n |-> i]
       /\ poolTop = [block |-> IF n = 0 THEN NULL ELSE 1, unique |-> 0]
       /\ stpNext = [i \in 1 .. n |-> IF i < n THEN i + 1 ELSE last]
       /\ made = n
  /\ start \in StartCounts
  /\ AllocCount = start
  /\ number = 0 /\ inUse = {} /\ failed = 0
  /\ us = [t \in Users |-> Away]

\* A thread that has returned; iBlockCount is left where it was.
Back(t) == [Away EXCEPT !.seen = us[t].seen]

Goes(t, from, new) == us[t].at = from /\ us' = [us EXCEPT ![t] = new]

counts == <<storeFlag, BlockCount, AllocCount, made, start, failed>>
blocks == <<poolTop, stpNext, list>>

\* A read of shared memory into a local.
Fetch(t, from, new) ==
  /\ Goes(t, from, new)
  /\ UNCHANGED <<counts, blocks, number, inUse>>

\* InterlockedIncrement64 (&_iUniqueNum)
TakeNumber(t, from, to) ==
  /\ Goes(t, from, [us[t] EXCEPT !.at = to, !.id = number + 1])
  /\ number' = number + 1
  /\ UNCHANGED <<counts, blocks, inUse>>

\* Slip: the unique number is not compared.
Slip_Unchanged(t) == poolTop.block = us[t].pre.block

\* The comparand of the compare-and-swap.
Unchanged(t) == poolTop = us[t].pre

-----------------------------------------------------------------------------
(* Alloc *)

\* int iBlockCount = m_iBlockCount;
ReadCount(t) ==
  /\ AllocCount < MaxCount /\ number < MaxNumber
  /\ Fetch(t, "out", [Back(t) EXCEPT !.at = "count", !.seen = BlockCount])

Count(t) ==
  /\ Goes(t, "count", [us[t] EXCEPT !.at = "check"])
  /\ AllocCount' = AllocCount + 1
  /\ UNCHANGED <<storeFlag, BlockCount, made, start, failed, blocks, number, inUse>>

\* Slip: the test lets one call more through to the list.
Slip_Check(t) ==
  LET enough == us[t].seen >= AllocCount - 1 IN
  /\ Goes(t, "check", IF enough THEN [us[t] EXCEPT !.at = "number"]
                      ELSE IF storeFlag THEN [us[t] EXCEPT !.at = "malloc"] ELSE Back(t))
  /\ failed' = IF enough \/ storeFlag THEN failed ELSE failed + 1
  /\ UNCHANGED <<storeFlag, BlockCount, AllocCount, made, start, blocks, number, inUse>>

\* iBlockCount < m_iAllocCount, with m_iAllocCount read again.
Check(t) ==
  LET enough == us[t].seen >= AllocCount IN
  /\ Goes(t, "check", IF enough THEN [us[t] EXCEPT !.at = "number"]
                      ELSE IF storeFlag THEN [us[t] EXCEPT !.at = "malloc"] ELSE Back(t))
  /\ failed' = IF enough \/ storeFlag THEN failed ELSE failed + 1
  /\ UNCHANGED <<storeFlag, BlockCount, AllocCount, made, start, blocks, number, inUse>>

Malloc(t) ==
  /\ Goes(t, "malloc", [us[t] EXCEPT !.at = "newBlock", !.blk = made + 1])
  /\ made' = made + 1
  /\ stpNext' = [i \in 1 .. made + 1 |-> IF i <= made THEN stpNext[i] ELSE Junk]
  /\ UNCHANGED <<storeFlag, BlockCount, AllocCount, start, failed, poolTop, list, number, inUse>>

NewBlock(t) ==
  /\ Goes(t, "newBlock", Back(t))
  /\ BlockCount' = BlockCount + 1
  /\ inUse' = inUse \cup {us[t].blk}
  /\ UNCHANGED <<storeFlag, AllocCount, made, start, failed, blocks, number>>

AllocNumber(t) == TakeNumber(t, "number", "allocUnique")

AllocUnique(t) ==
  Fetch(t, "allocUnique", [us[t] EXCEPT !.at = "allocTop", !.pre.unique = poolTop.unique])

AllocTop(t) == Fetch(t, "allocTop", [us[t] EXCEPT !.at = "live", !.pre.block = poolTop.block])

\* _pTop->pTopNode of the successor's expression: neither NULL nor Junk can be followed.
LiveTop(t) ==
  Fetch(t, "live", [us[t] EXCEPT !.at = IF poolTop.block \in 1 .. made THEN "next" ELSE "fault",
                                 !.live = poolTop.block])

\* ->stpNextBlock
NextBlock(t) == Fetch(t, "next", [us[t] EXCEPT !.at = "allocSwap", !.live = stpNext[@]])

AllocSwap(t) ==
  IF Unchanged(t)
  THEN /\ Goes(t, "allocSwap", Back(t))
       /\ poolTop' = [block |-> us[t].live, unique |-> us[t].id]
       /\ list' = SubSeq(list, 2, Len(list))
       /\ inUse' = inUse \cup {us[t].pre.block}
       /\ UNCHANGED <<counts, stpNext, number>>
  ELSE Fetch(t, "allocSwap", [us[t] EXCEPT !.at = "allocUnique"])

-----------------------------------------------------------------------------
(* Free *)

\* Free(b), by any thread, for a block its holder has done with.
FreeNumber(t) ==
  /\ number < MaxNumber
  /\ \E b \in inUse :
       /\ Goes(t, "out", [Back(t) EXCEPT !.at = "freeUnique", !.id = number + 1, !.blk = b])
       /\ inUse' = inUse \ {b}
  /\ number' = number + 1
  /\ UNCHANGED <<counts, blocks>>

FreeUnique(t) ==
  Fetch(t, "freeUnique", [us[t] EXCEPT !.at = "freeTop", !.pre.unique = poolTop.unique])

FreeTop(t) == Fetch(t, "freeTop", [us[t] EXCEPT !.at = "append", !.pre.block = poolTop.block])

\* stpBlock->stpNextBlock is given the top as it is now.
AppendBlock(t) ==
  /\ Goes(t, "append", [us[t] EXCEPT !.at = "freeSwap"])
  /\ stpNext' = [stpNext EXCEPT ![us[t].blk] = poolTop.block]
  /\ UNCHANGED <<counts, poolTop, list, number, inUse>>

FreeSwap(t) ==
  IF Unchanged(t)
  THEN /\ Goes(t, "freeSwap", [us[t] EXCEPT !.at = "uncount", !.blk = NULL])
       /\ poolTop' = [block |-> us[t].blk, unique |-> us[t].id]
       /\ list' = <<us[t].blk>> \o list
       /\ UNCHANGED <<counts, stpNext, number, inUse>>
  ELSE Fetch(t, "freeSwap", [us[t] EXCEPT !.at = "freeUnique"])

Uncount(t) ==
  /\ Goes(t, "uncount", Back(t))
  /\ AllocCount' = AllocCount - 1
  /\ UNCHANGED <<storeFlag, BlockCount, made, start, failed, blocks, number, inUse>>

-----------------------------------------------------------------------------
Alloc(t) ==
  \/ ReadCount(t) \/ Count(t) \/ Check(t) \/ Malloc(t) \/ NewBlock(t) \/ AllocNumber(t)
  \/ AllocUnique(t) \/ AllocTop(t) \/ LiveTop(t) \/ NextBlock(t) \/ AllocSwap(t)

Free(t) ==
  \/ FreeNumber(t) \/ FreeUnique(t) \/ FreeTop(t) \/ AppendBlock(t) \/ FreeSwap(t) \/ Uncount(t)

PoolNext == \E t \in Users : Alloc(t) \/ Free(t)

PoolSpec == PoolInit /\ [][PoolNext]_poolVars

-----------------------------------------------------------------------------
(* Properties *)

\* No thread has followed a top that is not a block: the counters send no more threads
\* to the list than it has blocks, however their reads and swaps interleave.
NoBadTop == \A t \in Users : us[t].at # "fault"

\* The step of MemoryPool a thread is at: all of a loop with a compare-and-swap is the
\* critical section there.
Phase(at) ==
  CASE at = "out" -> "idle"
    [] at = "newBlock" -> "grow"
    [] at \in {"number", "allocUnique", "allocTop", "live", "next", "allocSwap"} -> "pop"
    [] at \in {"freeUnique", "freeTop", "append", "freeSwap"} -> "push"
    [] OTHER -> at

LockedPool == INSTANCE MemoryPool WITH
  Threads <- Users,
  top <- list,
  pc <- [t \in Users |-> Phase(us[t].at)],
  seen <- [t \in Users |-> us[t].seen],
  blk <- [t \in Users |-> us[t].blk]

\* CMemoryPool_LF does what CMemoryPool does: the block a successful exchange takes is the
\* first of the list, and the list goes on with the second, although both were read at
\* different times and blocks come back to the list.
ImplementsLockedPool == LockedPool!Spec
=============================================================================
