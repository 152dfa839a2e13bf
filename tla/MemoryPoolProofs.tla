------------------------- MODULE MemoryPoolProofs -------------------------
(***************************************************************************)
(* CMemoryPool never follows a NULL _pTop and never hands a block out      *)
(* twice, for any number of threads and any size of the pool.              *)
(*                                                                         *)
(* NoFault is not inductive.  IInv adds where every block is (Made,        *)
(* OneOwner), what the two counters count (Accounted), that the block      *)
(* count a thread has read is never above the present one (Seen), and that *)
(* the threads sent to the list find a block each (EnoughFree).  The step  *)
(* that matters is Check: the counters a thread compares there cover every *)
(* thread that has counted itself and not yet got its block.               *)
(***************************************************************************)
EXTENDS MemoryPool, FiniteSetTheorems, TLAPS

\* Every block comes from malloc.
Made ==
  /\ inUse \subseteq 1 .. made
  /\ ToSet(top) \subseteq 1 .. made
  /\ \A t \in Threads : blk[t] \in 0 .. made
  /\ \A t \in Those({"grow", "push"}) : blk[t] # NoBlock

Seen == \A t \in Threads : seen[t] <= BlockCount

EnoughFree == Number({"pop"}) <= Len(top)

IInv == TypeOK /\ NoFault /\ OneOwner /\ Accounted /\ Made /\ Seen /\ EnoughFree

Labels == {"idle", "count", "check", "malloc", "grow", "pop", "push", "uncount", "fault"}
Counting == {"check", "malloc", "grow", "pop", "push", "uncount"}

-----------------------------------------------------------------------------
(* Counting threads by the step they are at *)

LEMMA NumberType ==
  ASSUME NEW L
  PROVE  IsFiniteSet(Those(L)) /\ Number(L) \in Nat
BY ThreadsFinite, FS_Subset, FS_CardinalityType DEF Those, Number

\* A thread that steps from one label to another changes the numbers of the sets
\* the labels are in, by one.
LEMMA NumberStep ==
  ASSUME NEW t \in Threads, NEW from, NEW to, NEW L,
         pc \in [Threads -> Labels], Step(t, from, to)
  PROVE  /\ Number(L) \in Nat /\ Number(L)' \in Nat
         /\ from \in L => Number(L) >= 1
         /\ Number(L)' = Number(L) - (IF from \in L THEN 1 ELSE 0)
                                   + (IF to \in L THEN 1 ELSE 0)
<1> DEFINE N == {u \in Threads : pc[u] \in L}
           M == {u \in Threads : pc'[u] \in L}
           R == N \ {t}
<1>1. IsFiniteSet(N) /\ IsFiniteSet(M) /\ IsFiniteSet(R)
  BY ThreadsFinite, FS_Subset
<1>2. M = IF to \in L THEN R \cup {t} ELSE R
  BY DEF Step
<1>3. N = IF from \in L THEN R \cup {t} ELSE R
  BY DEF Step
<1>4. t \notin R
  OBVIOUS
<1>5. Cardinality(R) \in Nat /\ Cardinality(R \cup {t}) = Cardinality(R) + 1
  BY <1>1, <1>4, FS_AddElement, FS_CardinalityType
<1>8. Number(L) = Cardinality(N) /\ Number(L)' = Cardinality(M)
  BY DEF Number, Those
<1> HIDE DEF N, M, R
<1>6. Cardinality(M) = Cardinality(R) + (IF to \in L THEN 1 ELSE 0)
  BY <1>2, <1>5
<1>7. Cardinality(N) = Cardinality(R) + (IF from \in L THEN 1 ELSE 0)
  BY <1>3, <1>5
<1> QED
  BY <1>5, <1>6, <1>7, <1>8

\* Threads at a label of L and threads at a label of K, when no label is in both.
LEMMA NumberUnion ==
  ASSUME NEW L, NEW K, L \cap K = {}
  PROVE  Number(L \cup K) = Number(L) + Number(K)
<1>1. Those(L \cup K) = Those(L) \cup Those(K) /\ Those(L) \cap Those(K) = {}
  BY DEF Those
<1>2. IsFiniteSet(Those(L)) /\ IsFiniteSet(Those(K))
  BY NumberType
<1>3. Cardinality(Those(L) \cup Those(K)) =
        Cardinality(Those(L)) + Cardinality(Those(K)) - Cardinality(Those(L) \cap Those(K))
  BY <1>2, FS_Union
<1>4. Cardinality(Those(L) \cap Those(K)) = 0
  BY <1>1, FS_EmptySet
<1>5. Number(L) \in Nat /\ Number(K) \in Nat
  BY NumberType
<1>6. Number(L \cup K) = Cardinality(Those(L) \cup Those(K))
  BY <1>1 DEF Number
<1>7. Number(L) = Cardinality(Those(L)) /\ Number(K) = Cardinality(Those(K))
  BY DEF Number
<1> QED
  BY <1>3, <1>4, <1>5, <1>6, <1>7

\* The threads m_iAllocCount counts are, among others, those that wait for a block
\* of the list and those that are giving one back.
LEMMA CountingBound ==
  Number({"check"}) + Number({"pop"}) + Number({"push"}) <= Number(Counting)
<1> DEFINE Rest == {"malloc", "grow", "uncount"}
<1>1. Number({"check", "pop"}) = Number({"check"}) + Number({"pop"})
  <2>1. {"check"} \cup {"pop"} = {"check", "pop"}
    OBVIOUS
  <2>2. {"check"} \cap {"pop"} = {}
    OBVIOUS
  <2> QED
    BY <2>1, <2>2, NumberUnion, Zenon
<1>2. Number({"check", "pop", "push"}) = Number({"check", "pop"}) + Number({"push"})
  <2>1. {"check", "pop"} \cup {"push"} = {"check", "pop", "push"}
    OBVIOUS
  <2>2. {"check", "pop"} \cap {"push"} = {}
    OBVIOUS
  <2> QED
    BY <2>1, <2>2, NumberUnion, Zenon
<1>3. Number(Counting) = Number({"check", "pop", "push"}) + Number(Rest)
  <2>1. {"check", "pop", "push"} \cup Rest = Counting
    BY DEF Counting
  <2>2. {"check", "pop", "push"} \cap Rest = {}
    OBVIOUS
  <2> HIDE DEF Rest
  <2> QED
    BY <2>1, <2>2, NumberUnion, Zenon
<1>5. /\ Number({"check"}) \in Nat /\ Number({"pop"}) \in Nat /\ Number({"push"}) \in Nat
      /\ Number(Rest) \in Nat
  BY NumberType
<1> HIDE DEF Number, Rest
<1> QED
  BY <1>1, <1>2, <1>3, <1>5

-----------------------------------------------------------------------------
(* The parts of IInv, one by one *)

LEMMA InitIInv == Init => IInv
<1> SUFFICES ASSUME Init PROVE IInv
  OBVIOUS
<1>1. PICK n \in BlockNums : /\ storeFlag = (n = 0) /\ BlockCount = n
                             /\ top = [i \in 1 .. n |-> i] /\ made = n
  BY DEF Init
<1>2. n \in Nat /\ start \in Nat
  BY BlockNumsNat, StartCountsNat DEF Init
<1>3. top \in Seq(Blocks) /\ Len(top) = n /\ ToSet(top) \subseteq 1 .. n
  BY <1>1, <1>2 DEF Blocks, NoBlock, ToSet
<1>4. TypeOK
  BY <1>1, <1>2, <1>3 DEF Init, TypeOK, NoBlock
<1>5. NoFault /\ OneOwner
  BY <1>1, <1>2 DEF Init, NoFault, OneOwner, IsInjective, Those
<1>6. \A L : "idle" \notin L => Number(L) = 0
  <2>1. \A L : "idle" \notin L => Those(L) = {}
    BY DEF Init, Those
  <2> QED
    BY <2>1, FS_EmptySet DEF Number
<1>7. Number(Counting) = 0 /\ Number({"push"}) = 0 /\ Number({"pop"}) = 0
  BY <1>6 DEF Counting
<1>8. Cardinality(inUse) = 0
  BY FS_EmptySet DEF Init
<1>9. Accounted
  BY <1>1, <1>2, <1>3, <1>7, <1>8 DEF Init, Accounted, Counting
<1>10. Made /\ Seen /\ EnoughFree
  BY <1>1, <1>2, <1>3, <1>7 DEF Init, Made, Seen, EnoughFree, NoBlock, Those
<1> QED
  BY <1>4, <1>5, <1>9, <1>10 DEF IInv

-----------------------------------------------------------------------------
(* Every action preserves IInv *)

\* What a step from one label to another does to the numbers IInv speaks of.
LEMMA StepNumbers ==
  ASSUME IInv, NEW t \in Threads, NEW from \in Labels, NEW to \in Labels,
         Step(t, from, to)
  PROVE  /\ pc' \in [Threads -> Labels] /\ pc[t] = from
         /\ Number(Counting) \in Nat /\ Number({"push"}) \in Nat /\ Number({"pop"}) \in Nat
         /\ Number({"check"}) \in Nat
         /\ from = "check" => Number({"check"}) >= 1
         /\ from = "pop" => Number({"pop"}) >= 1
         /\ from \in Counting => Number(Counting) >= 1
         /\ Number(Counting)' = Number(Counting) - (IF from \in Counting THEN 1 ELSE 0)
                                                + (IF to \in Counting THEN 1 ELSE 0)
         /\ Number({"push"})' = Number({"push"}) - (IF from = "push" THEN 1 ELSE 0)
                                                + (IF to = "push" THEN 1 ELSE 0)
         /\ Number({"pop"})' = Number({"pop"}) - (IF from = "pop" THEN 1 ELSE 0)
                                              + (IF to = "pop" THEN 1 ELSE 0)
<1>1. pc \in [Threads -> Labels]
  BY DEF IInv, TypeOK, Labels
<1>2. pc' \in [Threads -> Labels] /\ pc[t] = from
  BY <1>1 DEF Step
<1>3. \A L : /\ Number(L) \in Nat
             /\ from \in L => Number(L) >= 1
             /\ Number(L)' = Number(L) - (IF from \in L THEN 1 ELSE 0)
                                       + (IF to \in L THEN 1 ELSE 0)
  BY <1>1, NumberStep
<1>4. /\ Number({"push"})' = Number({"push"}) - (IF from \in {"push"} THEN 1 ELSE 0)
                                              + (IF to \in {"push"} THEN 1 ELSE 0)
      /\ Number({"pop"})' = Number({"pop"}) - (IF from \in {"pop"} THEN 1 ELSE 0)
                                            + (IF to \in {"pop"} THEN 1 ELSE 0)
      /\ from \in {"check"} => Number({"check"}) >= 1
      /\ from \in {"pop"} => Number({"pop"}) >= 1
  BY <1>3
<1> QED
  BY <1>2, <1>3, <1>4

LEMMA InUseFinite ==
  ASSUME IInv
  PROVE  IsFiniteSet(inUse) /\ Cardinality(inUse) \in Nat
<1>1. made \in Nat /\ inUse \in SUBSET (1 .. made)
  BY DEF IInv, TypeOK, Made
<1>2. IsFiniteSet(1 .. made)
  BY <1>1, FS_Interval
<1>3. IsFiniteSet(inUse)
  BY <1>1, <1>2, FS_Subset
<1> QED
  BY <1>3, FS_CardinalityType

\* Accounted as two sums.
LEMMA AccountedSums ==
  /\ IInv => /\ AllocCount = start + failed + Cardinality(inUse) + Number(Counting)
             /\ BlockCount = Len(top) + Cardinality(inUse) + Number({"push"})
  /\ /\ AllocCount' = start' + failed' + Cardinality(inUse') + Number(Counting)'
     /\ BlockCount' = Len(top') + Cardinality(inUse') + Number({"push"})'
     => Accounted'
BY DEF IInv, Accounted, Counting

\* A stale block count is a lower one, because the pool never gives a block back.
LEMMA ReadIInv == ASSUME IInv, NEW t \in Threads, Read(t) PROVE IInv'
<1> USE DEF Read
<1>1. Step(t, "idle", "count")
  OBVIOUS
<1>2. pc' \in [Threads -> Labels]
  BY <1>1, StepNumbers DEF Labels
<1>3. /\ Number(Counting)' = Number(Counting) /\ Number({"push"})' = Number({"push"})
      /\ Number({"pop"})' = Number({"pop"})
  BY <1>1, StepNumbers DEF Labels, Counting
<1>4. TypeOK' /\ NoFault'
  BY <1>1, <1>2 DEF IInv, TypeOK, NoFault, Labels, Step
<1>5. OneOwner'
  BY <1>1 DEF IInv, TypeOK, OneOwner, Those, Step, IsInjective, ToSet
<1>6. Accounted'
  BY <1>3 DEF IInv, TypeOK, Accounted, Counting
<1>7. Made' /\ Seen' /\ EnoughFree'
  BY <1>3 DEF IInv, TypeOK, Made, Seen, EnoughFree, ToSet, Those, Step
<1> QED
  BY <1>4, <1>5, <1>6, <1>7 DEF IInv

LEMMA CountIInv == ASSUME IInv, NEW t \in Threads, Count(t) PROVE IInv'
<1> USE DEF Count
<1>1. Step(t, "count", "check")
  OBVIOUS
<1>2. pc' \in [Threads -> Labels]
  BY <1>1, StepNumbers DEF Labels
<1>3. /\ Number(Counting)' = Number(Counting) + 1 /\ Number({"push"})' = Number({"push"})
      /\ Number({"pop"})' = Number({"pop"}) /\ Number(Counting) \in Nat
  BY <1>1, StepNumbers DEF Labels, Counting
<1>4. TypeOK' /\ NoFault'
  BY <1>1, <1>2 DEF IInv, TypeOK, NoFault, Labels, Step
<1>5. OneOwner'
  BY <1>1 DEF IInv, TypeOK, OneOwner, Those, Step, IsInjective, ToSet
<1>6. Cardinality(inUse) \in Nat
  BY InUseFinite
<1>7. Accounted'
  BY <1>3, <1>6 DEF IInv, TypeOK, Accounted, Counting
<1>8. Made' /\ Seen' /\ EnoughFree'
  BY <1>3 DEF IInv, TypeOK, Made, Seen, EnoughFree, ToSet, Those, Step
<1> QED
  BY <1>4, <1>5, <1>7, <1>8 DEF IInv

\* A thread goes to the list only when the blocks outnumber the users and the
\* threads on their way, so there is a block for it and for all sent before.
LEMMA CheckIInv == ASSUME IInv, NEW t \in Threads, Check(t) PROVE IInv'
<1> DEFINE enough == seen[t] >= AllocCount
           to == IF enough THEN "pop" ELSE IF storeFlag THEN "malloc" ELSE "idle"
<1> USE DEF Check
<1>1. Step(t, "check", to) /\ to \in Labels
  BY DEF Labels
<1>2. /\ pc' \in [Threads -> Labels] /\ pc[t] = "check"
      /\ Number(Counting) \in Nat /\ Number({"push"}) \in Nat /\ Number({"pop"}) \in Nat
      /\ Number({"check"}) >= 1 /\ Number({"check"}) \in Nat
  BY <1>1, StepNumbers DEF Labels
<1>3. /\ Number({"push"})' = Number({"push"})
      /\ Number(Counting)' = IF to = "idle" THEN Number(Counting) - 1 ELSE Number(Counting)
      /\ Number({"pop"})' = IF to = "pop" THEN Number({"pop"}) + 1 ELSE Number({"pop"})
  BY <1>1, <1>2, StepNumbers DEF Labels, Counting
<1>4. Cardinality(inUse) \in Nat
  BY InUseFinite
<1>5. failed' = IF to = "idle" THEN failed + 1 ELSE failed
  OBVIOUS
<1>6. TypeOK' /\ NoFault'
  BY <1>1, <1>2, <1>5 DEF IInv, TypeOK, NoFault, Labels, Step
<1>7. OneOwner'
  BY <1>1 DEF IInv, TypeOK, OneOwner, Those, Step, IsInjective, ToSet
<1>8. Accounted'
  <2>1. Number(Counting)' + failed' = Number(Counting) + failed
    BY <1>2, <1>3, <1>5 DEF IInv, TypeOK
  <2>2. UNCHANGED <<BlockCount, AllocCount, top, inUse, start>>
    OBVIOUS
  <2> QED
    BY <1>2, <1>3, <1>4, <1>6, <2>1, <2>2 DEF IInv, TypeOK, Accounted, Counting
<1>9. EnoughFree'
  <2>1. CASE enough
    <3>1. Len(top) + Cardinality(inUse) + Number({"push"})
            >= start + failed + Cardinality(inUse) + Number(Counting)
      BY <1>2, <1>4, <2>1 DEF IInv, TypeOK, Accounted, Seen, Counting
    <3>2. Number({"pop"}) + 1 <= Len(top)
      BY <1>2, <1>4, <3>1, CountingBound DEF IInv, TypeOK
    <3> QED
      BY <1>3, <2>1, <3>2 DEF EnoughFree
  <2>2. CASE ~enough
    BY <1>3, <2>2 DEF IInv, EnoughFree
  <2> QED
    BY <2>1, <2>2
<1>10. Made' /\ Seen'
  BY DEF IInv, TypeOK, Made, Seen, ToSet, Those, Step
<1> QED
  BY <1>6, <1>7, <1>8, <1>9, <1>10 DEF IInv

LEMMA MallocIInv == ASSUME IInv, NEW t \in Threads, Malloc(t) PROVE IInv'
<1> USE DEF Malloc
<1>1. Step(t, "malloc", "grow") /\ made \in Nat
  BY DEF IInv, TypeOK
<1>2. pc' \in [Threads -> Labels] /\ pc[t] = "malloc"
  BY <1>1, StepNumbers DEF Labels
<1>3. /\ Number(Counting)' = Number(Counting) /\ Number({"push"})' = Number({"push"})
      /\ Number({"pop"})' = Number({"pop"})
  BY <1>1, StepNumbers DEF Labels, Counting
<1>4. TypeOK' /\ NoFault'
  BY <1>1, <1>2 DEF IInv, TypeOK, NoFault, Labels, Step
<1>5. \A u \in Threads : blk[u] < made + 1 /\ made + 1 \notin ToSet(top) \cup inUse
  BY <1>1 DEF IInv, Made
<1>6. /\ blk'[t] = made + 1
      /\ \A u \in Threads \ {t} : blk'[u] = blk[u] /\ blk'[u] # made + 1
      /\ Those({"grow", "push"})' = Those({"grow", "push"}) \cup {t}
  BY <1>1, <1>2, <1>5 DEF IInv, TypeOK, Those, Step
<1>7. OneOwner'
  BY <1>5, <1>6 DEF IInv, OneOwner, Those, IsInjective, ToSet
<1>8. Accounted'
  BY <1>3 DEF IInv, TypeOK, Accounted, Counting
<1>9. Made'
  <2>1. ToSet(top)' = ToSet(top)
    BY DEF ToSet
  <2> QED
    BY <1>1, <1>6, <2>1 DEF IInv, TypeOK, Made, NoBlock, Those
<1>10. Seen' /\ EnoughFree'
  BY <1>3 DEF IInv, Seen, EnoughFree
<1> QED
  BY <1>4, <1>7, <1>8, <1>9, <1>10 DEF IInv

LEMMA GrowIInv == ASSUME IInv, NEW t \in Threads, Grow(t) PROVE IInv'
<1> USE DEF Grow
<1>1. Step(t, "grow", "idle")
  OBVIOUS
<1>2. pc' \in [Threads -> Labels] /\ pc[t] = "grow" /\ t \in Those({"grow", "push"})
  BY <1>1, StepNumbers DEF Labels, Those
<1>3. /\ Number(Counting)' = Number(Counting) - 1 /\ Number({"push"})' = Number({"push"})
      /\ Number({"pop"})' = Number({"pop"}) /\ Number(Counting) \in Nat
      /\ Number({"push"}) \in Nat
  BY <1>1, StepNumbers DEF Labels, Counting
<1>4. blk[t] \notin ToSet(top) \cup inUse /\ blk[t] \in Blocks
  BY <1>2 DEF IInv, OneOwner, Made, TypeOK, Blocks, NoBlock
<1>5. Cardinality(inUse') = Cardinality(inUse) + 1 /\ Cardinality(inUse) \in Nat
  BY <1>4, InUseFinite, FS_AddElement
<1>6. TypeOK' /\ NoFault'
  <2>1. AllocCount \in Nat /\ blk'[t] = NoBlock
    BY DEF IInv, TypeOK
  <2> QED
    BY <1>1, <1>2, <1>4 DEF IInv, TypeOK, NoFault, Labels, Step, NoBlock
<1>7. OneOwner'
  BY <1>1, <1>2, <1>4 DEF IInv, TypeOK, OneOwner, Those, Step, IsInjective, ToSet
<1>8. Accounted'
  <2>1. /\ BlockCount' = BlockCount + 1
        /\ UNCHANGED <<AllocCount, top, start, failed>>
        /\ Len(top) \in Nat /\ start \in Nat /\ failed \in Nat
    BY DEF IInv, TypeOK
  <2> HIDE DEF Grow
  <2> QED
    BY <1>3, <1>5, <2>1 DEF IInv, Accounted, Counting
<1>9. Made'
  <2>1. ToSet(top)' = ToSet(top)
    BY DEF ToSet
  <2>2. inUse' \subseteq 1 .. made /\ made' = made
    <3>1. made \in Nat /\ blk[t] \in 0 .. made /\ blk[t] # 0
      BY <1>2 DEF IInv, TypeOK, Made, NoBlock
    <3>2. blk[t] \in 1 .. made
      BY <3>1
    <3> QED
      BY <3>2 DEF IInv, Made
  <2>3. \A u \in Threads : blk'[u] \in 0 .. made
    BY DEF IInv, TypeOK, Made, NoBlock
  <2>4. \A u \in Those({"grow", "push"})' : u \in Those({"grow", "push"}) /\ blk'[u] = blk[u]
    BY <1>1, <1>2 DEF IInv, TypeOK, Those, Step
  <2> QED
    BY <2>1, <2>2, <2>3, <2>4 DEF IInv, Made
<1>10. Seen'
  BY DEF IInv, TypeOK, Seen
<1>11. EnoughFree'
  BY <1>3 DEF IInv, EnoughFree
<1> QED
  BY <1>6, <1>7, <1>8, <1>9, <1>10, <1>11 DEF IInv

LEMMA PopIInv == ASSUME IInv, NEW t \in Threads, Pop(t) PROVE IInv'
<1> USE DEF Pop
<1>1. pc[t] = "pop"
  BY DEF Step
<1>2. Number({"pop"}) >= 1
  <2>1. pc \in [Threads -> Labels]
    BY DEF IInv, TypeOK, Labels
  <2>2. PICK to : Step(t, "pop", to)
    OBVIOUS
  <2>3. \A L : "pop" \in L => Number(L) >= 1
    BY <2>1, <2>2, NumberStep
  <2> QED
    BY <2>3
<1>3. top \in Seq(Blocks) /\ top # <<>>
  <2>1. Number({"pop"}) \in Nat /\ Number({"pop"}) <= Len(top)
    BY NumberType DEF IInv, EnoughFree
  <2>2. top \in Seq(Blocks)
    BY DEF IInv, TypeOK
  <2>3. Len(top) >= 1
    BY <1>2, <2>1, <2>2
  <2> QED
    BY <2>2, <2>3
<1>4. Step(t, "pop", "idle") /\ top' = Tail(top) /\ inUse' = inUse \cup {Head(top)}
  BY <1>3
<1>5. pc' \in [Threads -> Labels]
  BY <1>4, StepNumbers DEF Labels
<1>6. /\ Number(Counting)' = Number(Counting) - 1 /\ Number({"push"})' = Number({"push"})
      /\ Number({"pop"})' = Number({"pop"}) - 1 /\ Number(Counting) \in Nat
      /\ Number({"push"}) \in Nat /\ Number({"pop"}) \in Nat
  BY <1>4, StepNumbers DEF Labels, Counting
<1>7. /\ Tail(top) \in Seq(Blocks) /\ Len(Tail(top)) = Len(top) - 1 /\ Len(top) \in Nat
      /\ \A i \in 1 .. Len(top) - 1 : Tail(top)[i] = top[i + 1]
      /\ Head(top) = top[1] /\ Head(top) \in Blocks
  BY <1>3
<1>8. ToSet(Tail(top)) \subseteq ToSet(top) /\ Head(top) \in ToSet(top)
  BY <1>3, <1>7 DEF ToSet
<1>9. IsInjective(Tail(top)) /\ Head(top) \notin ToSet(Tail(top))
  BY <1>3, <1>7 DEF IInv, OneOwner, IsInjective, ToSet
<1>10. Head(top) \notin inUse
  BY <1>8 DEF IInv, OneOwner
<1>11. Cardinality(inUse') = Cardinality(inUse) + 1 /\ Cardinality(inUse) \in Nat
  BY <1>4, <1>10, InUseFinite, FS_AddElement
<1>12. TypeOK' /\ NoFault'
  BY <1>4, <1>5, <1>7 DEF IInv, TypeOK, NoFault, Labels, Step
<1>13. OneOwner'
  <2>1. Those({"grow", "push"})' = Those({"grow", "push"})
    BY <1>4 DEF Those, Step, IInv, TypeOK
  <2> QED
    BY <1>4, <1>8, <1>9, <2>1 DEF IInv, OneOwner
<1>14. Accounted'
  <2>1. /\ Len(top') = Len(top) - 1 /\ start \in Nat /\ failed \in Nat
        /\ UNCHANGED <<BlockCount, AllocCount, start, failed>>
    BY <1>4, <1>7 DEF IInv, TypeOK
  <2>2. AllocCount' = start' + failed' + Cardinality(inUse') + Number(Counting)'
    BY <1>6, <1>11, <2>1, AccountedSums
  <2>3. BlockCount' = Len(top') + Cardinality(inUse') + Number({"push"})'
    BY <1>6, <1>7, <1>11, <2>1, AccountedSums
  <2> QED
    BY <2>2, <2>3, AccountedSums
<1>15. Made'
  <2>1. Those({"grow", "push"})' = Those({"grow", "push"})
    BY <1>4 DEF Those, Step, IInv, TypeOK
  <2>2. ToSet(top') \cup inUse' \subseteq 1 .. made
    BY <1>4, <1>8 DEF IInv, Made
  <2> QED
    BY <2>1, <2>2 DEF IInv, Made
<1>16. Seen'
  BY DEF IInv, Seen
<1>17. EnoughFree'
  BY <1>4, <1>6, <1>7 DEF IInv, EnoughFree
<1> QED
  BY <1>12, <1>13, <1>14, <1>15, <1>16, <1>17 DEF IInv

LEMMA FreeIInv == ASSUME IInv, NEW t \in Threads, Free(t) PROVE IInv'
<1> USE DEF Free
<1>1. PICK b \in inUse : inUse' = inUse \ {b} /\ blk' = [blk EXCEPT ![t] = b]
  OBVIOUS
<1>2. Step(t, "idle", "push")
  OBVIOUS
<1>3. pc' \in [Threads -> Labels] /\ pc[t] = "idle"
  BY <1>2, StepNumbers DEF Labels
<1>4. /\ Number(Counting)' = Number(Counting) + 1 /\ Number({"push"})' = Number({"push"}) + 1
      /\ Number({"pop"})' = Number({"pop"}) /\ Number(Counting) \in Nat
      /\ Number({"push"}) \in Nat
  BY <1>2, StepNumbers DEF Labels, Counting
<1>5. Cardinality(inUse') = Cardinality(inUse) - 1 /\ Cardinality(inUse) \in Nat
      /\ Cardinality(inUse') \in Nat
  BY <1>1, InUseFinite, FS_RemoveElement, FS_CardinalityType
<1>6. /\ blk'[t] = b /\ b \in Blocks /\ b \notin ToSet(top) /\ b <= made
      /\ \A u \in Threads \ {t} : blk'[u] = blk[u]
      /\ Those({"grow", "push"})' = Those({"grow", "push"}) \cup {t}
      /\ \A u \in Those({"grow", "push"}) : blk[u] # b
  BY <1>1, <1>2, <1>3 DEF IInv, TypeOK, OneOwner, Made, Those, Step
<1>7. TypeOK' /\ NoFault'
  BY <1>1, <1>2, <1>3, <1>6 DEF IInv, TypeOK, NoFault, Labels, Step, Blocks
<1>8. OneOwner'
  BY <1>1, <1>3, <1>6 DEF IInv, OneOwner, Those
<1>9. Accounted'
  <2>1. /\ UNCHANGED <<BlockCount, AllocCount, top, start, failed>>
        /\ Len(top) \in Nat /\ start \in Nat /\ failed \in Nat
    BY DEF IInv, TypeOK
  <2>2. AllocCount' = start' + failed' + Cardinality(inUse') + Number(Counting)'
    BY <1>4, <1>5, <2>1, AccountedSums
  <2>3. BlockCount' = Len(top') + Cardinality(inUse') + Number({"push"})'
    BY <1>4, <1>5, <2>1, AccountedSums
  <2> QED
    BY <2>2, <2>3, AccountedSums
<1>10. Made' /\ Seen' /\ EnoughFree'
  BY <1>1, <1>4, <1>6 DEF IInv, TypeOK, Made, Seen, EnoughFree, Blocks, NoBlock, Those
<1> QED
  BY <1>7, <1>8, <1>9, <1>10 DEF IInv

LEMMA PushIInv == ASSUME IInv, NEW t \in Threads, Push(t) PROVE IInv'
<1> USE DEF Push
<1>1. Step(t, "push", "uncount")
  OBVIOUS
<1>2. pc' \in [Threads -> Labels] /\ pc[t] = "push" /\ t \in Those({"grow", "push"})
  BY <1>1, StepNumbers DEF Labels, Those
<1>3. /\ Number(Counting)' = Number(Counting) /\ Number({"push"})' = Number({"push"}) - 1
      /\ Number({"pop"})' = Number({"pop"}) /\ Number({"push"}) \in Nat
      /\ Number({"pop"}) \in Nat
  BY <1>1, StepNumbers DEF Labels, Counting
<1>4. blk[t] \notin ToSet(top) \cup inUse /\ blk[t] \in Blocks /\ blk[t] \in 1 .. made
  BY <1>2 DEF IInv, OneOwner, Made, TypeOK, Blocks, NoBlock
<1> DEFINE s == <<blk[t]>> \o top
<1>5. /\ s \in Seq(Blocks) /\ Len(s) = Len(top) + 1 /\ Len(top) \in Nat
      /\ \A i \in 1 .. Len(s) : s[i] = IF i = 1 THEN blk[t] ELSE top[i - 1]
  BY <1>4 DEF IInv, TypeOK
<1>6. top' = s
  OBVIOUS
<1>7. IsInjective(s)
  BY <1>4, <1>5 DEF IInv, TypeOK, OneOwner, IsInjective, ToSet
<1>8. ToSet(s) \subseteq ToSet(top) \cup {blk[t]}
  BY <1>5 DEF IInv, TypeOK, ToSet
<1> HIDE DEF s
<1>9. TypeOK' /\ NoFault'
  BY <1>1, <1>2, <1>5, <1>6 DEF IInv, TypeOK, NoFault, Labels, Step, NoBlock
<1>10. /\ Those({"grow", "push"})' = Those({"grow", "push"}) \ {t}
       /\ \A u \in Threads \ {t} : blk'[u] = blk[u]
       /\ blk'[t] = NoBlock
  BY <1>1 DEF Those, Step, IInv, TypeOK
<1>11. OneOwner'
  <2>1. ToSet(s) \cap inUse = {}
    BY <1>4, <1>8 DEF IInv, OneOwner
  <2>2. \A u \in Those({"grow", "push"}) \ {t} : blk[u] # blk[t]
    BY <1>2 DEF IInv, OneOwner
  <2>3. \A u \in Those({"grow", "push"}) \ {t} : blk'[u] = blk[u]
    BY <1>10 DEF Those
  <2>4. \A u \in Those({"grow", "push"}) \ {t} : blk'[u] \notin ToSet(s) \cup inUse
    BY <1>8, <2>2, <2>3 DEF IInv, OneOwner
  <2>5. \A u, v \in Those({"grow", "push"}) \ {t} : u # v => blk'[u] # blk'[v]
    BY <2>3 DEF IInv, OneOwner
  <2>6. inUse' = inUse
    OBVIOUS
  <2> HIDE DEF Push
  <2> QED
    BY <1>6, <1>7, <1>10, <2>1, <2>4, <2>5, <2>6 DEF OneOwner
<1>12. Accounted'
  <2>1. /\ UNCHANGED <<BlockCount, AllocCount, inUse, start, failed>>
        /\ Len(top)' = Len(top) + 1
    BY <1>5, <1>6
  <2>2. Cardinality(inUse) \in Nat /\ start \in Nat /\ failed \in Nat
    BY InUseFinite DEF IInv, TypeOK
  <2> HIDE DEF Push
  <2> QED
    BY <1>3, <1>5, <2>1, <2>2 DEF IInv, Accounted, Counting
<1>13. Made'
  <2>1. ToSet(s) \subseteq 1 .. made
    BY <1>4, <1>8 DEF IInv, Made
  <2>2. \A u \in Threads : blk'[u] \in 0 .. made
    BY <1>10 DEF IInv, Made, NoBlock, TypeOK
  <2>3. \A u \in Those({"grow", "push"}) \ {t} : blk'[u] # NoBlock
    BY <1>10 DEF IInv, Made, Those
  <2> QED
    BY <1>6, <1>10, <2>1, <2>2, <2>3 DEF IInv, Made
<1>14. Seen'
  BY DEF IInv, Seen
<1>15. EnoughFree'
  BY <1>3, <1>5, <1>6 DEF IInv, EnoughFree
<1> QED
  BY <1>9, <1>11, <1>12, <1>13, <1>14, <1>15 DEF IInv

LEMMA UncountIInv == ASSUME IInv, NEW t \in Threads, Uncount(t) PROVE IInv'
<1> USE DEF Uncount
<1>1. Step(t, "uncount", "idle")
  OBVIOUS
<1>2. pc' \in [Threads -> Labels]
  BY <1>1, StepNumbers DEF Labels
<1>3. /\ Number(Counting)' = Number(Counting) - 1 /\ Number({"push"})' = Number({"push"})
      /\ Number({"pop"})' = Number({"pop"}) /\ Number(Counting) \in Nat /\ Number(Counting) >= 1
  BY <1>1, StepNumbers DEF Labels, Counting
<1>4. Cardinality(inUse) \in Nat
  BY InUseFinite
<1>5. AllocCount >= 1
  BY <1>3, <1>4 DEF IInv, TypeOK, Accounted, Counting
<1>6. TypeOK' /\ NoFault'
  BY <1>1, <1>2, <1>5 DEF IInv, TypeOK, NoFault, Labels, Step
<1>7. OneOwner'
  BY <1>1 DEF IInv, TypeOK, OneOwner, Those, Step, IsInjective, ToSet
<1>8. Accounted'
  BY <1>3, <1>4 DEF IInv, TypeOK, Accounted, Counting
<1>9. Made' /\ Seen' /\ EnoughFree'
  BY <1>1, <1>3 DEF IInv, TypeOK, Made, Seen, EnoughFree, ToSet, Those, Step
<1> QED
  BY <1>6, <1>7, <1>8, <1>9 DEF IInv

LEMMA NextIInv == IInv /\ [Next]_vars => IInv'
<1> SUFFICES ASSUME IInv, [Next]_vars PROVE IInv'
  OBVIOUS
<1>1. CASE UNCHANGED vars
  BY <1>1 DEF vars, IInv, TypeOK, NoFault, OneOwner, Accounted, Made, Seen, EnoughFree,
              Those, Number, IsInjective, ToSet
<1>2. ASSUME NEW t \in Threads, Alloc(t) PROVE IInv'
  BY <1>2, ReadIInv, CountIInv, CheckIInv, MallocIInv, GrowIInv, PopIInv DEF Alloc
<1>3. ASSUME NEW t \in Threads, Release(t) PROVE IInv'
  BY <1>3, FreeIInv, PushIInv, UncountIInv DEF Release
<1> QED
  BY <1>1, <1>2, <1>3 DEF Next

THEOREM Invariance == Spec => []IInv
BY InitIInv, NextIInv, PTL DEF Spec

\* Types hold for every number of threads; m_iAllocCount is never below zero.
THEOREM TypeCorrect == Spec => []TypeOK
<1>1. IInv => TypeOK
  BY DEF IInv
<1> QED
  BY <1>1, Invariance, PTL

\* Alloc never follows a NULL _pTop, although it decides to use the list before it
\* takes the lock: the counters it compares leave a block for every such thread.
THEOREM NeverFollowsNull == Spec => []NoFault
<1>1. IInv => NoFault
  BY DEF IInv
<1> QED
  BY <1>1, Invariance, PTL

\* No block is handed out twice, and none is both in use and in the free list.
THEOREM BlocksHaveOneOwner == Spec => []OneOwner
<1>1. IInv => OneOwner
  BY DEF IInv
<1> QED
  BY <1>1, Invariance, PTL

\* The two counters account for every block and every thread on its way.
THEOREM CountersAccount == Spec => []Accounted
<1>1. IInv => Accounted
  BY DEF IInv
<1> QED
  BY <1>1, Invariance, PTL
=============================================================================
