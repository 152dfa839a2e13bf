------------------------ MODULE LockFreeStackProofs ------------------------
(***************************************************************************)
(* CStack_LF is a stack, for any number of threads, nodes and values: the  *)
(* exchange succeeds only if the top has not changed since its unique      *)
(* number was read, so what was read after that still holds.  So it        *)
(* implements StackSpec: each of its steps is a step of one call of the    *)
(* abstract stack, or none.                                                *)
(***************************************************************************)
EXTENDS LockFreeStack, SequenceTheorems, TLAPS

-----------------------------------------------------------------------------
(* The inductive invariant *)

OnStack(n) == \E i \in 1 .. Len(stack) : stack[i] = n

\* The stack the nodes are linked to is the one they were pushed on.
Listed ==
  /\ top.node = IF stack = <<>> THEN Null ELSE stack[1]
  /\ \A i \in 1 .. Len(stack) :
       pNext[stack[i]] = IF i < Len(stack) THEN stack[i + 1] ELSE Null
  /\ \A i, j \in 1 .. Len(stack) : stack[i] = stack[j] => i = j

Taking == {"shrink", "shrunk", "getData", "give"}
Holding == {"pushId", "pushUnique", "pushNode", "link", "pushSwap"} \cup Taking

\* A node is in the pool, on the stack or with one thread.
OwnedBy(t) ==
  st[t].at \in Holding =>
    /\ st[t].node \in Nodes
    /\ st[t].node \notin pool
    /\ ~ OnStack(st[t].node)
    /\ \A u \in Threads \ {t} : st[u].at \in Holding => st[u].node # st[t].node
    /\ st[t].at \in Taking => st[t].preNode = st[t].node

Owned == (\A n \in pool : ~ OnStack(n)) /\ \A t \in Threads : OwnedBy(t)

Looking == {"second", "live", "next", "popSwap"}
Popping == {"popNode", "popUnique"} \cup Looking
Numbered == {"pushUnique", "pushNode", "link", "pushSwap"} \cup Popping

\* The number of a thread that has not made its exchange is no top's, past or present.
FreshFor(t) ==
  /\ st[t].preUnique <= unique /\ st[t].id <= unique
  /\ st[t].at \in Numbered =>
       /\ 0 < st[t].id /\ st[t].id # top.unique
       /\ \A u \in Threads : st[u].preUnique # st[t].id
       /\ \A u \in Threads \ {t} : st[u].at \in Numbered => st[u].id # st[t].id

Fresh == top.unique <= unique /\ \A t \in Threads : FreshFor(t)

\* The top still has the number t has read.
Still(t) == st[t].preUnique = top.unique

\* What a thread has read since it read the number holds if the top still has it.
CurrentFor(t) ==
  /\ st[t].at = "pushSwap" => Data[st[t].node] = st[t].val
  /\ st[t].at = "pushSwap" /\ Still(t) => pNext[st[t].node] = top.node
  /\ st[t].at \in Looking => st[t].preNode \in Nodes
  /\ st[t].at \in {"live", "next", "popSwap"} /\ Still(t) => st[t].node = top.node
  /\ st[t].at = "next" => st[t].live \in Nodes
  /\ st[t].at = "next" /\ Still(t) => st[t].live = top.node
  /\ st[t].at = "popSwap" /\ Still(t) /\ stack # <<>> => st[t].live = pNext[stack[1]]

Current == \A t \in Threads : CurrentFor(t)

\* A lone popper that has seen a node finds one when it looks again.
LoneFor(t) ==
  /\ st[t].at \in Popping => t \in poppers
  /\ LonePopper =>
       /\ st[t].at # "fault"
       /\ st[t].at \in {"second", "live"} => stack # <<>>
       /\ st[t].at = "popUnique" /\ st[t].preNode # Null => stack # <<>>

Lone == \A t \in Threads : LoneFor(t)

SInv == StackTypeOK /\ Listed /\ Owned /\ Fresh /\ Current /\ Lone

-----------------------------------------------------------------------------
(* Every step preserves it *)

LEMMA InitSInv == StackInit => SInv
BY NullIsNoNode DEF StackInit, SInv, StackTypeOK, Listed, Owned, OwnedBy, Fresh, FreshFor,
  Current, CurrentFor, Lone, LoneFor, OnStack, Outside, StackPlaces, Taking, Holding, Looking,
  Popping, Numbered, Still, LonePopper

\* What a step of t does to its locals, field by field.
Locally(t, from, to, id, preNode, preUnique, node, live, val) ==
  /\ st[t].at = from /\ st'[t].at = to
  /\ st'[t].id = id /\ st'[t].preNode = preNode /\ st'[t].preUnique = preUnique
  /\ st'[t].node = node /\ st'[t].live = live /\ st'[t].val = val
  /\ \A u \in Threads \ {t} : st'[u] = st[u]

\* The locals of a thread, and the types of what the steps read and write.
Locals ==
  [at : StackPlaces, id : Nat, preNode : Nodes \cup {Null}, preUnique : Nat,
   node : Nodes \cup {Null}, live : Nodes \cup {Null}, val : Values \cup {NoValue}, size : Int]

Counted ==
  /\ top.unique \in Nat /\ unique \in Nat /\ top.unique <= unique
  /\ \A t \in Threads : st[t].id \in Nat /\ st[t].preUnique \in Nat

Shared ==
  /\ Counted
  /\ top.node \in Nodes \cup {Null}
  /\ stack \in Seq(Nodes) /\ useSize \in Int
  /\ pNext \in [Nodes -> Nodes \cup {Null}] /\ Data \in [Nodes -> Values \cup {NoValue}]
  /\ st \in [Threads -> Locals]

LEMMA SharedTyped == ASSUME SInv PROVE Shared
BY DEF SInv, StackTypeOK, Shared, Counted, Locals, Fresh

\* The parts of the invariant that are about one thread.
ForAll(w) == OwnedBy(w) /\ FreshFor(w) /\ CurrentFor(w) /\ LoneFor(w)

LEMMA SInvForAll == ASSUME SInv, NEW w \in Threads PROVE ForAll(w)
BY DEF SInv, Owned, Fresh, Current, Lone, ForAll

\* The invariant from its parts.
LEMMA Together ==
  ASSUME StackTypeOK', Listed', \A n \in pool' : ~ OnStack(n)', (top.unique <= unique)',
         \A w \in Threads : ForAll(w)'
  PROVE  SInv'
BY DEF SInv, Owned, Fresh, Current, Lone, ForAll

LEMMA StepTyped ==
  ASSUME Shared, NEW t \in Threads, NEW from, NEW new \in Locals, Step(t, from, new)
  PROVE  /\ st[t].at = from /\ st[t] \in Locals
         /\ st' \in [Threads -> Locals] /\ st'[t] = new
         /\ \A u \in Threads \ {t} : st'[u] = st[u]
BY DEF Shared, Step

-----------------------------------------------------------------------------
LEMMA PushAllocKeeps == ASSUME SInv, NEW t \in Threads, PushAlloc(t) PROVE SInv'
<1> USE NullIsNoNode DEF Locally, Holding, Taking, Looking, Popping, Numbered
<1>1. Shared /\ ForAll(t) /\ st[t] \in Locals BY SharedTyped, SInvForAll DEF Shared
<1>2. PICK n \in pool, v \in Values :
        /\ Step(t, "out", [Outside EXCEPT !.at = "pushId", !.node = n, !.val = v])
        /\ pool' = pool \ {n}
  BY DEF PushAlloc
<1>3. UNCHANGED <<poppers, top, stack, unique, useSize, pNext, Data>> BY DEF PushAlloc
<1>4. n \in Nodes /\ ~ OnStack(n) BY DEF SInv, StackTypeOK, Owned
<1>5. [Outside EXCEPT !.at = "pushId", !.node = n, !.val = v] \in Locals
  <2>1. Outside \in Locals BY DEF Outside, Locals, StackPlaces
  <2>2. "pushId" \in StackPlaces BY DEF StackPlaces
  <2> QED BY <1>4, <2>1, <2>2 DEF Locals
<1>6. /\ st[t].at = "out" /\ st' \in [Threads -> Locals]
      /\ st'[t] = [Outside EXCEPT !.at = "pushId", !.node = n, !.val = v]
      /\ \A u \in Threads \ {t} : st'[u] = st[u]
  BY <1>1, <1>2, <1>5, StepTyped
<1>7. Locally(t, "out", "pushId", 0, Null, 0, n, Null, v)
  BY <1>1, <1>6 DEF Locals, Outside
<1>8. StackTypeOK' BY <1>2, <1>3, <1>6 DEF SInv, StackTypeOK, Locals
<1>9. Listed' /\ \A m \in pool' : ~ OnStack(m)'
  BY <1>2, <1>3 DEF SInv, Listed, Owned, OnStack
<1>10. (top.unique <= unique)' BY <1>1, <1>3 DEF Shared, Counted
<1>11. ASSUME NEW w \in Threads PROVE ForAll(w)'
  <2>1. ForAll(w) /\ st[w] \in Locals BY <1>1, SInvForAll DEF Shared
  <2>2. OwnedBy(w)'
    <3>1. \A u \in Threads : OwnedBy(u) BY DEF SInv, Owned
    <3>2. CASE w = t
      BY <3>1, <3>2, <1>2, <1>3, <1>4, <1>7 DEF OwnedBy, OnStack
    <3>3. CASE w # t
      BY <3>1, <3>3, <1>2, <1>3, <1>4, <1>7 DEF OwnedBy, OnStack
    <3> QED BY <3>2, <3>3
  <2>3. FreshFor(w)'
    <3>1. Counted /\ \A u \in Threads : FreshFor(u) BY <1>1 DEF Shared, SInv, Fresh
    <3>2. CASE w = t
      BY <3>1, <3>2, <1>3, <1>7 DEF FreshFor, Counted
    <3>3. CASE w # t
      BY <3>1, <3>3, <1>3, <1>7 DEF FreshFor, Counted
    <3> QED BY <3>2, <3>3
  <2>4. CurrentFor(w)'
    <3>1. CASE w = t BY <3>1, <1>7 DEF CurrentFor
    <3>2. CASE w # t BY <3>2, <1>3, <1>7, <2>1 DEF ForAll, CurrentFor, Still
    <3> QED BY <3>1, <3>2
  <2>5. LoneFor(w)'
    BY <1>3, <1>7, <2>1 DEF ForAll, LoneFor, LonePopper
  <2> QED BY <2>2, <2>3, <2>4, <2>5 DEF ForAll
<1> QED BY <1>8, <1>9, <1>10, <1>11, Together

LEMMA PushIdKeeps == ASSUME SInv, NEW t \in Threads, PushId(t) PROVE SInv'
<1> USE NullIsNoNode DEF Locally, Holding, Taking, Looking, Popping, Numbered
<1>1. Shared /\ ForAll(t) /\ st[t] \in Locals BY SharedTyped, SInvForAll DEF Shared
<1>2. unique' = unique + 1 /\ UNCHANGED <<poppers, top, stack, pNext, Data, pool>>
  BY DEF PushId, TakeId
<1>3. Step(t, "pushId", [st[t] EXCEPT !.at = "pushUnique", !.id = unique + 1])
  BY DEF PushId, TakeId
<1>4. unique + 1 \in Nat BY <1>1, <1>3 DEF Shared, Counted
<1>5. [st[t] EXCEPT !.at = "pushUnique", !.id = unique + 1] \in Locals
  BY <1>4, <1>1, <1>2 DEF Shared, Counted, Locals, StackPlaces
<1>6. /\ st[t].at = "pushId" /\ st' \in [Threads -> Locals]
      /\ st'[t] = [st[t] EXCEPT !.at = "pushUnique", !.id = unique + 1]
      /\ \A u \in Threads \ {t} : st'[u] = st[u]
  BY <1>1, <1>3, <1>5, StepTyped
<1>7. Locally(t, "pushId", "pushUnique", unique + 1, st[t].preNode, st[t].preUnique, st[t].node,
              st[t].live, st[t].val)
  BY <1>1, <1>6 DEF Locals
<1>8. StackTypeOK'
  BY <1>4, <1>1, <1>2, <1>6 DEF PushId, TakeId, SInv, StackTypeOK, Shared, Counted, Locals
<1>9. Listed' /\ \A n \in pool' : ~ OnStack(n)'
  BY <1>1, <1>2, <1>7 DEF SInv, Listed, Owned, OwnedBy, OnStack, ForAll, Shared
<1>10. (top.unique <= unique)' BY <1>1, <1>2 DEF Shared, Counted
<1>11. ASSUME NEW w \in Threads PROVE ForAll(w)'
  <2>1. ForAll(w) /\ st[w] \in Locals BY <1>1, SInvForAll DEF Shared
  <2>2. OwnedBy(w)' BY <1>1, <1>2, <1>7, <2>1 DEF ForAll, OwnedBy, OnStack, CurrentFor
  <2>3. FreshFor(w)'
    <3>1. Counted /\ \A u \in Threads : FreshFor(u) BY <1>1 DEF Shared, SInv, Fresh
    <3>2. CASE w = t BY <3>1, <3>2, <1>2, <1>7 DEF FreshFor, Counted
    <3>3. CASE w # t BY <3>1, <3>3, <1>2, <1>7 DEF FreshFor, Counted
    <3> QED BY <3>2, <3>3
  <2>4. CurrentFor(w)'
    <3>1. CASE w = t
      BY <3>1, <1>4, <1>1, <1>2, <1>7, <2>1
      DEF ForAll, CurrentFor, Still, OwnedBy, OnStack, Shared, Locals, FreshFor
    <3>2. CASE w # t
      BY <3>2, <1>4, <1>1, <1>2, <1>7, <2>1
      DEF ForAll, CurrentFor, Still, OwnedBy, OnStack, Shared, Locals, FreshFor
    <3> QED BY <3>1, <3>2
  <2>5. LoneFor(w)'
    BY <1>1, <1>2, <1>7, <2>1 DEF ForAll, LoneFor, LonePopper, SInv, Listed, Shared
  <2> QED BY <2>2, <2>3, <2>4, <2>5 DEF ForAll
<1> QED BY <1>8, <1>9, <1>10, <1>11, Together

LEMMA PushUniqueKeeps == ASSUME SInv, NEW t \in Threads, PushUnique(t) PROVE SInv'
<1> USE NullIsNoNode DEF Locally, Holding, Taking, Looking, Popping, Numbered
<1>1. Shared /\ ForAll(t) /\ st[t] \in Locals BY SharedTyped, SInvForAll DEF Shared
<1>2. UNCHANGED <<poppers, top, stack, unique, pNext, Data, pool>>
  BY DEF PushUnique, Load
<1>3. Step(t, "pushUnique", [st[t] EXCEPT !.at = "pushNode", !.preUnique = top.unique])
  BY DEF PushUnique, Load
<1>4. [st[t] EXCEPT !.at = "pushNode", !.preUnique = top.unique] \in Locals
  BY <1>1, <1>2 DEF Shared, Counted, Locals, StackPlaces
<1>5. /\ st[t].at = "pushUnique" /\ st' \in [Threads -> Locals]
      /\ st'[t] = [st[t] EXCEPT !.at = "pushNode", !.preUnique = top.unique]
      /\ \A u \in Threads \ {t} : st'[u] = st[u]
  BY <1>1, <1>3, <1>4, StepTyped
<1>6. Locally(t, "pushUnique", "pushNode", st[t].id, st[t].preNode, top.unique, st[t].node,
              st[t].live, st[t].val)
  BY <1>1, <1>5 DEF Locals
<1>7. StackTypeOK'
  BY <1>1, <1>2, <1>5 DEF PushUnique, Load, SInv, StackTypeOK, Shared, Counted, Locals
<1>8. Listed' /\ \A n \in pool' : ~ OnStack(n)'
  BY <1>1, <1>2, <1>6 DEF SInv, Listed, Owned, OwnedBy, OnStack, ForAll, Shared
<1>9. (top.unique <= unique)' BY <1>1, <1>2 DEF Shared, Counted
<1>10. ASSUME NEW w \in Threads PROVE ForAll(w)'
  <2>1. ForAll(w) /\ st[w] \in Locals BY <1>1, SInvForAll DEF Shared
  <2>2. OwnedBy(w)' BY <1>1, <1>2, <1>6, <2>1 DEF ForAll, OwnedBy, OnStack, CurrentFor
  <2>3. FreshFor(w)'
    <3>1. Counted /\ \A u \in Threads : FreshFor(u) BY <1>1 DEF Shared, SInv, Fresh
    <3>2. CASE w = t BY <3>1, <3>2, <1>2, <1>6 DEF FreshFor, Counted
    <3>3. CASE w # t BY <3>1, <3>3, <1>2, <1>6 DEF FreshFor, Counted
    <3> QED BY <3>2, <3>3
  <2>4. CurrentFor(w)'
    <3>1. CASE w = t
      BY <3>1, <1>1, <1>2, <1>6, <2>1
      DEF ForAll, CurrentFor, Still, OwnedBy, OnStack, Shared, Locals, FreshFor
    <3>2. CASE w # t
      BY <3>2, <1>1, <1>2, <1>6, <2>1
      DEF ForAll, CurrentFor, Still, OwnedBy, OnStack, Shared, Locals, FreshFor
    <3> QED BY <3>1, <3>2
  <2>5. LoneFor(w)'
    BY <1>1, <1>2, <1>6, <2>1 DEF ForAll, LoneFor, LonePopper, SInv, Listed, Shared
  <2> QED BY <2>2, <2>3, <2>4, <2>5 DEF ForAll
<1> QED BY <1>7, <1>8, <1>9, <1>10, Together

LEMMA PushNodeKeeps == ASSUME SInv, NEW t \in Threads, PushNode(t) PROVE SInv'
<1> USE NullIsNoNode DEF Locally, Holding, Taking, Looking, Popping, Numbered
<1>1. Shared /\ ForAll(t) /\ st[t] \in Locals BY SharedTyped, SInvForAll DEF Shared
<1>2. UNCHANGED <<poppers, top, stack, unique, pNext, Data, pool>>
  BY DEF PushNode, Load
<1>3. Step(t, "pushNode", [st[t] EXCEPT !.at = "link", !.preNode = top.node])
  BY DEF PushNode, Load
<1>4. [st[t] EXCEPT !.at = "link", !.preNode = top.node] \in Locals
  BY <1>1, <1>2 DEF Shared, Counted, Locals, StackPlaces
<1>5. /\ st[t].at = "pushNode" /\ st' \in [Threads -> Locals]
      /\ st'[t] = [st[t] EXCEPT !.at = "link", !.preNode = top.node]
      /\ \A u \in Threads \ {t} : st'[u] = st[u]
  BY <1>1, <1>3, <1>4, StepTyped
<1>6. Locally(t, "pushNode", "link", st[t].id, top.node, st[t].preUnique, st[t].node, st[t].live,
              st[t].val)
  BY <1>1, <1>5 DEF Locals
<1>7. StackTypeOK'
  BY <1>1, <1>2, <1>5 DEF PushNode, Load, SInv, StackTypeOK, Shared, Counted, Locals
<1>8. Listed' /\ \A n \in pool' : ~ OnStack(n)'
  BY <1>1, <1>2, <1>6 DEF SInv, Listed, Owned, OwnedBy, OnStack, ForAll, Shared
<1>9. (top.unique <= unique)' BY <1>1, <1>2 DEF Shared, Counted
<1>10. ASSUME NEW w \in Threads PROVE ForAll(w)'
  <2>1. ForAll(w) /\ st[w] \in Locals BY <1>1, SInvForAll DEF Shared
  <2>2. OwnedBy(w)' BY <1>1, <1>2, <1>6, <2>1 DEF ForAll, OwnedBy, OnStack, CurrentFor
  <2>3. FreshFor(w)'
    <3>1. Counted /\ \A u \in Threads : FreshFor(u) BY <1>1 DEF Shared, SInv, Fresh
    <3>2. CASE w = t BY <3>1, <3>2, <1>2, <1>6 DEF FreshFor, Counted
    <3>3. CASE w # t BY <3>1, <3>3, <1>2, <1>6 DEF FreshFor, Counted
    <3> QED BY <3>2, <3>3
  <2>4. CurrentFor(w)'
    <3>1. CASE w = t
      BY <3>1, <1>1, <1>2, <1>6, <2>1
      DEF ForAll, CurrentFor, Still, OwnedBy, OnStack, Shared, Locals, FreshFor
    <3>2. CASE w # t
      BY <3>2, <1>1, <1>2, <1>6, <2>1
      DEF ForAll, CurrentFor, Still, OwnedBy, OnStack, Shared, Locals, FreshFor
    <3> QED BY <3>1, <3>2
  <2>5. LoneFor(w)'
    BY <1>1, <1>2, <1>6, <2>1 DEF ForAll, LoneFor, LonePopper, SInv, Listed, Shared
  <2> QED BY <2>2, <2>3, <2>4, <2>5 DEF ForAll
<1> QED BY <1>7, <1>8, <1>9, <1>10, Together

LEMMA LinkKeeps == ASSUME SInv, NEW t \in Threads, Link(t) PROVE SInv'
<1> USE NullIsNoNode DEF Locally, Holding, Taking, Looking, Popping, Numbered
<1>1. Shared /\ ForAll(t) /\ st[t] \in Locals BY SharedTyped, SInvForAll DEF Shared
<1>2. /\ Data' = [Data EXCEPT ![st[t].node] = st[t].val]
      /\ pNext' = [pNext EXCEPT ![st[t].node] = top.node]
      /\ UNCHANGED <<poppers, top, stack, unique, pool>>
  BY DEF Link
<1>3. Step(t, "link", [st[t] EXCEPT !.at = "pushSwap"])
  BY DEF Link
<1>4. [st[t] EXCEPT !.at = "pushSwap"] \in Locals
  BY <1>1, <1>2 DEF Shared, Counted, Locals, StackPlaces
<1>5. /\ st[t].at = "link" /\ st' \in [Threads -> Locals]
      /\ st'[t] = [st[t] EXCEPT !.at = "pushSwap"]
      /\ \A u \in Threads \ {t} : st'[u] = st[u]
  BY <1>1, <1>3, <1>4, StepTyped
<1>6. Locally(t, "link", "pushSwap", st[t].id, st[t].preNode, st[t].preUnique, st[t].node,
              st[t].live, st[t].val)
  BY <1>1, <1>5 DEF Locals
<1>7. StackTypeOK' BY <1>1, <1>2, <1>5 DEF Link, SInv, StackTypeOK, Shared, Counted, Locals
<1>8. Listed' /\ \A n \in pool' : ~ OnStack(n)'
  BY <1>1, <1>2, <1>6 DEF SInv, Listed, Owned, OwnedBy, OnStack, ForAll, Shared
<1>9. (top.unique <= unique)' BY <1>1, <1>2 DEF Shared, Counted
<1>10. ASSUME NEW w \in Threads PROVE ForAll(w)'
  <2>1. ForAll(w) /\ st[w] \in Locals BY <1>1, SInvForAll DEF Shared
  <2>2. OwnedBy(w)' BY <1>1, <1>2, <1>6, <2>1 DEF ForAll, OwnedBy, OnStack, CurrentFor
  <2>3. FreshFor(w)'
    <3>1. Counted /\ \A u \in Threads : FreshFor(u) BY <1>1 DEF Shared, SInv, Fresh
    <3>2. CASE w = t BY <3>1, <3>2, <1>2, <1>6 DEF FreshFor, Counted
    <3>3. CASE w # t BY <3>1, <3>3, <1>2, <1>6 DEF FreshFor, Counted
    <3> QED BY <3>2, <3>3
  <2>4. CurrentFor(w)'
    <3>1. CASE w = t
      BY <3>1, <1>1, <1>2, <1>6, <2>1
      DEF ForAll, CurrentFor, Still, OwnedBy, OnStack, Shared, Locals, FreshFor
    <3>2. CASE w # t
      BY <3>2, <1>1, <1>2, <1>6, <2>1
      DEF ForAll, CurrentFor, Still, OwnedBy, OnStack, Shared, Locals, FreshFor
    <3> QED BY <3>1, <3>2
  <2>5. LoneFor(w)'
    BY <1>1, <1>2, <1>6, <2>1 DEF ForAll, LoneFor, LonePopper, SInv, Listed, Shared
  <2> QED BY <2>2, <2>3, <2>4, <2>5 DEF ForAll
<1> QED BY <1>7, <1>8, <1>9, <1>10, Together

LEMMA PushSwapRetryKeeps == ASSUME SInv, NEW t \in Threads, PushSwap(t), ~ Same(t) PROVE SInv'
<1> USE NullIsNoNode DEF Locally, Holding, Taking, Looking, Popping, Numbered
<1>1. Shared /\ ForAll(t) /\ st[t] \in Locals BY SharedTyped, SInvForAll DEF Shared
<1>2. UNCHANGED <<poppers, top, stack, unique, pNext, Data, pool>>
  BY DEF PushSwap, Swap
<1>3. Step(t, "pushSwap", [st[t] EXCEPT !.at = "pushUnique"])
  BY DEF PushSwap, Swap
<1>4. [st[t] EXCEPT !.at = "pushUnique"] \in Locals
  BY <1>1, <1>2 DEF Shared, Counted, Locals, StackPlaces
<1>5. /\ st[t].at = "pushSwap" /\ st' \in [Threads -> Locals]
      /\ st'[t] = [st[t] EXCEPT !.at = "pushUnique"]
      /\ \A u \in Threads \ {t} : st'[u] = st[u]
  BY <1>1, <1>3, <1>4, StepTyped
<1>6. Locally(t, "pushSwap", "pushUnique", st[t].id, st[t].preNode, st[t].preUnique, st[t].node,
              st[t].live, st[t].val)
  BY <1>1, <1>5 DEF Locals
<1>7. StackTypeOK'
  BY <1>1, <1>2, <1>5 DEF PushSwap, Swap, SInv, StackTypeOK, Shared, Counted, Locals
<1>8. Listed' /\ \A n \in pool' : ~ OnStack(n)'
  BY <1>1, <1>2, <1>6 DEF SInv, Listed, Owned, OwnedBy, OnStack, ForAll, Shared
<1>9. (top.unique <= unique)' BY <1>1, <1>2 DEF Shared, Counted
<1>10. ASSUME NEW w \in Threads PROVE ForAll(w)'
  <2>1. ForAll(w) /\ st[w] \in Locals BY <1>1, SInvForAll DEF Shared
  <2>2. OwnedBy(w)' BY <1>1, <1>2, <1>6, <2>1 DEF ForAll, OwnedBy, OnStack, CurrentFor
  <2>3. FreshFor(w)'
    <3>1. Counted /\ \A u \in Threads : FreshFor(u) BY <1>1 DEF Shared, SInv, Fresh
    <3>2. CASE w = t BY <3>1, <3>2, <1>2, <1>6 DEF FreshFor, Counted
    <3>3. CASE w # t BY <3>1, <3>3, <1>2, <1>6 DEF FreshFor, Counted
    <3> QED BY <3>2, <3>3
  <2>4. CurrentFor(w)'
    <3>1. CASE w = t
      BY <3>1, <1>1, <1>2, <1>6, <2>1
      DEF ForAll, CurrentFor, Still, OwnedBy, OnStack, Shared, Locals, FreshFor
    <3>2. CASE w # t
      BY <3>2, <1>1, <1>2, <1>6, <2>1
      DEF ForAll, CurrentFor, Still, OwnedBy, OnStack, Shared, Locals, FreshFor
    <3> QED BY <3>1, <3>2
  <2>5. LoneFor(w)'
    BY <1>1, <1>2, <1>6, <2>1 DEF ForAll, LoneFor, LonePopper, SInv, Listed, Shared
  <2> QED BY <2>2, <2>3, <2>4, <2>5 DEF ForAll
<1> QED BY <1>7, <1>8, <1>9, <1>10, Together

LEMMA PushSwapDoneKeeps == ASSUME SInv, NEW t \in Threads, PushSwap(t), Same(t) PROVE SInv'
<1> USE NullIsNoNode DEF Locally, Holding, Taking, Looking, Popping, Numbered
<1>0. PICK n : n = st[t].node OBVIOUS
<1>1. Shared /\ ForAll(t) /\ st[t] \in Locals BY SharedTyped, SInvForAll DEF Shared
<1>2. /\ top' = [node |-> n, unique |-> st[t].id] /\ stack' = <<n>> \o stack
      /\ UNCHANGED <<poppers, unique, useSize, pNext, Data, pool>>
      /\ Step(t, "pushSwap", [st[t] EXCEPT !.at = "grow"])
      /\ top'.node = n /\ top'.unique = st[t].id
  BY <1>0 DEF PushSwap, Swap
<1>3. [st[t] EXCEPT !.at = "grow"] \in Locals BY <1>1 DEF Locals, StackPlaces
<1>4. /\ st[t].at = "pushSwap" /\ st' \in [Threads -> Locals]
      /\ st'[t] = [st[t] EXCEPT !.at = "grow"]
      /\ \A u \in Threads \ {t} : st'[u] = st[u]
  BY <1>1, <1>2, <1>3, StepTyped
<1>5. Locally(t, "pushSwap", "grow", st[t].id, st[t].preNode, st[t].preUnique, st[t].node,
              st[t].live, st[t].val)
  BY <1>1, <1>4 DEF Locals
<1>6. /\ n \in Nodes /\ n \notin pool /\ ~ OnStack(n) /\ pNext[n] = top.node
      /\ top.unique = st[t].preUnique
  BY <1>0, <1>1, <1>4 DEF ForAll, OwnedBy, CurrentFor, Still, Same
<1>7. StackTypeOK'
  <2>1. <<n>> \o stack \in Seq(Nodes) BY <1>1, <1>6 DEF Shared
  <2>2. [node |-> n, unique |-> st[t].id] \in [node : Nodes \cup {Null}, unique : Nat]
    BY <1>1, <1>6 DEF Shared, Counted
  <2> QED BY <2>1, <2>2, <1>2, <1>4 DEF SInv, StackTypeOK, Locals
<1>8. stack' \in Seq(Nodes) /\ Len(stack') = Len(stack) + 1 /\ stack'[1] = n
      /\ \A i \in 2 .. Len(stack) + 1 : stack'[i] = stack[i - 1]
  BY <1>1, <1>2, <1>6 DEF Shared
<1>9. \A m : OnStack(m)' <=> m = n \/ OnStack(m)
  <2>1. ASSUME NEW m, OnStack(m)' PROVE m = n \/ OnStack(m)
    <3>1. PICK i \in 1 .. Len(stack) + 1 : stack'[i] = m BY <1>8, <2>1 DEF OnStack
    <3>2. CASE i = 1 BY <1>8, <3>1, <3>2
    <3>3. CASE i # 1
      <4>1. i - 1 \in 1 .. Len(stack) /\ stack[i - 1] = m BY <1>1, <1>8, <3>1, <3>3 DEF Shared
      <4> QED BY <4>1 DEF OnStack
    <3> QED BY <3>2, <3>3
  <2>2. ASSUME NEW m, OnStack(m) PROVE OnStack(m)'
    <3>1. PICK i \in 1 .. Len(stack) : stack[i] = m BY <2>2 DEF OnStack
    <3>2. i + 1 \in 1 .. Len(stack') /\ stack'[i + 1] = m BY <1>1, <1>8, <3>1 DEF Shared
    <3> QED BY <3>2 DEF OnStack
  <2>3. OnStack(n)'
    <3>1. 1 \in 1 .. Len(stack') BY <1>1, <1>8 DEF Shared
    <3> QED BY <3>1, <1>8 DEF OnStack
  <2> QED BY <2>1, <2>2, <2>3
<1>10. Listed'
  <2> USE <1>1, <1>2, <1>6, <1>8 DEF Shared
  <2>0. Listed BY DEF SInv
  <2>1. (top.node = IF stack = <<>> THEN Null ELSE stack[1])' OBVIOUS
  <2>2. ASSUME NEW i \in 1 .. Len(stack')
        PROVE  pNext'[stack'[i]] = IF i < Len(stack') THEN stack'[i + 1] ELSE Null
    <3>1. CASE i = 1
      <4>1. CASE stack = <<>> BY <2>0, <3>1, <4>1 DEF Listed
      <4>2. CASE stack # <<>> BY <2>0, <3>1, <4>2 DEF Listed
      <4> QED BY <4>1, <4>2
    <3>2. CASE i # 1
      <4>1. /\ i - 1 \in 1 .. Len(stack) /\ stack'[i] = stack[i - 1]
            /\ i < Len(stack') => stack'[i + 1] = stack[i]
            /\ i < Len(stack') <=> i - 1 < Len(stack)
        BY <3>2
      <4> QED BY <2>0, <4>1 DEF Listed
    <3> QED BY <3>1, <3>2
  <2>3. ASSUME NEW i \in 1 .. Len(stack'), NEW j \in 1 .. Len(stack'), stack'[i] = stack'[j]
        PROVE  i = j
    <3>1. \A k \in 2 .. Len(stack) + 1 : k - 1 \in 1 .. Len(stack) /\ stack'[k] # n
      BY DEF OnStack
    <3> QED BY <2>0, <2>3, <3>1 DEF Listed
  <2> QED BY <2>1, <2>2, <2>3 DEF Listed
<1>11. \A m \in pool' : ~ OnStack(m)' BY <1>2, <1>6, <1>9 DEF SInv, Owned
<1>12. (top.unique <= unique)' BY <1>1, <1>2 DEF ForAll, FreshFor
<1>13. ASSUME NEW w \in Threads PROVE ForAll(w)'
  <2>1. ForAll(w) /\ st[w] \in Locals /\ (w # t => st[w].preUnique # st[t].id)
    BY <1>1, <1>4, SInvForAll DEF Shared, ForAll, FreshFor
  <2>2. OwnedBy(w)'
    <3>1. w # t /\ st[w].at \in Holding => st[w].node # n
      BY <1>0, <1>1, <1>4 DEF ForAll, OwnedBy
    <3>2. CASE w = t BY <3>2, <1>5 DEF OwnedBy
    <3>3. CASE w # t
      BY <3>1, <3>3, <1>2, <1>5, <1>9, <2>1 DEF ForAll, OwnedBy
    <3> QED BY <3>2, <3>3
  <2>3. FreshFor(w)'
    <3>1. Counted /\ \A u \in Threads : FreshFor(u) BY <1>1 DEF Shared, SInv, Fresh
    <3>2. CASE w = t
      <4>1. unique' = unique BY <1>2
      <4> QED BY <3>1, <3>2, <4>1, <1>5 DEF FreshFor
    <3>3. CASE w # t
      <4>1. st[w].at \in Numbered => st[w].id # st[t].id
        BY <3>1, <3>3, <1>5 DEF FreshFor
      <4>2. top'.unique = st[t].id /\ unique' = unique BY <1>2
      <4> QED BY <3>1, <3>3, <4>1, <4>2, <1>5 DEF FreshFor
    <3> QED BY <3>2, <3>3
  <2>4. CurrentFor(w)'
    <3>1. CASE w = t BY <3>1, <1>5 DEF CurrentFor
    <3>2. CASE w # t
      BY <3>2, <1>2, <1>5, <2>1 DEF ForAll, CurrentFor, Still
    <3> QED BY <3>1, <3>2
  <2>5. LoneFor(w)'
    <3>1. stack' # <<>> BY <1>1, <1>8 DEF Shared
    <3> QED BY <3>1, <1>2, <1>5, <2>1 DEF ForAll, LoneFor, LonePopper
  <2> QED BY <2>2, <2>3, <2>4, <2>5 DEF ForAll
<1> QED BY <1>7, <1>10, <1>11, <1>12, <1>13, Together

LEMMA GrowKeeps == ASSUME SInv, NEW t \in Threads, Grow(t) PROVE SInv'
<1> USE NullIsNoNode DEF Locally, Holding, Taking, Looking, Popping, Numbered
<1>1. Shared /\ ForAll(t) /\ st[t] \in Locals BY SharedTyped, SInvForAll DEF Shared
<1>2. UNCHANGED <<poppers, top, stack, unique, pNext, Data, pool>>
  BY DEF Grow, Load
<1>3. Step(t, "grow", [st[t] EXCEPT !.at = "grown", !.size = useSize])
  BY DEF Grow, Load
<1>4. [st[t] EXCEPT !.at = "grown", !.size = useSize] \in Locals
  BY <1>1, <1>2 DEF Shared, Counted, Locals, StackPlaces
<1>5. /\ st[t].at = "grow" /\ st' \in [Threads -> Locals]
      /\ st'[t] = [st[t] EXCEPT !.at = "grown", !.size = useSize]
      /\ \A u \in Threads \ {t} : st'[u] = st[u]
  BY <1>1, <1>3, <1>4, StepTyped
<1>6. Locally(t, "grow", "grown", st[t].id, st[t].preNode, st[t].preUnique, st[t].node,
              st[t].live, st[t].val)
  BY <1>1, <1>5 DEF Locals
<1>7. StackTypeOK' BY <1>1, <1>2, <1>5 DEF Grow, Load, SInv, StackTypeOK, Shared, Counted, Locals
<1>8. Listed' /\ \A n \in pool' : ~ OnStack(n)'
  BY <1>1, <1>2, <1>6 DEF SInv, Listed, Owned, OwnedBy, OnStack, ForAll, Shared
<1>9. (top.unique <= unique)' BY <1>1, <1>2 DEF Shared, Counted
<1>10. ASSUME NEW w \in Threads PROVE ForAll(w)'
  <2>1. ForAll(w) /\ st[w] \in Locals BY <1>1, SInvForAll DEF Shared
  <2>2. OwnedBy(w)' BY <1>1, <1>2, <1>6, <2>1 DEF ForAll, OwnedBy, OnStack, CurrentFor
  <2>3. FreshFor(w)'
    <3>1. Counted /\ \A u \in Threads : FreshFor(u) BY <1>1 DEF Shared, SInv, Fresh
    <3>2. CASE w = t BY <3>1, <3>2, <1>2, <1>6 DEF FreshFor, Counted
    <3>3. CASE w # t BY <3>1, <3>3, <1>2, <1>6 DEF FreshFor, Counted
    <3> QED BY <3>2, <3>3
  <2>4. CurrentFor(w)'
    <3>1. CASE w = t
      BY <3>1, <1>1, <1>2, <1>6, <2>1
      DEF ForAll, CurrentFor, Still, OwnedBy, OnStack, Shared, Locals, FreshFor
    <3>2. CASE w # t
      BY <3>2, <1>1, <1>2, <1>6, <2>1
      DEF ForAll, CurrentFor, Still, OwnedBy, OnStack, Shared, Locals, FreshFor
    <3> QED BY <3>1, <3>2
  <2>5. LoneFor(w)'
    BY <1>1, <1>2, <1>6, <2>1 DEF ForAll, LoneFor, LonePopper, SInv, Listed, Shared
  <2> QED BY <2>2, <2>3, <2>4, <2>5 DEF ForAll
<1> QED BY <1>7, <1>8, <1>9, <1>10, Together

LEMMA GrownKeeps == ASSUME SInv, NEW t \in Threads, Grown(t) PROVE SInv'
<1> USE NullIsNoNode DEF Locally, Holding, Taking, Looking, Popping, Numbered
<1>1. Shared /\ ForAll(t) /\ st[t] \in Locals BY SharedTyped, SInvForAll DEF Shared
<1>2. UNCHANGED <<poppers, top, stack, unique, pNext, Data, pool>>
  BY DEF Grown, StoreSize
<1>3. Step(t, "grown", Outside)
  BY DEF Grown, StoreSize
<1>4. Outside \in Locals BY <1>1, <1>2 DEF Shared, Counted, Locals, StackPlaces, Outside
<1>5. /\ st[t].at = "grown" /\ st' \in [Threads -> Locals] /\ st'[t] = Outside
      /\ \A u \in Threads \ {t} : st'[u] = st[u]
  BY <1>1, <1>3, <1>4, StepTyped
<1>6. Locally(t, "grown", "out", 0, Null, 0, Null, Null, NoValue)
  BY <1>1, <1>5 DEF Locals, Outside
<1>7. StackTypeOK'
  BY <1>1, <1>2, <1>5 DEF Grown, StoreSize, SInv, StackTypeOK, Shared, Counted, Locals
<1>8. Listed' /\ \A n \in pool' : ~ OnStack(n)'
  BY <1>1, <1>2, <1>6 DEF SInv, Listed, Owned, OwnedBy, OnStack, ForAll, Shared
<1>9. (top.unique <= unique)' BY <1>1, <1>2 DEF Shared, Counted
<1>10. ASSUME NEW w \in Threads PROVE ForAll(w)'
  <2>1. ForAll(w) /\ st[w] \in Locals BY <1>1, SInvForAll DEF Shared
  <2>2. OwnedBy(w)' BY <1>1, <1>2, <1>6, <2>1 DEF ForAll, OwnedBy, OnStack, CurrentFor
  <2>3. FreshFor(w)'
    <3>1. Counted /\ \A u \in Threads : FreshFor(u) BY <1>1 DEF Shared, SInv, Fresh
    <3>2. CASE w = t BY <3>1, <3>2, <1>2, <1>6 DEF FreshFor, Counted
    <3>3. CASE w # t BY <3>1, <3>3, <1>2, <1>6 DEF FreshFor, Counted
    <3> QED BY <3>2, <3>3
  <2>4. CurrentFor(w)'
    <3>1. CASE w = t
      BY <3>1, <1>1, <1>2, <1>6, <2>1
      DEF ForAll, CurrentFor, Still, OwnedBy, OnStack, Shared, Locals, FreshFor
    <3>2. CASE w # t
      BY <3>2, <1>1, <1>2, <1>6, <2>1
      DEF ForAll, CurrentFor, Still, OwnedBy, OnStack, Shared, Locals, FreshFor
    <3> QED BY <3>1, <3>2
  <2>5. LoneFor(w)'
    BY <1>1, <1>2, <1>6, <2>1 DEF ForAll, LoneFor, LonePopper, SInv, Listed, Shared
  <2> QED BY <2>2, <2>3, <2>4, <2>5 DEF ForAll
<1> QED BY <1>7, <1>8, <1>9, <1>10, Together

LEMMA PopIdKeeps == ASSUME SInv, NEW t \in Threads, PopId(t) PROVE SInv'
<1> USE NullIsNoNode DEF Locally, Holding, Taking, Looking, Popping, Numbered
<1>1. Shared /\ ForAll(t) /\ st[t] \in Locals BY SharedTyped, SInvForAll DEF Shared
<1>2. unique' = unique + 1 /\ t \in poppers /\ UNCHANGED <<poppers, top, stack, pNext, Data, pool>>
  BY DEF PopId, TakeId
<1>3. Step(t, "out", [st[t] EXCEPT !.at = "popNode", !.id = unique + 1])
  BY DEF PopId, TakeId
<1>4. unique + 1 \in Nat BY <1>1, <1>3 DEF Shared, Counted
<1>5. [st[t] EXCEPT !.at = "popNode", !.id = unique + 1] \in Locals
  BY <1>4, <1>1, <1>2 DEF Shared, Counted, Locals, StackPlaces
<1>6. /\ st[t].at = "out" /\ st' \in [Threads -> Locals]
      /\ st'[t] = [st[t] EXCEPT !.at = "popNode", !.id = unique + 1]
      /\ \A u \in Threads \ {t} : st'[u] = st[u]
  BY <1>1, <1>3, <1>5, StepTyped
<1>7. Locally(t, "out", "popNode", unique + 1, st[t].preNode, st[t].preUnique, st[t].node,
              st[t].live, st[t].val)
  BY <1>1, <1>6 DEF Locals
<1>8. StackTypeOK'
  BY <1>4, <1>1, <1>2, <1>6 DEF PopId, TakeId, SInv, StackTypeOK, Shared, Counted, Locals
<1>9. Listed' /\ \A n \in pool' : ~ OnStack(n)'
  BY <1>1, <1>2, <1>7 DEF SInv, Listed, Owned, OwnedBy, OnStack, ForAll, Shared
<1>10. (top.unique <= unique)' BY <1>1, <1>2 DEF Shared, Counted
<1>11. ASSUME NEW w \in Threads PROVE ForAll(w)'
  <2>1. ForAll(w) /\ st[w] \in Locals BY <1>1, SInvForAll DEF Shared
  <2>2. OwnedBy(w)' BY <1>1, <1>2, <1>7, <2>1 DEF ForAll, OwnedBy, OnStack, CurrentFor
  <2>3. FreshFor(w)'
    <3>1. Counted /\ \A u \in Threads : FreshFor(u) BY <1>1 DEF Shared, SInv, Fresh
    <3>2. CASE w = t BY <3>1, <3>2, <1>2, <1>7 DEF FreshFor, Counted
    <3>3. CASE w # t BY <3>1, <3>3, <1>2, <1>7 DEF FreshFor, Counted
    <3> QED BY <3>2, <3>3
  <2>4. CurrentFor(w)'
    <3>1. CASE w = t
      BY <3>1, <1>4, <1>1, <1>2, <1>7, <2>1
      DEF ForAll, CurrentFor, Still, OwnedBy, OnStack, Shared, Locals, FreshFor
    <3>2. CASE w # t
      BY <3>2, <1>4, <1>1, <1>2, <1>7, <2>1
      DEF ForAll, CurrentFor, Still, OwnedBy, OnStack, Shared, Locals, FreshFor
    <3> QED BY <3>1, <3>2
  <2>5. LoneFor(w)'
    BY <1>1, <1>2, <1>7, <2>1 DEF ForAll, LoneFor, LonePopper, SInv, Listed, Shared
  <2> QED BY <2>2, <2>3, <2>4, <2>5 DEF ForAll
<1> QED BY <1>8, <1>9, <1>10, <1>11, Together

LEMMA PopNodeKeeps == ASSUME SInv, NEW t \in Threads, PopNode(t) PROVE SInv'
<1> USE NullIsNoNode DEF Locally, Holding, Taking, Looking, Popping, Numbered
<1>1. Shared /\ ForAll(t) /\ st[t] \in Locals BY SharedTyped, SInvForAll DEF Shared
<1>2. UNCHANGED <<poppers, top, stack, unique, pNext, Data, pool>>
  BY DEF PopNode, Load
<1>3. Step(t, "popNode", [st[t] EXCEPT !.at = "popUnique", !.preNode = top.node])
  BY DEF PopNode, Load
<1>4. [st[t] EXCEPT !.at = "popUnique", !.preNode = top.node] \in Locals
  BY <1>1, <1>2 DEF Shared, Counted, Locals, StackPlaces
<1>5. /\ st[t].at = "popNode" /\ st' \in [Threads -> Locals]
      /\ st'[t] = [st[t] EXCEPT !.at = "popUnique", !.preNode = top.node]
      /\ \A u \in Threads \ {t} : st'[u] = st[u]
  BY <1>1, <1>3, <1>4, StepTyped
<1>6. Locally(t, "popNode", "popUnique", st[t].id, top.node, st[t].preUnique, st[t].node,
              st[t].live, st[t].val)
  BY <1>1, <1>5 DEF Locals
<1>7. StackTypeOK'
  BY <1>1, <1>2, <1>5 DEF PopNode, Load, SInv, StackTypeOK, Shared, Counted, Locals
<1>8. Listed' /\ \A n \in pool' : ~ OnStack(n)'
  BY <1>1, <1>2, <1>6 DEF SInv, Listed, Owned, OwnedBy, OnStack, ForAll, Shared
<1>9. (top.unique <= unique)' BY <1>1, <1>2 DEF Shared, Counted
<1>10. ASSUME NEW w \in Threads PROVE ForAll(w)'
  <2>1. ForAll(w) /\ st[w] \in Locals BY <1>1, SInvForAll DEF Shared
  <2>2. OwnedBy(w)' BY <1>1, <1>2, <1>6, <2>1 DEF ForAll, OwnedBy, OnStack, CurrentFor
  <2>3. FreshFor(w)'
    <3>1. Counted /\ \A u \in Threads : FreshFor(u) BY <1>1 DEF Shared, SInv, Fresh
    <3>2. CASE w = t BY <3>1, <3>2, <1>2, <1>6 DEF FreshFor, Counted
    <3>3. CASE w # t BY <3>1, <3>3, <1>2, <1>6 DEF FreshFor, Counted
    <3> QED BY <3>2, <3>3
  <2>4. CurrentFor(w)'
    <3>1. CASE w = t
      BY <3>1, <1>1, <1>2, <1>6, <2>1
      DEF ForAll, CurrentFor, Still, OwnedBy, OnStack, Shared, Locals, FreshFor
    <3>2. CASE w # t
      BY <3>2, <1>1, <1>2, <1>6, <2>1
      DEF ForAll, CurrentFor, Still, OwnedBy, OnStack, Shared, Locals, FreshFor
    <3> QED BY <3>1, <3>2
  <2>5. LoneFor(w)'
    BY <1>1, <1>2, <1>6, <2>1 DEF ForAll, LoneFor, LonePopper, SInv, Listed, Shared
  <2> QED BY <2>2, <2>3, <2>4, <2>5 DEF ForAll
<1> QED BY <1>7, <1>8, <1>9, <1>10, Together

LEMMA PopUniqueEmptyKeeps ==
  ASSUME SInv, NEW t \in Threads, PopUnique(t), st[t].preNode = Null
  PROVE  SInv'
<1> USE NullIsNoNode DEF Locally, Holding, Taking, Looking, Popping, Numbered
<1>1. Shared /\ ForAll(t) /\ st[t] \in Locals BY SharedTyped, SInvForAll DEF Shared
<1>2. UNCHANGED <<poppers, top, stack, unique, pNext, Data, pool>>
  BY DEF PopUnique, Load
<1>3. Step(t, "popUnique", Outside)
  BY DEF PopUnique, Load
<1>4. Outside \in Locals BY <1>1, <1>2 DEF Shared, Counted, Locals, StackPlaces, Outside
<1>5. /\ st[t].at = "popUnique" /\ st' \in [Threads -> Locals] /\ st'[t] = Outside
      /\ \A u \in Threads \ {t} : st'[u] = st[u]
  BY <1>1, <1>3, <1>4, StepTyped
<1>6. Locally(t, "popUnique", "out", 0, Null, 0, Null, Null, NoValue)
  BY <1>1, <1>5 DEF Locals, Outside
<1>7. StackTypeOK'
  BY <1>1, <1>2, <1>5 DEF PopUnique, Load, SInv, StackTypeOK, Shared, Counted, Locals
<1>8. Listed' /\ \A n \in pool' : ~ OnStack(n)'
  BY <1>1, <1>2, <1>6 DEF SInv, Listed, Owned, OwnedBy, OnStack, ForAll, Shared
<1>9. (top.unique <= unique)' BY <1>1, <1>2 DEF Shared, Counted
<1>10. ASSUME NEW w \in Threads PROVE ForAll(w)'
  <2>1. ForAll(w) /\ st[w] \in Locals BY <1>1, SInvForAll DEF Shared
  <2>2. OwnedBy(w)' BY <1>1, <1>2, <1>6, <2>1 DEF ForAll, OwnedBy, OnStack, CurrentFor
  <2>3. FreshFor(w)'
    <3>1. Counted /\ \A u \in Threads : FreshFor(u) BY <1>1 DEF Shared, SInv, Fresh
    <3>2. CASE w = t BY <3>1, <3>2, <1>2, <1>6 DEF FreshFor, Counted
    <3>3. CASE w # t BY <3>1, <3>3, <1>2, <1>6 DEF FreshFor, Counted
    <3> QED BY <3>2, <3>3
  <2>4. CurrentFor(w)'
    <3>1. CASE w = t
      BY <3>1, <1>1, <1>2, <1>6, <2>1
      DEF ForAll, CurrentFor, Still, OwnedBy, OnStack, Shared, Locals, FreshFor
    <3>2. CASE w # t
      BY <3>2, <1>1, <1>2, <1>6, <2>1
      DEF ForAll, CurrentFor, Still, OwnedBy, OnStack, Shared, Locals, FreshFor
    <3> QED BY <3>1, <3>2
  <2>5. LoneFor(w)'
    BY <1>1, <1>2, <1>6, <2>1 DEF ForAll, LoneFor, LonePopper, SInv, Listed, Shared
  <2> QED BY <2>2, <2>3, <2>4, <2>5 DEF ForAll
<1> QED BY <1>7, <1>8, <1>9, <1>10, Together

LEMMA PopUniqueSomeKeeps ==
  ASSUME SInv, NEW t \in Threads, PopUnique(t), st[t].preNode # Null
  PROVE  SInv'
<1> USE NullIsNoNode DEF Locally, Holding, Taking, Looking, Popping, Numbered
<1>1. Shared /\ ForAll(t) /\ st[t] \in Locals BY SharedTyped, SInvForAll DEF Shared
<1>2. UNCHANGED <<poppers, top, stack, unique, pNext, Data, pool>>
  BY DEF PopUnique, Load
<1>3. Step(t, "popUnique", [st[t] EXCEPT !.at = "second", !.preUnique = top.unique])
  BY DEF PopUnique, Load, Outside
<1>4. [st[t] EXCEPT !.at = "second", !.preUnique = top.unique] \in Locals
  BY <1>1, <1>2 DEF Shared, Counted, Locals, StackPlaces
<1>5. /\ st[t].at = "popUnique" /\ st' \in [Threads -> Locals]
      /\ st'[t] = [st[t] EXCEPT !.at = "second", !.preUnique = top.unique]
      /\ \A u \in Threads \ {t} : st'[u] = st[u]
  BY <1>1, <1>3, <1>4, StepTyped
<1>6. Locally(t, "popUnique", "second", st[t].id, st[t].preNode, top.unique, st[t].node,
              st[t].live, st[t].val)
  BY <1>1, <1>5 DEF Locals
<1>7. StackTypeOK'
  BY <1>1, <1>2, <1>5 DEF PopUnique, Load, SInv, StackTypeOK, Shared, Counted, Locals
<1>8. Listed' /\ \A n \in pool' : ~ OnStack(n)'
  BY <1>1, <1>2, <1>6 DEF SInv, Listed, Owned, OwnedBy, OnStack, ForAll, Shared
<1>9. (top.unique <= unique)' BY <1>1, <1>2 DEF Shared, Counted
<1>10. ASSUME NEW w \in Threads PROVE ForAll(w)'
  <2>1. ForAll(w) /\ st[w] \in Locals BY <1>1, SInvForAll DEF Shared
  <2>2. OwnedBy(w)' BY <1>1, <1>2, <1>6, <2>1 DEF ForAll, OwnedBy, OnStack, CurrentFor
  <2>3. FreshFor(w)'
    <3>1. Counted /\ \A u \in Threads : FreshFor(u) BY <1>1 DEF Shared, SInv, Fresh
    <3>2. CASE w = t BY <3>1, <3>2, <1>2, <1>6 DEF FreshFor, Counted
    <3>3. CASE w # t BY <3>1, <3>3, <1>2, <1>6 DEF FreshFor, Counted
    <3> QED BY <3>2, <3>3
  <2>4. CurrentFor(w)'
    <3>1. CASE w = t
      BY <3>1, <1>1, <1>2, <1>6, <2>1
      DEF ForAll, CurrentFor, Still, OwnedBy, OnStack, Shared, Locals, FreshFor
    <3>2. CASE w # t
      BY <3>2, <1>1, <1>2, <1>6, <2>1
      DEF ForAll, CurrentFor, Still, OwnedBy, OnStack, Shared, Locals, FreshFor
    <3> QED BY <3>1, <3>2
  <2>5. LoneFor(w)'
    BY <1>1, <1>2, <1>6, <2>1 DEF ForAll, LoneFor, LonePopper, SInv, Listed, Shared
  <2> QED BY <2>2, <2>3, <2>4, <2>5 DEF ForAll
<1> QED BY <1>7, <1>8, <1>9, <1>10, Together

LEMMA SecondKeeps == ASSUME SInv, NEW t \in Threads, Second(t) PROVE SInv'
<1> USE NullIsNoNode DEF Locally, Holding, Taking, Looking, Popping, Numbered
<1>1. Shared /\ ForAll(t) /\ st[t] \in Locals BY SharedTyped, SInvForAll DEF Shared
<1>2. UNCHANGED <<poppers, top, stack, unique, pNext, Data, pool>>
  BY DEF Second, Load
<1>3. Step(t, "second", [st[t] EXCEPT !.at = "live", !.node = top.node])
  BY DEF Second, Load
<1>4. [st[t] EXCEPT !.at = "live", !.node = top.node] \in Locals
  BY <1>1, <1>2 DEF Shared, Counted, Locals, StackPlaces
<1>5. /\ st[t].at = "second" /\ st' \in [Threads -> Locals]
      /\ st'[t] = [st[t] EXCEPT !.at = "live", !.node = top.node]
      /\ \A u \in Threads \ {t} : st'[u] = st[u]
  BY <1>1, <1>3, <1>4, StepTyped
<1>6. Locally(t, "second", "live", st[t].id, st[t].preNode, st[t].preUnique, top.node,
              st[t].live, st[t].val)
  BY <1>1, <1>5 DEF Locals
<1>7. StackTypeOK'
  BY <1>1, <1>2, <1>5 DEF Second, Load, SInv, StackTypeOK, Shared, Counted, Locals
<1>8. Listed' /\ \A n \in pool' : ~ OnStack(n)'
  BY <1>1, <1>2, <1>6 DEF SInv, Listed, Owned, OwnedBy, OnStack, ForAll, Shared
<1>9. (top.unique <= unique)' BY <1>1, <1>2 DEF Shared, Counted
<1>10. ASSUME NEW w \in Threads PROVE ForAll(w)'
  <2>1. ForAll(w) /\ st[w] \in Locals BY <1>1, SInvForAll DEF Shared
  <2>2. OwnedBy(w)' BY <1>1, <1>2, <1>6, <2>1 DEF ForAll, OwnedBy, OnStack, CurrentFor
  <2>3. FreshFor(w)'
    <3>1. Counted /\ \A u \in Threads : FreshFor(u) BY <1>1 DEF Shared, SInv, Fresh
    <3>2. CASE w = t BY <3>1, <3>2, <1>2, <1>6 DEF FreshFor, Counted
    <3>3. CASE w # t BY <3>1, <3>3, <1>2, <1>6 DEF FreshFor, Counted
    <3> QED BY <3>2, <3>3
  <2>4. CurrentFor(w)'
    <3>1. CASE w = t
      BY <3>1, <1>1, <1>2, <1>6, <2>1
      DEF ForAll, CurrentFor, Still, OwnedBy, OnStack, Shared, Locals, FreshFor
    <3>2. CASE w # t
      BY <3>2, <1>1, <1>2, <1>6, <2>1
      DEF ForAll, CurrentFor, Still, OwnedBy, OnStack, Shared, Locals, FreshFor
    <3> QED BY <3>1, <3>2
  <2>5. LoneFor(w)'
    BY <1>1, <1>2, <1>6, <2>1 DEF ForAll, LoneFor, LonePopper, SInv, Listed, Shared
  <2> QED BY <2>2, <2>3, <2>4, <2>5 DEF ForAll
<1> QED BY <1>7, <1>8, <1>9, <1>10, Together

LEMMA LiveFaultKeeps == ASSUME SInv, NEW t \in Threads, Live(t), top.node = Null PROVE SInv'
<1> USE NullIsNoNode DEF Locally, Holding, Taking, Looking, Popping, Numbered
<1>1. Shared /\ ForAll(t) /\ st[t] \in Locals BY SharedTyped, SInvForAll DEF Shared
<1>2. UNCHANGED <<poppers, top, stack, unique, pNext, Data, pool>>
  BY DEF Live, Load
<1>3. Step(t, "live", [st[t] EXCEPT !.at = "fault", !.live = top.node])
  BY DEF Live, Load
<1>4. [st[t] EXCEPT !.at = "fault", !.live = top.node] \in Locals
  BY <1>1, <1>2 DEF Shared, Counted, Locals, StackPlaces
<1>5. /\ st[t].at = "live" /\ st' \in [Threads -> Locals]
      /\ st'[t] = [st[t] EXCEPT !.at = "fault", !.live = top.node]
      /\ \A u \in Threads \ {t} : st'[u] = st[u]
  BY <1>1, <1>3, <1>4, StepTyped
<1>6. Locally(t, "live", "fault", st[t].id, st[t].preNode, st[t].preUnique, st[t].node, top.node,
              st[t].val)
  BY <1>1, <1>5 DEF Locals
<1>7. StackTypeOK' BY <1>1, <1>2, <1>5 DEF Live, Load, SInv, StackTypeOK, Shared, Counted, Locals
<1>8. Listed' /\ \A n \in pool' : ~ OnStack(n)'
  BY <1>1, <1>2, <1>6 DEF SInv, Listed, Owned, OwnedBy, OnStack, ForAll, Shared
<1>9. (top.unique <= unique)' BY <1>1, <1>2 DEF Shared, Counted
<1>10. ASSUME NEW w \in Threads PROVE ForAll(w)'
  <2>1. ForAll(w) /\ st[w] \in Locals BY <1>1, SInvForAll DEF Shared
  <2>2. OwnedBy(w)' BY <1>1, <1>2, <1>6, <2>1 DEF ForAll, OwnedBy, OnStack, CurrentFor
  <2>3. FreshFor(w)'
    <3>1. Counted /\ \A u \in Threads : FreshFor(u) BY <1>1 DEF Shared, SInv, Fresh
    <3>2. CASE w = t BY <3>1, <3>2, <1>2, <1>6 DEF FreshFor, Counted
    <3>3. CASE w # t BY <3>1, <3>3, <1>2, <1>6 DEF FreshFor, Counted
    <3> QED BY <3>2, <3>3
  <2>4. CurrentFor(w)'
    <3>1. CASE w = t
      BY <3>1, <1>1, <1>2, <1>6, <2>1
      DEF ForAll, CurrentFor, Still, OwnedBy, OnStack, Shared, Locals, FreshFor
    <3>2. CASE w # t
      BY <3>2, <1>1, <1>2, <1>6, <2>1
      DEF ForAll, CurrentFor, Still, OwnedBy, OnStack, Shared, Locals, FreshFor
    <3> QED BY <3>1, <3>2
  <2>5. LoneFor(w)'
    BY <1>1, <1>2, <1>6, <2>1 DEF ForAll, LoneFor, LonePopper, SInv, Listed, Shared
  <2> QED BY <2>2, <2>3, <2>4, <2>5 DEF ForAll
<1> QED BY <1>7, <1>8, <1>9, <1>10, Together

LEMMA LiveSomeKeeps == ASSUME SInv, NEW t \in Threads, Live(t), top.node # Null PROVE SInv'
<1> USE NullIsNoNode DEF Locally, Holding, Taking, Looking, Popping, Numbered
<1>1. Shared /\ ForAll(t) /\ st[t] \in Locals BY SharedTyped, SInvForAll DEF Shared
<1>2. UNCHANGED <<poppers, top, stack, unique, pNext, Data, pool>>
  BY DEF Live, Load
<1>3. Step(t, "live", [st[t] EXCEPT !.at = "next", !.live = top.node])
  BY DEF Live, Load
<1>4. [st[t] EXCEPT !.at = "next", !.live = top.node] \in Locals
  BY <1>1, <1>2 DEF Shared, Counted, Locals, StackPlaces
<1>5. /\ st[t].at = "live" /\ st' \in [Threads -> Locals]
      /\ st'[t] = [st[t] EXCEPT !.at = "next", !.live = top.node]
      /\ \A u \in Threads \ {t} : st'[u] = st[u]
  BY <1>1, <1>3, <1>4, StepTyped
<1>6. Locally(t, "live", "next", st[t].id, st[t].preNode, st[t].preUnique, st[t].node, top.node,
              st[t].val)
  BY <1>1, <1>5 DEF Locals
<1>7. StackTypeOK' BY <1>1, <1>2, <1>5 DEF Live, Load, SInv, StackTypeOK, Shared, Counted, Locals
<1>8. Listed' /\ \A n \in pool' : ~ OnStack(n)'
  BY <1>1, <1>2, <1>6 DEF SInv, Listed, Owned, OwnedBy, OnStack, ForAll, Shared
<1>9. (top.unique <= unique)' BY <1>1, <1>2 DEF Shared, Counted
<1>10. ASSUME NEW w \in Threads PROVE ForAll(w)'
  <2>1. ForAll(w) /\ st[w] \in Locals BY <1>1, SInvForAll DEF Shared
  <2>2. OwnedBy(w)' BY <1>1, <1>2, <1>6, <2>1 DEF ForAll, OwnedBy, OnStack, CurrentFor
  <2>3. FreshFor(w)'
    <3>1. Counted /\ \A u \in Threads : FreshFor(u) BY <1>1 DEF Shared, SInv, Fresh
    <3>2. CASE w = t BY <3>1, <3>2, <1>2, <1>6 DEF FreshFor, Counted
    <3>3. CASE w # t BY <3>1, <3>3, <1>2, <1>6 DEF FreshFor, Counted
    <3> QED BY <3>2, <3>3
  <2>4. CurrentFor(w)'
    <3>1. CASE w = t
      BY <3>1, <1>1, <1>2, <1>6, <2>1
      DEF ForAll, CurrentFor, Still, OwnedBy, OnStack, Shared, Locals, FreshFor
    <3>2. CASE w # t
      BY <3>2, <1>1, <1>2, <1>6, <2>1
      DEF ForAll, CurrentFor, Still, OwnedBy, OnStack, Shared, Locals, FreshFor
    <3> QED BY <3>1, <3>2
  <2>5. LoneFor(w)'
    BY <1>1, <1>2, <1>6, <2>1 DEF ForAll, LoneFor, LonePopper, SInv, Listed, Shared
  <2> QED BY <2>2, <2>3, <2>4, <2>5 DEF ForAll
<1> QED BY <1>7, <1>8, <1>9, <1>10, Together

LEMMA NextNodeKeeps == ASSUME SInv, NEW t \in Threads, NextNode(t) PROVE SInv'
<1> USE NullIsNoNode DEF Locally, Holding, Taking, Looking, Popping, Numbered
<1>1. Shared /\ ForAll(t) /\ st[t] \in Locals BY SharedTyped, SInvForAll DEF Shared
<1>2. UNCHANGED <<poppers, top, stack, unique, pNext, Data, pool>>
  BY DEF NextNode, Load
<1>3. Step(t, "next", [st[t] EXCEPT !.at = "popSwap", !.live = pNext[st[t].live]])
  BY DEF NextNode, Load
<1>4. /\ st[t].live \in Nodes /\ pNext[st[t].live] \in Nodes \cup {Null}
      /\ stack # <<>> => top.node = stack[1]
  BY <1>1, <1>3 DEF Step, Shared, ForAll, CurrentFor, SInv, Listed
<1>5. [st[t] EXCEPT !.at = "popSwap", !.live = pNext[st[t].live]] \in Locals
  BY <1>4, <1>1, <1>2 DEF Shared, Counted, Locals, StackPlaces
<1>6. /\ st[t].at = "next" /\ st' \in [Threads -> Locals]
      /\ st'[t] = [st[t] EXCEPT !.at = "popSwap", !.live = pNext[st[t].live]]
      /\ \A u \in Threads \ {t} : st'[u] = st[u]
  BY <1>1, <1>3, <1>5, StepTyped
<1>7. Locally(t, "next", "popSwap", st[t].id, st[t].preNode, st[t].preUnique, st[t].node,
              pNext[st[t].live], st[t].val)
  BY <1>1, <1>6 DEF Locals
<1>8. StackTypeOK'
  BY <1>4, <1>1, <1>2, <1>6 DEF NextNode, Load, SInv, StackTypeOK, Shared, Counted, Locals
<1>9. Listed' /\ \A n \in pool' : ~ OnStack(n)'
  BY <1>1, <1>2, <1>7 DEF SInv, Listed, Owned, OwnedBy, OnStack, ForAll, Shared
<1>10. (top.unique <= unique)' BY <1>1, <1>2 DEF Shared, Counted
<1>11. ASSUME NEW w \in Threads PROVE ForAll(w)'
  <2>1. ForAll(w) /\ st[w] \in Locals BY <1>1, SInvForAll DEF Shared
  <2>2. OwnedBy(w)' BY <1>1, <1>2, <1>7, <2>1 DEF ForAll, OwnedBy, OnStack, CurrentFor
  <2>3. FreshFor(w)'
    <3>1. Counted /\ \A u \in Threads : FreshFor(u) BY <1>1 DEF Shared, SInv, Fresh
    <3>2. CASE w = t BY <3>1, <3>2, <1>2, <1>7 DEF FreshFor, Counted
    <3>3. CASE w # t BY <3>1, <3>3, <1>2, <1>7 DEF FreshFor, Counted
    <3> QED BY <3>2, <3>3
  <2>4. CurrentFor(w)'
    <3>1. CASE w = t
      BY <3>1, <1>4, <1>1, <1>2, <1>7, <2>1
      DEF ForAll, CurrentFor, Still, OwnedBy, OnStack, Shared, Locals, FreshFor
    <3>2. CASE w # t
      BY <3>2, <1>4, <1>1, <1>2, <1>7, <2>1
      DEF ForAll, CurrentFor, Still, OwnedBy, OnStack, Shared, Locals, FreshFor
    <3> QED BY <3>1, <3>2
  <2>5. LoneFor(w)'
    BY <1>1, <1>2, <1>7, <2>1 DEF ForAll, LoneFor, LonePopper, SInv, Listed, Shared
  <2> QED BY <2>2, <2>3, <2>4, <2>5 DEF ForAll
<1> QED BY <1>8, <1>9, <1>10, <1>11, Together

LEMMA PopSwapRetryKeeps == ASSUME SInv, NEW t \in Threads, PopSwap(t), ~ Same(t) PROVE SInv'
<1> USE NullIsNoNode DEF Locally, Holding, Taking, Looking, Popping, Numbered
<1>1. Shared /\ ForAll(t) /\ st[t] \in Locals BY SharedTyped, SInvForAll DEF Shared
<1>2. UNCHANGED <<poppers, top, stack, unique, pNext, Data, pool>>
  BY DEF PopSwap, Swap
<1>3. Step(t, "popSwap", [st[t] EXCEPT !.at = "popNode"])
  BY DEF PopSwap, Swap
<1>4. [st[t] EXCEPT !.at = "popNode"] \in Locals
  BY <1>1, <1>2 DEF Shared, Counted, Locals, StackPlaces
<1>5. /\ st[t].at = "popSwap" /\ st' \in [Threads -> Locals]
      /\ st'[t] = [st[t] EXCEPT !.at = "popNode"]
      /\ \A u \in Threads \ {t} : st'[u] = st[u]
  BY <1>1, <1>3, <1>4, StepTyped
<1>6. Locally(t, "popSwap", "popNode", st[t].id, st[t].preNode, st[t].preUnique, st[t].node,
              st[t].live, st[t].val)
  BY <1>1, <1>5 DEF Locals
<1>7. StackTypeOK'
  BY <1>1, <1>2, <1>5 DEF PopSwap, Swap, SInv, StackTypeOK, Shared, Counted, Locals
<1>8. Listed' /\ \A n \in pool' : ~ OnStack(n)'
  BY <1>1, <1>2, <1>6 DEF SInv, Listed, Owned, OwnedBy, OnStack, ForAll, Shared
<1>9. (top.unique <= unique)' BY <1>1, <1>2 DEF Shared, Counted
<1>10. ASSUME NEW w \in Threads PROVE ForAll(w)'
  <2>1. ForAll(w) /\ st[w] \in Locals BY <1>1, SInvForAll DEF Shared
  <2>2. OwnedBy(w)' BY <1>1, <1>2, <1>6, <2>1 DEF ForAll, OwnedBy, OnStack, CurrentFor
  <2>3. FreshFor(w)'
    <3>1. Counted /\ \A u \in Threads : FreshFor(u) BY <1>1 DEF Shared, SInv, Fresh
    <3>2. CASE w = t BY <3>1, <3>2, <1>2, <1>6 DEF FreshFor, Counted
    <3>3. CASE w # t BY <3>1, <3>3, <1>2, <1>6 DEF FreshFor, Counted
    <3> QED BY <3>2, <3>3
  <2>4. CurrentFor(w)'
    <3>1. CASE w = t
      BY <3>1, <1>1, <1>2, <1>6, <2>1
      DEF ForAll, CurrentFor, Still, OwnedBy, OnStack, Shared, Locals, FreshFor
    <3>2. CASE w # t
      BY <3>2, <1>1, <1>2, <1>6, <2>1
      DEF ForAll, CurrentFor, Still, OwnedBy, OnStack, Shared, Locals, FreshFor
    <3> QED BY <3>1, <3>2
  <2>5. LoneFor(w)'
    BY <1>1, <1>2, <1>6, <2>1 DEF ForAll, LoneFor, LonePopper, SInv, Listed, Shared
  <2> QED BY <2>2, <2>3, <2>4, <2>5 DEF ForAll
<1> QED BY <1>7, <1>8, <1>9, <1>10, Together

LEMMA PopSwapDoneKeeps == ASSUME SInv, NEW t \in Threads, PopSwap(t), Same(t) PROVE SInv'
<1> USE NullIsNoNode DEF Locally, Holding, Taking, Looking, Popping, Numbered
<1>1. Shared /\ ForAll(t) /\ st[t] \in Locals BY SharedTyped, SInvForAll DEF Shared
<1>2. /\ top' = [node |-> st[t].live, unique |-> st[t].id]
      /\ stack' = SubSeq(stack, 2, Len(stack))
      /\ UNCHANGED <<poppers, unique, useSize, pNext, Data, pool>>
      /\ Step(t, "popSwap", [st[t] EXCEPT !.at = "shrink"])
      /\ top'.node = st[t].live /\ top'.unique = st[t].id
  BY DEF PopSwap, Swap
<1>3. [st[t] EXCEPT !.at = "shrink"] \in Locals BY <1>1 DEF Locals, StackPlaces
<1>4. /\ st[t].at = "popSwap" /\ st' \in [Threads -> Locals]
      /\ st'[t] = [st[t] EXCEPT !.at = "shrink"]
      /\ \A u \in Threads \ {t} : st'[u] = st[u]
  BY <1>1, <1>2, <1>3, StepTyped
<1>5. Locally(t, "popSwap", "shrink", st[t].id, st[t].preNode, st[t].preUnique, st[t].node,
              st[t].live, st[t].val)
  BY <1>1, <1>4 DEF Locals
<1>6. /\ top.node \in Nodes /\ top.node = st[t].preNode /\ top.node = st[t].node
      /\ stack # <<>> /\ top.node = stack[1] /\ st[t].live = pNext[stack[1]]
  <2>1. top.node = st[t].preNode /\ top.unique = st[t].preUnique BY DEF Same
  <2>2. st[t].preNode \in Nodes /\ st[t].node = top.node
    BY <1>1, <1>4, <2>1 DEF ForAll, CurrentFor, Still
  <2>3. stack # <<>> /\ top.node = stack[1] BY <2>1, <2>2 DEF SInv, Listed
  <2> QED BY <1>1, <1>4, <2>1, <2>2, <2>3 DEF ForAll, CurrentFor, Still
<1>7. Len(stack) >= 1 /\ stack \in Seq(Nodes) BY <1>1, <1>6 DEF Shared
<1>8. /\ stack' \in Seq(Nodes) /\ Len(stack') = Len(stack) - 1
      /\ \A i \in 1 .. Len(stack) - 1 : stack'[i] = stack[i + 1]
  <2>1. \A i \in 2 .. Len(stack) : stack[i] \in Nodes BY <1>7
  <2>2. Len(stack) \in Int /\ 2 \in Int BY <1>7
  <2>3. /\ SubSeq(stack, 2, Len(stack)) \in Seq(Nodes)
        /\ Len(SubSeq(stack, 2, Len(stack))) =
             IF 2 <= Len(stack) THEN Len(stack) - 2 + 1 ELSE 0
        /\ \A i \in 1 .. Len(stack) - 2 + 1 :
             SubSeq(stack, 2, Len(stack))[i] = stack[2 + i - 1]
    BY ONLY <2>1, <2>2, SubSeqProperties
  <2>4. /\ stack' \in Seq(Nodes)
        /\ Len(stack') = IF 2 <= Len(stack) THEN Len(stack) - 2 + 1 ELSE 0
        /\ \A i \in 1 .. Len(stack) - 2 + 1 : stack'[i] = stack[2 + i - 1]
    BY <1>2, <2>3
  <2>5. Len(stack) \in Nat BY <1>7
  <2>6. Len(stack') = Len(stack) - 1
    <3>1. \A k \in Nat : k >= 1 => (IF 2 <= k THEN k - 2 + 1 ELSE 0) = k - 1 OBVIOUS
    <3> QED BY <1>7, <2>4, <2>5, <3>1
  <2>7. ASSUME NEW i \in 1 .. Len(stack) - 1 PROVE stack'[i] = stack[i + 1]
    <3>1. i \in 1 .. Len(stack) - 2 + 1 /\ 2 + i - 1 = i + 1 BY <2>5
    <3> QED BY <2>4, <3>1
  <2> QED BY <2>4, <2>6, <2>7
<1>9. StackTypeOK'
  <2>1. [node |-> st[t].live, unique |-> st[t].id] \in [node : Nodes \cup {Null}, unique : Nat]
    BY <1>1 DEF Locals
  <2> QED BY <2>1, <1>2, <1>4, <1>8 DEF SInv, StackTypeOK, Locals
<1>10. Listed BY DEF SInv
<1>11. \A m : OnStack(m)' <=> OnStack(m) /\ m # stack[1]
  <2>1. ASSUME NEW m, OnStack(m)' PROVE OnStack(m) /\ m # stack[1]
    <3>1. PICK i \in 1 .. Len(stack) - 1 : stack'[i] = m BY <1>8, <2>1 DEF OnStack
    <3>2. i + 1 \in 1 .. Len(stack) /\ stack[i + 1] = m /\ i + 1 # 1 /\ 1 \in 1 .. Len(stack)
      BY <1>7, <1>8, <3>1
    <3> QED BY <1>10, <3>2 DEF OnStack, Listed
  <2>2. ASSUME NEW m, OnStack(m), m # stack[1] PROVE OnStack(m)'
    <3>1. PICK i \in 1 .. Len(stack) : stack[i] = m BY <2>2 DEF OnStack
    <3>2. i # 1 BY <2>2, <3>1
    <3>3. i - 1 \in 1 .. Len(stack') /\ stack'[i - 1] = m BY <1>7, <1>8, <3>1, <3>2
    <3> QED BY <3>3 DEF OnStack
  <2> QED BY <2>1, <2>2
<1>12. Listed'
  <2>1. (top.node = IF stack = <<>> THEN Null ELSE stack[1])'
    <3>1. top'.node = pNext[stack[1]] BY <1>2, <1>6
    <3>2. CASE Len(stack) = 1 BY <3>1, <3>2, <1>7, <1>8, <1>10 DEF Listed
    <3>3. CASE Len(stack) # 1 BY <3>1, <3>3, <1>7, <1>8, <1>10 DEF Listed
    <3> QED BY <3>2, <3>3
  <2>2. ASSUME NEW i \in 1 .. Len(stack')
        PROVE  pNext'[stack'[i]] = IF i < Len(stack') THEN stack'[i + 1] ELSE Null
    <3>1. /\ i + 1 \in 1 .. Len(stack) /\ stack'[i] = stack[i + 1]
          /\ i < Len(stack') => stack'[i + 1] = stack[i + 1 + 1]
          /\ i < Len(stack') <=> i + 1 < Len(stack)
      BY <1>7, <1>8
    <3> QED BY <1>2, <1>10, <3>1 DEF Listed
  <2>3. ASSUME NEW i \in 1 .. Len(stack'), NEW j \in 1 .. Len(stack'), stack'[i] = stack'[j]
        PROVE  i = j
    <3>1. /\ i + 1 \in 1 .. Len(stack) /\ stack'[i] = stack[i + 1]
          /\ j + 1 \in 1 .. Len(stack) /\ stack'[j] = stack[j + 1]
      BY <1>7, <1>8
    <3>2. i + 1 = j + 1 BY <1>10, <2>3, <3>1 DEF Listed
    <3> QED BY <3>2
  <2> QED BY <2>1, <2>2, <2>3 DEF Listed
<1>13. OnStack(stack[1]) BY <1>7 DEF OnStack
<1>14. \A m \in pool' : ~ OnStack(m)' BY <1>2, <1>11 DEF SInv, Owned
<1>15. (top.unique <= unique)' BY <1>1, <1>2 DEF ForAll, FreshFor
<1>16. ASSUME NEW w \in Threads PROVE ForAll(w)'
  <2>1. ForAll(w) /\ st[w] \in Locals /\ (w # t => st[w].preUnique # st[t].id)
    BY <1>1, <1>4, SInvForAll DEF Shared, ForAll, FreshFor
  <2>2. OwnedBy(w)'
    <3>1. \A u \in Threads : st[u].at \in Holding => st[u].node # stack[1]
      BY <1>13 DEF SInv, Owned, OwnedBy
    <3>2. CASE w = t
      <4>1. stack[1] \notin pool BY <1>13 DEF SInv, Owned
      <4> QED BY <3>1, <3>2, <4>1, <1>2, <1>5, <1>6, <1>11
            DEF OwnedBy
    <3>3. CASE w # t
      BY <3>1, <3>3, <1>2, <1>5, <1>6, <1>11, <2>1
      DEF ForAll, OwnedBy
    <3> QED BY <3>2, <3>3
  <2>3. FreshFor(w)'
    <3>1. Counted /\ \A u \in Threads : FreshFor(u) BY <1>1 DEF Shared, SInv, Fresh
    <3>2. CASE w = t
      <4>1. unique' = unique BY <1>2
      <4> QED BY <3>1, <3>2, <4>1, <1>5 DEF FreshFor
    <3>3. CASE w # t
      <4>1. st[w].at \in Numbered => st[w].id # st[t].id
        BY <3>1, <3>3, <1>5 DEF FreshFor
      <4>2. top'.unique = st[t].id /\ unique' = unique BY <1>2
      <4> QED BY <3>1, <3>3, <4>1, <4>2, <1>5 DEF FreshFor
    <3> QED BY <3>2, <3>3
  <2>4. CurrentFor(w)'
    <3>1. CASE w = t BY <3>1, <1>5 DEF CurrentFor
    <3>2. CASE w # t
      BY <3>2, <1>2, <1>5, <2>1 DEF ForAll, CurrentFor, Still
    <3> QED BY <3>1, <3>2
  <2>5. LoneFor(w)'
    <3>1. CASE w = t BY <3>1, <1>2, <1>5, <2>1 DEF ForAll, LoneFor, LonePopper
    <3>2. CASE w # t
      <4>1. t \in poppers BY <1>1, <1>4 DEF ForAll, LoneFor
      <4>2. LonePopper => st[w].at \notin Popping
        BY <2>1, <3>2, <4>1 DEF ForAll, LoneFor, LonePopper
      <4> QED BY <3>2, <4>2, <1>2, <1>5, <2>1
            DEF ForAll, LoneFor, LonePopper
    <3> QED BY <3>1, <3>2
  <2> QED BY <2>2, <2>3, <2>4, <2>5 DEF ForAll
<1> QED BY <1>9, <1>12, <1>14, <1>15, <1>16, Together

LEMMA ShrinkKeeps == ASSUME SInv, NEW t \in Threads, Shrink(t) PROVE SInv'
<1> USE NullIsNoNode DEF Locally, Holding, Taking, Looking, Popping, Numbered
<1>1. Shared /\ ForAll(t) /\ st[t] \in Locals BY SharedTyped, SInvForAll DEF Shared
<1>2. UNCHANGED <<poppers, top, stack, unique, pNext, Data, pool>>
  BY DEF Shrink, Load
<1>3. Step(t, "shrink", [st[t] EXCEPT !.at = "shrunk", !.size = useSize])
  BY DEF Shrink, Load
<1>4. [st[t] EXCEPT !.at = "shrunk", !.size = useSize] \in Locals
  BY <1>1, <1>2 DEF Shared, Counted, Locals, StackPlaces
<1>5. /\ st[t].at = "shrink" /\ st' \in [Threads -> Locals]
      /\ st'[t] = [st[t] EXCEPT !.at = "shrunk", !.size = useSize]
      /\ \A u \in Threads \ {t} : st'[u] = st[u]
  BY <1>1, <1>3, <1>4, StepTyped
<1>6. Locally(t, "shrink", "shrunk", st[t].id, st[t].preNode, st[t].preUnique, st[t].node,
              st[t].live, st[t].val)
  BY <1>1, <1>5 DEF Locals
<1>7. StackTypeOK'
  BY <1>1, <1>2, <1>5 DEF Shrink, Load, SInv, StackTypeOK, Shared, Counted, Locals
<1>8. Listed' /\ \A n \in pool' : ~ OnStack(n)'
  BY <1>1, <1>2, <1>6 DEF SInv, Listed, Owned, OwnedBy, OnStack, ForAll, Shared
<1>9. (top.unique <= unique)' BY <1>1, <1>2 DEF Shared, Counted
<1>10. ASSUME NEW w \in Threads PROVE ForAll(w)'
  <2>1. ForAll(w) /\ st[w] \in Locals BY <1>1, SInvForAll DEF Shared
  <2>2. OwnedBy(w)' BY <1>1, <1>2, <1>6, <2>1 DEF ForAll, OwnedBy, OnStack, CurrentFor
  <2>3. FreshFor(w)'
    <3>1. Counted /\ \A u \in Threads : FreshFor(u) BY <1>1 DEF Shared, SInv, Fresh
    <3>2. CASE w = t BY <3>1, <3>2, <1>2, <1>6 DEF FreshFor, Counted
    <3>3. CASE w # t BY <3>1, <3>3, <1>2, <1>6 DEF FreshFor, Counted
    <3> QED BY <3>2, <3>3
  <2>4. CurrentFor(w)'
    <3>1. CASE w = t
      BY <3>1, <1>1, <1>2, <1>6, <2>1
      DEF ForAll, CurrentFor, Still, OwnedBy, OnStack, Shared, Locals, FreshFor
    <3>2. CASE w # t
      BY <3>2, <1>1, <1>2, <1>6, <2>1
      DEF ForAll, CurrentFor, Still, OwnedBy, OnStack, Shared, Locals, FreshFor
    <3> QED BY <3>1, <3>2
  <2>5. LoneFor(w)'
    BY <1>1, <1>2, <1>6, <2>1 DEF ForAll, LoneFor, LonePopper, SInv, Listed, Shared
  <2> QED BY <2>2, <2>3, <2>4, <2>5 DEF ForAll
<1> QED BY <1>7, <1>8, <1>9, <1>10, Together

LEMMA ShrunkKeeps == ASSUME SInv, NEW t \in Threads, Shrunk(t) PROVE SInv'
<1> USE NullIsNoNode DEF Locally, Holding, Taking, Looking, Popping, Numbered
<1>1. Shared /\ ForAll(t) /\ st[t] \in Locals BY SharedTyped, SInvForAll DEF Shared
<1>2. UNCHANGED <<poppers, top, stack, unique, pNext, Data, pool>>
  BY DEF Shrunk, StoreSize
<1>3. Step(t, "shrunk", [st[t] EXCEPT !.at = "getData"])
  BY DEF Shrunk, StoreSize
<1>4. [st[t] EXCEPT !.at = "getData"] \in Locals
  BY <1>1, <1>2 DEF Shared, Counted, Locals, StackPlaces
<1>5. /\ st[t].at = "shrunk" /\ st' \in [Threads -> Locals]
      /\ st'[t] = [st[t] EXCEPT !.at = "getData"]
      /\ \A u \in Threads \ {t} : st'[u] = st[u]
  BY <1>1, <1>3, <1>4, StepTyped
<1>6. Locally(t, "shrunk", "getData", st[t].id, st[t].preNode, st[t].preUnique, st[t].node,
              st[t].live, st[t].val)
  BY <1>1, <1>5 DEF Locals
<1>7. StackTypeOK'
  BY <1>1, <1>2, <1>5 DEF Shrunk, StoreSize, SInv, StackTypeOK, Shared, Counted, Locals
<1>8. Listed' /\ \A n \in pool' : ~ OnStack(n)'
  BY <1>1, <1>2, <1>6 DEF SInv, Listed, Owned, OwnedBy, OnStack, ForAll, Shared
<1>9. (top.unique <= unique)' BY <1>1, <1>2 DEF Shared, Counted
<1>10. ASSUME NEW w \in Threads PROVE ForAll(w)'
  <2>1. ForAll(w) /\ st[w] \in Locals BY <1>1, SInvForAll DEF Shared
  <2>2. OwnedBy(w)' BY <1>1, <1>2, <1>6, <2>1 DEF ForAll, OwnedBy, OnStack, CurrentFor
  <2>3. FreshFor(w)'
    <3>1. Counted /\ \A u \in Threads : FreshFor(u) BY <1>1 DEF Shared, SInv, Fresh
    <3>2. CASE w = t BY <3>1, <3>2, <1>2, <1>6 DEF FreshFor, Counted
    <3>3. CASE w # t BY <3>1, <3>3, <1>2, <1>6 DEF FreshFor, Counted
    <3> QED BY <3>2, <3>3
  <2>4. CurrentFor(w)'
    <3>1. CASE w = t
      BY <3>1, <1>1, <1>2, <1>6, <2>1
      DEF ForAll, CurrentFor, Still, OwnedBy, OnStack, Shared, Locals, FreshFor
    <3>2. CASE w # t
      BY <3>2, <1>1, <1>2, <1>6, <2>1
      DEF ForAll, CurrentFor, Still, OwnedBy, OnStack, Shared, Locals, FreshFor
    <3> QED BY <3>1, <3>2
  <2>5. LoneFor(w)'
    BY <1>1, <1>2, <1>6, <2>1 DEF ForAll, LoneFor, LonePopper, SInv, Listed, Shared
  <2> QED BY <2>2, <2>3, <2>4, <2>5 DEF ForAll
<1> QED BY <1>7, <1>8, <1>9, <1>10, Together

LEMMA GetDataKeeps == ASSUME SInv, NEW t \in Threads, GetData(t) PROVE SInv'
<1> USE NullIsNoNode DEF Locally, Holding, Taking, Looking, Popping, Numbered
<1>1. Shared /\ ForAll(t) /\ st[t] \in Locals BY SharedTyped, SInvForAll DEF Shared
<1>2. UNCHANGED <<poppers, top, stack, unique, pNext, Data, pool>>
  BY DEF GetData, Load
<1>3. Step(t, "getData", [st[t] EXCEPT !.at = "give", !.val = Data[st[t].preNode]])
  BY DEF GetData, Load
<1>4. Data[st[t].preNode] \in Values \cup {NoValue}
  BY <1>1, <1>3 DEF Step, Shared, ForAll, OwnedBy
<1>5. [st[t] EXCEPT !.at = "give", !.val = Data[st[t].preNode]] \in Locals
  BY <1>4, <1>1, <1>2 DEF Shared, Counted, Locals, StackPlaces
<1>6. /\ st[t].at = "getData" /\ st' \in [Threads -> Locals]
      /\ st'[t] = [st[t] EXCEPT !.at = "give", !.val = Data[st[t].preNode]]
      /\ \A u \in Threads \ {t} : st'[u] = st[u]
  BY <1>1, <1>3, <1>5, StepTyped
<1>7. Locally(t, "getData", "give", st[t].id, st[t].preNode, st[t].preUnique, st[t].node,
              st[t].live, Data[st[t].preNode])
  BY <1>1, <1>6 DEF Locals
<1>8. StackTypeOK'
  BY <1>4, <1>1, <1>2, <1>6 DEF GetData, Load, SInv, StackTypeOK, Shared, Counted, Locals
<1>9. Listed' /\ \A n \in pool' : ~ OnStack(n)'
  BY <1>1, <1>2, <1>7 DEF SInv, Listed, Owned, OwnedBy, OnStack, ForAll, Shared
<1>10. (top.unique <= unique)' BY <1>1, <1>2 DEF Shared, Counted
<1>11. ASSUME NEW w \in Threads PROVE ForAll(w)'
  <2>1. ForAll(w) /\ st[w] \in Locals BY <1>1, SInvForAll DEF Shared
  <2>2. OwnedBy(w)' BY <1>1, <1>2, <1>7, <2>1 DEF ForAll, OwnedBy, OnStack, CurrentFor
  <2>3. FreshFor(w)'
    <3>1. Counted /\ \A u \in Threads : FreshFor(u) BY <1>1 DEF Shared, SInv, Fresh
    <3>2. CASE w = t BY <3>1, <3>2, <1>2, <1>7 DEF FreshFor, Counted
    <3>3. CASE w # t BY <3>1, <3>3, <1>2, <1>7 DEF FreshFor, Counted
    <3> QED BY <3>2, <3>3
  <2>4. CurrentFor(w)'
    <3>1. CASE w = t
      BY <3>1, <1>4, <1>1, <1>2, <1>7, <2>1
      DEF ForAll, CurrentFor, Still, OwnedBy, OnStack, Shared, Locals, FreshFor
    <3>2. CASE w # t
      BY <3>2, <1>4, <1>1, <1>2, <1>7, <2>1
      DEF ForAll, CurrentFor, Still, OwnedBy, OnStack, Shared, Locals, FreshFor
    <3> QED BY <3>1, <3>2
  <2>5. LoneFor(w)'
    BY <1>1, <1>2, <1>7, <2>1 DEF ForAll, LoneFor, LonePopper, SInv, Listed, Shared
  <2> QED BY <2>2, <2>3, <2>4, <2>5 DEF ForAll
<1> QED BY <1>8, <1>9, <1>10, <1>11, Together

LEMMA GiveKeeps == ASSUME SInv, NEW t \in Threads, Give(t) PROVE SInv'
<1> USE NullIsNoNode DEF Locally, Holding, Taking, Looking, Popping, Numbered
<1>1. Shared /\ ForAll(t) /\ st[t] \in Locals BY SharedTyped, SInvForAll DEF Shared
<1>2. pool' = pool \cup {st[t].node} /\ UNCHANGED <<poppers, top, stack, unique, pNext, Data>>
  BY DEF Give
<1>3. Step(t, "give", Outside)
  BY DEF Give
<1>4. st[t].node \in Nodes BY <1>1, <1>3 DEF Step, ForAll, OwnedBy
<1>5. Outside \in Locals BY <1>4, <1>1, <1>2 DEF Shared, Counted, Locals, StackPlaces, Outside
<1>6. /\ st[t].at = "give" /\ st' \in [Threads -> Locals] /\ st'[t] = Outside
      /\ \A u \in Threads \ {t} : st'[u] = st[u]
  BY <1>1, <1>3, <1>5, StepTyped
<1>7. Locally(t, "give", "out", 0, Null, 0, Null, Null, NoValue)
  BY <1>1, <1>6 DEF Locals, Outside
<1>8. StackTypeOK' BY <1>4, <1>1, <1>2, <1>6 DEF Give, SInv, StackTypeOK, Shared, Counted, Locals
<1>9. Listed' /\ \A n \in pool' : ~ OnStack(n)'
  BY <1>1, <1>2, <1>7 DEF SInv, Listed, Owned, OwnedBy, OnStack, ForAll, Shared
<1>10. (top.unique <= unique)' BY <1>1, <1>2 DEF Shared, Counted
<1>11. ASSUME NEW w \in Threads PROVE ForAll(w)'
  <2>1. ForAll(w) /\ st[w] \in Locals BY <1>1, SInvForAll DEF Shared
  <2>2. OwnedBy(w)' BY <1>1, <1>2, <1>7, <2>1 DEF ForAll, OwnedBy, OnStack, CurrentFor
  <2>3. FreshFor(w)'
    <3>1. Counted /\ \A u \in Threads : FreshFor(u) BY <1>1 DEF Shared, SInv, Fresh
    <3>2. CASE w = t BY <3>1, <3>2, <1>2, <1>7 DEF FreshFor, Counted
    <3>3. CASE w # t BY <3>1, <3>3, <1>2, <1>7 DEF FreshFor, Counted
    <3> QED BY <3>2, <3>3
  <2>4. CurrentFor(w)'
    <3>1. CASE w = t
      BY <3>1, <1>4, <1>1, <1>2, <1>7, <2>1
      DEF ForAll, CurrentFor, Still, OwnedBy, OnStack, Shared, Locals, FreshFor
    <3>2. CASE w # t
      BY <3>2, <1>4, <1>1, <1>2, <1>7, <2>1
      DEF ForAll, CurrentFor, Still, OwnedBy, OnStack, Shared, Locals, FreshFor
    <3> QED BY <3>1, <3>2
  <2>5. LoneFor(w)'
    BY <1>1, <1>2, <1>7, <2>1 DEF ForAll, LoneFor, LonePopper, SInv, Listed, Shared
  <2> QED BY <2>2, <2>3, <2>4, <2>5 DEF ForAll
<1> QED BY <1>8, <1>9, <1>10, <1>11, Together
-----------------------------------------------------------------------------
LEMMA StepSInv == ASSUME SInv, [StackNext]_stackVars PROVE SInv'
<1>1. CASE UNCHANGED stackVars
  BY <1>1 DEF stackVars, SInv, StackTypeOK, Listed, Owned, OwnedBy, Fresh, FreshFor, Current,
    CurrentFor, Lone, LoneFor, OnStack, Still, LonePopper
<1>2. CASE StackNext
  <2>1. PICK t \in Threads : Push(t) \/ Pop(t) BY <1>2 DEF StackNext
  <2>2. PushAlloc(t) => SInv' BY PushAllocKeeps
  <2>3. PushId(t) => SInv' BY PushIdKeeps
  <2>4. PushUnique(t) => SInv' BY PushUniqueKeeps
  <2>5. PushNode(t) => SInv' BY PushNodeKeeps
  <2>6. Link(t) => SInv' BY LinkKeeps
  <2>7. PushSwap(t) => SInv' BY PushSwapRetryKeeps, PushSwapDoneKeeps
  <2>8. Grow(t) => SInv' BY GrowKeeps
  <2>9. Grown(t) => SInv' BY GrownKeeps
  <2>10. PopId(t) => SInv' BY PopIdKeeps
  <2>11. PopNode(t) => SInv' BY PopNodeKeeps
  <2>12. PopUnique(t) => SInv' BY PopUniqueEmptyKeeps, PopUniqueSomeKeeps
  <2>13. Second(t) => SInv' BY SecondKeeps
  <2>14. Live(t) => SInv' BY LiveFaultKeeps, LiveSomeKeeps
  <2>15. NextNode(t) => SInv' BY NextNodeKeeps
  <2>16. PopSwap(t) => SInv' BY PopSwapRetryKeeps, PopSwapDoneKeeps
  <2>17. Shrink(t) => SInv' BY ShrinkKeeps
  <2>18. Shrunk(t) => SInv' BY ShrunkKeeps
  <2>19. GetData(t) => SInv' BY GetDataKeeps
  <2>20. Give(t) => SInv' BY GiveKeeps
  <2> QED
    BY <2>1, <2>2, <2>3, <2>4, <2>5, <2>6, <2>7, <2>8, <2>9, <2>10, <2>11, <2>12, <2>13, <2>14,
       <2>15, <2>16, <2>17, <2>18, <2>19, <2>20
    DEF Push, Pop
<1> QED BY <1>1, <1>2

-----------------------------------------------------------------------------
(* Theorems *)

\* CStack_LF keeps its types, and its links, owners, numbers and what the threads have read
\* of the top agree, whatever the threads do.
THEOREM StackInvariant == StackSpec => []SInv
<1>1. SInv /\ [StackNext]_stackVars => SInv' BY StepSInv
<1> QED BY <1>1, InitSInv, PTL DEF StackSpec

\* CStack_LF, whatever its threads: every variable keeps its type.
THEOREM StackTypeCorrect == StackSpec => []StackTypeOK
<1>1. SInv => StackTypeOK BY DEF SInv
<1> QED BY <1>1, StackInvariant, PTL

\* A lone thread that pops never follows NULL, whatever the threads that push do
\* (LockFreeStack.h:132): the stack it has seen a node on is not emptied before it looks again.
THEOREM StackPopIsSafe == StackSpec => []LonePopperSafe
<1>1. SInv => LonePopperSafe BY DEF SInv, Lone, LoneFor, LonePopperSafe, Alive
<1> QED BY <1>1, StackInvariant, PTL

-----------------------------------------------------------------------------
(* The refinement: each step is a step of one call of the abstract stack, or none. *)

\* What stands for the abstract variables.
Items == [i \in DOMAIN stack |-> Data[stack[i]]]
Calls == [t \in Threads |-> CallOf(t)]

LEMMA AbstractVars ==
  /\ Abstract!vars = <<Items, Calls>>
  /\ Abstract!Init <=> Items = <<>> /\ Calls = [t \in Threads |-> Abstract!NoCall]
BY DEF Abstract!vars, Abstract!Init, Items, Calls

Call(op, v) == [op |-> op, val |-> v]

\* The call of a thread by where it is.
LEMMA CallAt ==
  ASSUME NEW t \in Threads
  PROVE  /\ st[t].at = "out" => CallOf(t) = Call("none", NoValue)
         /\ st[t].at \in {"pushId", "pushUnique", "pushNode", "link", "pushSwap"} =>
              CallOf(t) = Call("push", st[t].val)
         /\ st[t].at \in {"grow", "grown"} => CallOf(t) = Call("done", NoValue)
         /\ st[t].at = "popUnique" /\ st[t].preNode = Null => CallOf(t) = Call("done", NoValue)
         /\ st[t].at = "popUnique" /\ st[t].preNode # Null => CallOf(t) = Call("pop", NoValue)
         /\ st[t].at \in {"popNode", "second", "live", "next", "popSwap", "fault"} =>
              CallOf(t) = Call("pop", NoValue)
         /\ st[t].at \in {"shrink", "shrunk", "getData"} =>
              CallOf(t) = Call("done", Data[st[t].preNode])
         /\ st[t].at = "give" => CallOf(t) = Call("done", st[t].val)
BY DEF CallOf, Call

LEMMA CallAtNext ==
  ASSUME NEW t \in Threads
  PROVE  /\ st'[t].at = "out" => CallOf(t)' = Call("none", NoValue)
         /\ st'[t].at \in {"pushId", "pushUnique", "pushNode", "link", "pushSwap"} =>
              CallOf(t)' = Call("push", st'[t].val)
         /\ st'[t].at \in {"grow", "grown"} => CallOf(t)' = Call("done", NoValue)
         /\ st'[t].at = "popUnique" /\ st'[t].preNode = Null =>
              CallOf(t)' = Call("done", NoValue)
         /\ st'[t].at = "popUnique" /\ st'[t].preNode # Null =>
              CallOf(t)' = Call("pop", NoValue)
         /\ st'[t].at \in {"popNode", "second", "live", "next", "popSwap", "fault"} =>
              CallOf(t)' = Call("pop", NoValue)
         /\ st'[t].at \in {"shrink", "shrunk", "getData"} =>
              CallOf(t)' = Call("done", Data'[st'[t].preNode])
         /\ st'[t].at = "give" => CallOf(t)' = Call("done", st'[t].val)
BY DEF CallOf, Call

-----------------------------------------------------------------------------
LEMMA InitRefines == StackInit => Abstract!Init
<1> SUFFICES ASSUME StackInit PROVE Abstract!Init OBVIOUS
<1>1. Items = <<>>
  BY DEF StackInit, Items
<1>2. ASSUME NEW t \in Threads PROVE CallOf(t) = Abstract!NoCall
  BY CallAt DEF StackInit, Outside, Abstract!NoCall, Call
<1> QED BY <1>1, <1>2, AbstractVars DEF Calls

\* A step of t that leaves the items alone is one of the calls the abstract stack has without
\* them, or none.
LEMMA CallsMove ==
  ASSUME NEW t \in Threads,
         \A u \in Threads \ {t} : CallOf(u)' = CallOf(u)
  PROVE  /\ Calls' = [Calls EXCEPT ![t] = CallOf(t)'] /\ Calls[t] = CallOf(t)
         /\ CallOf(t)' = CallOf(t) => Calls' = Calls
BY DEF Calls

LEMMA OthersStay ==
  ASSUME NEW t \in Threads, \A u \in Threads \ {t} : st'[u] = st[u],
         \A u \in Threads \ {t} : st[u].at \in Taking => Data'[st[u].preNode] = Data[st[u].preNode]
  PROVE  \A u \in Threads \ {t} : CallOf(u)' = CallOf(u)
BY DEF CallOf, Taking

LEMMA ItemsStay ==
  ASSUME stack' = stack, \A i \in DOMAIN stack : Data'[stack[i]] = Data[stack[i]]
  PROVE  Items' = Items
BY DEF Items

LEMMA Moves ==
  ASSUME NEW t \in Threads, Items' = Items, \A u \in Threads \ {t} : CallOf(u)' = CallOf(u),
         \/ CallOf(t)' = CallOf(t)
         \/ \E v \in Values : CallOf(t) = Call("none", NoValue) /\ CallOf(t)' = Call("push", v)
         \/ CallOf(t) = Call("none", NoValue) /\ CallOf(t)' = Call("pop", NoValue)
         \/ /\ CallOf(t) = Call("pop", NoValue) /\ CallOf(t)' = Call("done", NoValue)
            /\ Items = <<>>
         \/ CallOf(t).op = "done" /\ CallOf(t)' = Call("none", NoValue)
  PROVE  [Abstract!Next]_(Abstract!vars)
<1>1. Calls' = [Calls EXCEPT ![t] = CallOf(t)'] /\ Calls[t] = CallOf(t) BY CallsMove
<1>2. CASE CallOf(t)' = CallOf(t) BY <1>2, CallsMove, AbstractVars DEF Abstract!vars, Items, Calls
<1>3. CASE \E v \in Values : CallOf(t) = Call("none", NoValue) /\ CallOf(t)' = Call("push", v)
  <2>0. PICK v \in Values : CallOf(t) = Call("none", NoValue) /\ CallOf(t)' = Call("push", v)
    BY <1>3
  <2>1. Calls[t].op = "none" /\ Calls' = [Calls EXCEPT ![t] = Call("push", v)]
    BY <1>1, <2>0 DEF Call
  <2>2. Abstract!BeginPush(t)
    BY <2>1 DEF Abstract!BeginPush, Abstract!Becomes, Call, Items, Calls
  <2> QED BY <2>2 DEF Abstract!Next
<1>4. CASE CallOf(t) = Call("none", NoValue) /\ CallOf(t)' = Call("pop", NoValue)
  <2>1. Abstract!BeginPop(t)
    BY <1>1, <1>4 DEF Abstract!BeginPop, Abstract!Becomes, Call, Items, Calls
  <2> QED BY <2>1 DEF Abstract!Next
<1>5. CASE /\ CallOf(t) = Call("pop", NoValue) /\ CallOf(t)' = Call("done", NoValue)
           /\ Items = <<>>
  <2>1. Abstract!PopNothing(t)
    BY <1>1, <1>5 DEF Abstract!PopNothing, Abstract!Becomes, Call, Items, Calls
  <2> QED BY <2>1 DEF Abstract!Next
<1>6. CASE CallOf(t).op = "done" /\ CallOf(t)' = Call("none", NoValue)
  <2>1. Abstract!End(t)
    BY <1>1, <1>6 DEF Abstract!End, Abstract!NoCall, Call, Items, Calls
  <2> QED BY <2>1 DEF Abstract!Next
<1> QED BY <1>2, <1>3, <1>4, <1>5, <1>6

-----------------------------------------------------------------------------
(* Sequences of nodes and the sequences of what they hold *)

LEMMA Mapped ==
  ASSUME NEW S, NEW T, NEW s \in Seq(S), NEW f \in [S -> T],
         NEW g, g = [i \in DOMAIN s |-> f[s[i]]]
  PROVE  /\ g \in Seq(T) /\ Len(g) = Len(s)
         /\ \A i \in 1 .. Len(s) : g[i] = f[s[i]]
<1>1. Len(s) \in Nat /\ DOMAIN s = 1 .. Len(s) /\ \A i \in 1 .. Len(s) : s[i] \in S OBVIOUS
<1>2. g \in [1 .. Len(s) -> T] BY <1>1
<1> QED BY <1>1, <1>2

LEMMA MappedPush ==
  ASSUME NEW S, NEW T, NEW s \in Seq(S), NEW f \in [S -> T], NEW n \in S
  PROVE  [i \in DOMAIN (<<n>> \o s) |-> f[(<<n>> \o s)[i]]] =
           <<f[n]>> \o [i \in DOMAIN s |-> f[s[i]]]
<1> DEFINE r == <<n>> \o s
           g == [i \in DOMAIN s |-> f[s[i]]]
           h == [i \in DOMAIN r |-> f[r[i]]]
<1>1. <<n>> \in Seq(S) /\ Len(<<n>>) = 1 /\ <<n>>[1] = n OBVIOUS
<1>2. <<f[n]>> \in Seq(T) /\ Len(<<f[n]>>) = 1 /\ <<f[n]>>[1] = f[n] OBVIOUS
<1>3. /\ r \in Seq(S) /\ Len(r) = 1 + Len(s)
      /\ \A i \in 1 .. 1 + Len(s) : r[i] = IF i <= 1 THEN <<n>>[i] ELSE s[i - 1]
  BY <1>1, ConcatProperties
<1>4. g \in Seq(T) /\ Len(g) = Len(s) /\ \A i \in 1 .. Len(s) : g[i] = f[s[i]]
  BY Mapped
<1>5. h \in Seq(T) /\ Len(h) = Len(r) /\ \A i \in 1 .. Len(r) : h[i] = f[r[i]]
  BY <1>3, Mapped
<1>6. /\ <<f[n]>> \o g \in Seq(T) /\ Len(<<f[n]>> \o g) = 1 + Len(g)
      /\ \A i \in 1 .. 1 + Len(g) : (<<f[n]>> \o g)[i] = IF i <= 1 THEN <<f[n]>>[i] ELSE g[i - 1]
  BY <1>2, <1>4, ConcatProperties
<1>7. Len(s) \in Nat OBVIOUS
<1> HIDE DEF r, g, h
<1>8. ASSUME NEW i \in 1 .. Len(h) PROVE h[i] = (<<f[n]>> \o g)[i]
  <2>1. i \in 1 .. 1 + Len(s) /\ h[i] = f[r[i]] BY <1>3, <1>5
  <2>2. CASE i = 1 BY <1>1, <1>2, <1>3, <1>4, <1>6, <2>1, <2>2
  <2>3. CASE i # 1
    <3>1. i - 1 \in 1 .. Len(s) /\ ~ i <= 1 BY <1>7, <2>1, <2>3
    <3> QED BY <1>3, <1>4, <1>6, <2>1, <3>1
  <2> QED BY <2>2, <2>3
<1>9. h = <<f[n]>> \o g BY <1>3, <1>4, <1>5, <1>6, <1>8, SeqEqual
<1> QED BY <1>9 DEF r, g, h

LEMMA MappedPop ==
  ASSUME NEW S, NEW T, NEW s \in Seq(S), NEW f \in [S -> T], s # <<>>
  PROVE  /\ [i \in DOMAIN SubSeq(s, 2, Len(s)) |-> f[SubSeq(s, 2, Len(s))[i]]] =
              Tail([i \in DOMAIN s |-> f[s[i]]])
         /\ Head([i \in DOMAIN s |-> f[s[i]]]) = f[s[1]]
         /\ [i \in DOMAIN s |-> f[s[i]]] # <<>>
<1> DEFINE r == SubSeq(s, 2, Len(s))
           g == [i \in DOMAIN s |-> f[s[i]]]
           h == [i \in DOMAIN r |-> f[r[i]]]
<1>1. r = Tail(s) BY TailIsSubSeq
<1>2. r \in Seq(S) /\ Len(r) = Len(s) - 1 /\ \A i \in 1 .. Len(r) : r[i] = s[i + 1]
  BY <1>1, HeadTailProperties
<1>3. g \in Seq(T) /\ Len(g) = Len(s) /\ \A i \in 1 .. Len(s) : g[i] = f[s[i]]
  BY Mapped
<1>4. h \in Seq(T) /\ Len(h) = Len(r) /\ \A i \in 1 .. Len(r) : h[i] = f[r[i]]
  BY <1>2, Mapped
<1>5. Len(s) \in Nat /\ Len(s) >= 1 OBVIOUS
<1> HIDE DEF r, g, h
<1>6. g # <<>> BY <1>3, <1>5
<1>7. Tail(g) \in Seq(T) /\ Len(Tail(g)) = Len(g) - 1
      /\ \A i \in 1 .. Len(Tail(g)) : Tail(g)[i] = g[i + 1]
  BY <1>3, <1>6, HeadTailProperties
<1>8. ASSUME NEW i \in 1 .. Len(h) PROVE h[i] = Tail(g)[i]
  <2>1. i \in 1 .. Len(s) - 1 /\ i + 1 \in 1 .. Len(s) BY <1>2, <1>4, <1>5
  <2> QED BY <1>2, <1>3, <1>4, <1>7, <2>1
<1>9. h = Tail(g) BY <1>2, <1>3, <1>4, <1>7, <1>8, SeqEqual
<1>10. Head(g) = f[s[1]] BY <1>3, <1>5, <1>6
<1> QED BY <1>6, <1>9, <1>10 DEF r, g, h

-----------------------------------------------------------------------------
(* The steps *)

LEMMA SharedFacts ==
  ASSUME SInv
  PROVE  /\ stack \in Seq(Nodes) /\ Data \in [Nodes -> Values \cup {NoValue}]
         /\ \A i \in DOMAIN stack : stack[i] \in Nodes /\ OnStack(stack[i])
         /\ stack = <<>> => Items = <<>>
<1>1. stack \in Seq(Nodes) /\ Data \in [Nodes -> Values \cup {NoValue}]
  BY DEF SInv, StackTypeOK
<1>2. DOMAIN stack = 1 .. Len(stack) /\ \A i \in 1 .. Len(stack) : stack[i] \in Nodes BY <1>1
<1>3. stack = <<>> => Items = <<>> BY DEF Items
<1> QED BY <1>1, <1>2, <1>3 DEF OnStack

\* The call of every other thread is as it was: what a thread holds, no other changes.
LEMMA OthersKeep ==
  ASSUME SInv, NEW t \in Threads, \A u \in Threads \ {t} : st'[u] = st[u],
         \/ Data' = Data
         \/ st[t].at \in Holding /\ \A n \in Nodes : n # st[t].node => Data'[n] = Data[n]
  PROVE  \A u \in Threads \ {t} : CallOf(u)' = CallOf(u)
<1>1. ASSUME NEW u \in Threads \ {t}, st[u].at \in Taking
      PROVE  Data'[st[u].preNode] = Data[st[u].preNode]
  <2>1. /\ st[u].node \in Nodes /\ st[u].preNode = st[u].node
        /\ st[t].at \in Holding => st[t].node # st[u].node
    BY <1>1 DEF SInv, Owned, OwnedBy, Holding
  <2> QED BY <2>1
<1> QED BY <1>1, OthersStay

\* A successful exchange of Push is the push.
LEMMA PushDone ==
  ASSUME SInv, NEW t \in Threads, PushSwap(t), Same(t)
  PROVE  [Abstract!Next]_(Abstract!vars)
<1>1. Shared /\ ForAll(t) /\ st[t] \in Locals BY SharedTyped, SInvForAll DEF Shared
<1>2. /\ stack' = <<st[t].node>> \o stack /\ Data' = Data
      /\ Step(t, "pushSwap", [st[t] EXCEPT !.at = "grow"])
  BY DEF PushSwap, Swap
<1>3. [st[t] EXCEPT !.at = "grow"] \in Locals BY <1>1 DEF Locals, StackPlaces
<1>4. /\ st[t].at = "pushSwap" /\ st'[t] = [st[t] EXCEPT !.at = "grow"]
      /\ \A u \in Threads \ {t} : st'[u] = st[u]
  BY <1>1, <1>2, <1>3, StepTyped
<1>5. st'[t].at = "grow" BY <1>1, <1>4 DEF Locals
<1>6. st[t].node \in Nodes /\ Data[st[t].node] = st[t].val
  BY <1>1, <1>4 DEF ForAll, OwnedBy, CurrentFor, Holding
<1>7. Items' = <<st[t].val>> \o Items
  <2>1. PICK n \in Nodes : n = st[t].node BY <1>6
  <2>2. [i \in DOMAIN (<<n>> \o stack) |-> Data[(<<n>> \o stack)[i]]] =
          <<Data[n]>> \o [i \in DOMAIN stack |-> Data[stack[i]]]
    BY SharedFacts, MappedPush
  <2>3. Items' = [i \in DOMAIN (<<n>> \o stack) |-> Data[(<<n>> \o stack)[i]]]
    BY <1>2, <2>1 DEF Items
  <2> QED BY <1>6, <2>1, <2>2, <2>3 DEF Items
<1>8. \A u \in Threads \ {t} : CallOf(u)' = CallOf(u) BY <1>2, <1>4, OthersKeep
<1>9. CallOf(t) = Call("push", st[t].val) /\ CallOf(t)' = Call("done", NoValue)
  BY <1>4, <1>5, CallAt, CallAtNext
<1>10. Calls' = [Calls EXCEPT ![t] = Call("done", NoValue)] /\ Calls[t] = Call("push", st[t].val)
  BY <1>8, <1>9, CallsMove
<1>11. Abstract!DoPush(t)
  <2>1. Calls[t].op = "push" /\ Calls[t].val = st[t].val BY <1>10 DEF Call
  <2> QED BY <1>7, <1>10, <2>1 DEF Abstract!DoPush, Abstract!Becomes, Call, Items, Calls
<1> QED BY <1>11 DEF Abstract!Next

\* A successful exchange of Pop is the pop.
LEMMA PopDone ==
  ASSUME SInv, NEW t \in Threads, PopSwap(t), Same(t)
  PROVE  [Abstract!Next]_(Abstract!vars)
<1>1. Shared /\ ForAll(t) /\ st[t] \in Locals BY SharedTyped, SInvForAll DEF Shared
<1>2. /\ stack' = SubSeq(stack, 2, Len(stack)) /\ Data' = Data
      /\ Step(t, "popSwap", [st[t] EXCEPT !.at = "shrink"])
  BY DEF PopSwap, Swap
<1>3. [st[t] EXCEPT !.at = "shrink"] \in Locals BY <1>1 DEF Locals, StackPlaces
<1>4. /\ st[t].at = "popSwap" /\ st'[t] = [st[t] EXCEPT !.at = "shrink"]
      /\ \A u \in Threads \ {t} : st'[u] = st[u]
  BY <1>1, <1>2, <1>3, StepTyped
<1>5. st'[t].at = "shrink" /\ st'[t].preNode = st[t].preNode BY <1>1, <1>4 DEF Locals
<1>6. stack # <<>> /\ stack[1] = st[t].preNode
  <2>1. top.node = st[t].preNode BY DEF Same
  <2>2. st[t].preNode \in Nodes BY <1>1, <1>4 DEF ForAll, CurrentFor, Looking
  <2> QED BY <2>1, <2>2, NullIsNoNode DEF SInv, Listed
<1>7. Items' = Tail(Items) /\ Head(Items) = Data[stack[1]] /\ Items # <<>>
  <2>1. Items' = [i \in DOMAIN SubSeq(stack, 2, Len(stack)) |->
                    Data[SubSeq(stack, 2, Len(stack))[i]]]
    BY <1>2 DEF Items
  <2> QED BY <1>6, <2>1, SharedFacts, MappedPop DEF Items
<1>8. \A u \in Threads \ {t} : CallOf(u)' = CallOf(u) BY <1>2, <1>4, OthersKeep
<1>9. CallOf(t) = Call("pop", NoValue) /\ CallOf(t)' = Call("done", Data[st[t].preNode])
  BY <1>2, <1>4, <1>5, CallAt, CallAtNext
<1>10. /\ Calls' = [Calls EXCEPT ![t] = Call("done", Head(Items))]
       /\ Calls[t] = Call("pop", NoValue)
  BY <1>6, <1>7, <1>8, <1>9, CallsMove
<1>11. Abstract!DoPop(t)
  <2>1. Calls[t].op = "pop" BY <1>10 DEF Call
  <2> QED BY <1>7, <1>10, <2>1 DEF Abstract!DoPop, Abstract!Becomes, Call, Items, Calls
<1> QED BY <1>11 DEF Abstract!Next

\* A step that changes nothing but its thread's locals.
LEMMA Elsewhere ==
  ASSUME SInv, NEW t \in Threads, NEW from, NEW new \in Locals, Step(t, from, new),
         stack' = stack, Data' = Data
  PROVE  /\ st[t].at = from /\ st[t] \in Locals /\ st'[t] = new /\ Items' = Items
         /\ \A u \in Threads \ {t} : CallOf(u)' = CallOf(u)
<1>1. /\ st[t].at = from /\ st[t] \in Locals /\ st'[t] = new
      /\ \A u \in Threads \ {t} : st'[u] = st[u]
  BY SharedTyped, StepTyped
<1>2. Items' = Items BY ItemsStay
<1> QED BY <1>1, <1>2, OthersKeep

LEMMA PushIdStep ==
  ASSUME SInv, NEW t \in Threads, PushId(t)
  PROVE  [Abstract!Next]_(Abstract!vars)
<1>1. Shared /\ ForAll(t) /\ st[t] \in Locals BY SharedTyped, SInvForAll DEF Shared
<1>2. /\ Step(t, "pushId", [st[t] EXCEPT !.at = "pushUnique", !.id = unique + 1])
      /\ stack' = stack /\ Data' = Data
  BY DEF PushId, TakeId
<1>3. unique + 1 \in Nat BY <1>1, <1>2 DEF Shared, Counted
<1>4. [st[t] EXCEPT !.at = "pushUnique", !.id = unique + 1] \in Locals
  BY <1>3, <1>1 DEF Shared, Counted, Locals, StackPlaces
<1>5. /\ st[t].at = "pushId" /\ Items' = Items
      /\ st'[t] = [st[t] EXCEPT !.at = "pushUnique", !.id = unique + 1]
      /\ \A u \in Threads \ {t} : CallOf(u)' = CallOf(u)
  BY <1>2, <1>4, Elsewhere
<1>6. st'[t].at = "pushUnique" /\ st'[t].preNode = st[t].preNode /\ st'[t].val = st[t].val
  BY <1>1, <1>5 DEF Locals
<1>7. CallOf(t)' = CallOf(t) BY <1>2, <1>5, <1>6, CallAt, CallAtNext
<1> QED BY <1>5, <1>7, Moves

LEMMA PushUniqueStep ==
  ASSUME SInv, NEW t \in Threads, PushUnique(t)
  PROVE  [Abstract!Next]_(Abstract!vars)
<1>1. Shared /\ ForAll(t) /\ st[t] \in Locals BY SharedTyped, SInvForAll DEF Shared
<1>2. /\ Step(t, "pushUnique", [st[t] EXCEPT !.at = "pushNode", !.preUnique = top.unique])
      /\ stack' = stack /\ Data' = Data
  BY DEF PushUnique, Load
<1>4. [st[t] EXCEPT !.at = "pushNode", !.preUnique = top.unique] \in Locals
  BY <1>1 DEF Shared, Counted, Locals, StackPlaces
<1>5. /\ st[t].at = "pushUnique" /\ Items' = Items
      /\ st'[t] = [st[t] EXCEPT !.at = "pushNode", !.preUnique = top.unique]
      /\ \A u \in Threads \ {t} : CallOf(u)' = CallOf(u)
  BY <1>2, <1>4, Elsewhere
<1>6. st'[t].at = "pushNode" /\ st'[t].preNode = st[t].preNode /\ st'[t].val = st[t].val
  BY <1>1, <1>5 DEF Locals
<1>7. CallOf(t)' = CallOf(t) BY <1>2, <1>5, <1>6, CallAt, CallAtNext
<1> QED BY <1>5, <1>7, Moves

LEMMA PushNodeStep ==
  ASSUME SInv, NEW t \in Threads, PushNode(t)
  PROVE  [Abstract!Next]_(Abstract!vars)
<1>1. Shared /\ ForAll(t) /\ st[t] \in Locals BY SharedTyped, SInvForAll DEF Shared
<1>2. /\ Step(t, "pushNode", [st[t] EXCEPT !.at = "link", !.preNode = top.node])
      /\ stack' = stack /\ Data' = Data
  BY DEF PushNode, Load
<1>4. [st[t] EXCEPT !.at = "link", !.preNode = top.node] \in Locals
  BY <1>1 DEF Shared, Counted, Locals, StackPlaces
<1>5. /\ st[t].at = "pushNode" /\ Items' = Items
      /\ st'[t] = [st[t] EXCEPT !.at = "link", !.preNode = top.node]
      /\ \A u \in Threads \ {t} : CallOf(u)' = CallOf(u)
  BY <1>2, <1>4, Elsewhere
<1>6. st'[t].at = "link" /\ st'[t].val = st[t].val BY <1>1, <1>5 DEF Locals
<1>7. CallOf(t)' = CallOf(t) BY <1>2, <1>5, <1>6, CallAt, CallAtNext
<1> QED BY <1>5, <1>7, Moves

LEMMA PushRetryStep ==
  ASSUME SInv, NEW t \in Threads, PushSwap(t), ~ Same(t)
  PROVE  [Abstract!Next]_(Abstract!vars)
<1>1. Shared /\ ForAll(t) /\ st[t] \in Locals BY SharedTyped, SInvForAll DEF Shared
<1>2. /\ Step(t, "pushSwap", [st[t] EXCEPT !.at = "pushUnique"])
      /\ stack' = stack /\ Data' = Data
  BY DEF PushSwap, Swap
<1>4. [st[t] EXCEPT !.at = "pushUnique"] \in Locals
  BY <1>1 DEF Shared, Counted, Locals, StackPlaces
<1>5. /\ st[t].at = "pushSwap" /\ Items' = Items
      /\ st'[t] = [st[t] EXCEPT !.at = "pushUnique"]
      /\ \A u \in Threads \ {t} : CallOf(u)' = CallOf(u)
  BY <1>2, <1>4, Elsewhere
<1>6. st'[t].at = "pushUnique" /\ st'[t].preNode = st[t].preNode /\ st'[t].val = st[t].val
  BY <1>1, <1>5 DEF Locals
<1>7. CallOf(t)' = CallOf(t) BY <1>2, <1>5, <1>6, CallAt, CallAtNext
<1> QED BY <1>5, <1>7, Moves

LEMMA GrowStep ==
  ASSUME SInv, NEW t \in Threads, Grow(t)
  PROVE  [Abstract!Next]_(Abstract!vars)
<1>1. Shared /\ ForAll(t) /\ st[t] \in Locals BY SharedTyped, SInvForAll DEF Shared
<1>2. /\ Step(t, "grow", [st[t] EXCEPT !.at = "grown", !.size = useSize])
      /\ stack' = stack /\ Data' = Data
  BY DEF Grow, Load
<1>4. [st[t] EXCEPT !.at = "grown", !.size = useSize] \in Locals
  BY <1>1 DEF Shared, Counted, Locals, StackPlaces
<1>5. /\ st[t].at = "grow" /\ Items' = Items
      /\ st'[t] = [st[t] EXCEPT !.at = "grown", !.size = useSize]
      /\ \A u \in Threads \ {t} : CallOf(u)' = CallOf(u)
  BY <1>2, <1>4, Elsewhere
<1>6. st'[t].at = "grown" /\ st'[t].preNode = st[t].preNode /\ st'[t].val = st[t].val
  BY <1>1, <1>5 DEF Locals
<1>7. CallOf(t)' = CallOf(t) BY <1>2, <1>5, <1>6, CallAt, CallAtNext
<1> QED BY <1>5, <1>7, Moves

LEMMA GrownStep ==
  ASSUME SInv, NEW t \in Threads, Grown(t)
  PROVE  [Abstract!Next]_(Abstract!vars)
<1>1. Shared /\ ForAll(t) /\ st[t] \in Locals BY SharedTyped, SInvForAll DEF Shared
<1>2. /\ Step(t, "grown", Outside)
      /\ stack' = stack /\ Data' = Data
  BY DEF Grown, StoreSize
<1>4. Outside \in Locals BY <1>1 DEF Shared, Counted, Locals, StackPlaces, Outside
<1>5. /\ st[t].at = "grown" /\ Items' = Items
      /\ st'[t] = Outside
      /\ \A u \in Threads \ {t} : CallOf(u)' = CallOf(u)
  BY <1>2, <1>4, Elsewhere
<1>6. st'[t].at = "out" BY <1>5 DEF Outside
<1>7. CallOf(t).op = "done" /\ CallOf(t)' = Call("none", NoValue)
  BY <1>5, <1>6, CallAt, CallAtNext DEF Call
<1> QED BY <1>5, <1>7, Moves

LEMMA PopIdStep ==
  ASSUME SInv, NEW t \in Threads, PopId(t)
  PROVE  [Abstract!Next]_(Abstract!vars)
<1>1. Shared /\ ForAll(t) /\ st[t] \in Locals BY SharedTyped, SInvForAll DEF Shared
<1>2. /\ Step(t, "out", [st[t] EXCEPT !.at = "popNode", !.id = unique + 1])
      /\ stack' = stack /\ Data' = Data
  BY DEF PopId, TakeId
<1>3. unique + 1 \in Nat BY <1>1, <1>2 DEF Shared, Counted
<1>4. [st[t] EXCEPT !.at = "popNode", !.id = unique + 1] \in Locals
  BY <1>3, <1>1 DEF Shared, Counted, Locals, StackPlaces
<1>5. /\ st[t].at = "out" /\ Items' = Items
      /\ st'[t] = [st[t] EXCEPT !.at = "popNode", !.id = unique + 1]
      /\ \A u \in Threads \ {t} : CallOf(u)' = CallOf(u)
  BY <1>2, <1>4, Elsewhere
<1>6. st'[t].at = "popNode" BY <1>1, <1>5 DEF Locals
<1>7. CallOf(t) = Call("none", NoValue) /\ CallOf(t)' = Call("pop", NoValue)
  BY <1>5, <1>6, CallAt, CallAtNext
<1> QED BY <1>5, <1>7, Moves

LEMMA PopNodeEmptyStep ==
  ASSUME SInv, NEW t \in Threads, PopNode(t), top.node = Null
  PROVE  [Abstract!Next]_(Abstract!vars)
<1>1. Shared /\ ForAll(t) /\ st[t] \in Locals BY SharedTyped, SInvForAll DEF Shared
<1>2. /\ Step(t, "popNode", [st[t] EXCEPT !.at = "popUnique", !.preNode = top.node])
      /\ stack' = stack /\ Data' = Data
  BY DEF PopNode, Load
<1>4. [st[t] EXCEPT !.at = "popUnique", !.preNode = top.node] \in Locals
  BY <1>1 DEF Shared, Counted, Locals, StackPlaces
<1>5. /\ st[t].at = "popNode" /\ Items' = Items
      /\ st'[t] = [st[t] EXCEPT !.at = "popUnique", !.preNode = top.node]
      /\ \A u \in Threads \ {t} : CallOf(u)' = CallOf(u)
  BY <1>2, <1>4, Elsewhere
<1>6. st'[t].at = "popUnique" /\ st'[t].preNode = Null BY <1>1, <1>5 DEF Locals
<1>7. CallOf(t) = Call("pop", NoValue) /\ CallOf(t)' = Call("done", NoValue)
  BY <1>5, <1>6, CallAt, CallAtNext
<1>8. Items = <<>>
  <2>1. stack = <<>>
    <3>1. stack # <<>> => stack[1] \in Nodes BY <1>1 DEF Shared
    <3> QED BY <3>1, NullIsNoNode DEF SInv, Listed
  <2> QED BY <2>1, SharedFacts
<1> QED BY <1>5, <1>7, <1>8, Moves

LEMMA PopNodeSomeStep ==
  ASSUME SInv, NEW t \in Threads, PopNode(t), top.node # Null
  PROVE  [Abstract!Next]_(Abstract!vars)
<1>1. Shared /\ ForAll(t) /\ st[t] \in Locals BY SharedTyped, SInvForAll DEF Shared
<1>2. /\ Step(t, "popNode", [st[t] EXCEPT !.at = "popUnique", !.preNode = top.node])
      /\ stack' = stack /\ Data' = Data
  BY DEF PopNode, Load
<1>4. [st[t] EXCEPT !.at = "popUnique", !.preNode = top.node] \in Locals
  BY <1>1 DEF Shared, Counted, Locals, StackPlaces
<1>5. /\ st[t].at = "popNode" /\ Items' = Items
      /\ st'[t] = [st[t] EXCEPT !.at = "popUnique", !.preNode = top.node]
      /\ \A u \in Threads \ {t} : CallOf(u)' = CallOf(u)
  BY <1>2, <1>4, Elsewhere
<1>6. st'[t].at = "popUnique" /\ st'[t].val = st[t].val /\ st'[t].preNode = top.node
  BY <1>1, <1>5 DEF Locals
<1>7. CallOf(t)' = CallOf(t) BY <1>2, <1>5, <1>6, CallAt, CallAtNext
<1> QED BY <1>5, <1>7, Moves

LEMMA PopUniqueEmptyStep ==
  ASSUME SInv, NEW t \in Threads, PopUnique(t), st[t].preNode = Null
  PROVE  [Abstract!Next]_(Abstract!vars)
<1>1. Shared /\ ForAll(t) /\ st[t] \in Locals BY SharedTyped, SInvForAll DEF Shared
<1>2. /\ Step(t, "popUnique", Outside)
      /\ stack' = stack /\ Data' = Data
  BY DEF PopUnique, Load
<1>4. Outside \in Locals BY <1>1 DEF Shared, Counted, Locals, StackPlaces, Outside
<1>5. /\ st[t].at = "popUnique" /\ Items' = Items
      /\ st'[t] = Outside
      /\ \A u \in Threads \ {t} : CallOf(u)' = CallOf(u)
  BY <1>2, <1>4, Elsewhere
<1>6. st'[t].at = "out" BY <1>5 DEF Outside
<1>7. CallOf(t).op = "done" /\ CallOf(t)' = Call("none", NoValue)
  BY <1>5, <1>6, CallAt, CallAtNext DEF Call
<1> QED BY <1>5, <1>7, Moves

LEMMA PopUniqueSomeStep ==
  ASSUME SInv, NEW t \in Threads, PopUnique(t), st[t].preNode # Null
  PROVE  [Abstract!Next]_(Abstract!vars)
<1>1. Shared /\ ForAll(t) /\ st[t] \in Locals BY SharedTyped, SInvForAll DEF Shared
<1>2. /\ Step(t, "popUnique", [st[t] EXCEPT !.at = "second", !.preUnique = top.unique])
      /\ stack' = stack /\ Data' = Data
  BY DEF PopUnique, Load
<1>4. [st[t] EXCEPT !.at = "second", !.preUnique = top.unique] \in Locals
  BY <1>1 DEF Shared, Counted, Locals, StackPlaces
<1>5. /\ st[t].at = "popUnique" /\ Items' = Items
      /\ st'[t] = [st[t] EXCEPT !.at = "second", !.preUnique = top.unique]
      /\ \A u \in Threads \ {t} : CallOf(u)' = CallOf(u)
  BY <1>2, <1>4, Elsewhere
<1>6. st'[t].at = "second" /\ st'[t].preNode = st[t].preNode /\ st'[t].val = st[t].val
  BY <1>1, <1>5 DEF Locals
<1>7. CallOf(t)' = CallOf(t) BY <1>2, <1>5, <1>6, CallAt, CallAtNext
<1> QED BY <1>5, <1>7, Moves

LEMMA SecondStep ==
  ASSUME SInv, NEW t \in Threads, Second(t)
  PROVE  [Abstract!Next]_(Abstract!vars)
<1>1. Shared /\ ForAll(t) /\ st[t] \in Locals BY SharedTyped, SInvForAll DEF Shared
<1>2. /\ Step(t, "second", [st[t] EXCEPT !.at = "live", !.node = top.node])
      /\ stack' = stack /\ Data' = Data
  BY DEF Second, Load
<1>4. [st[t] EXCEPT !.at = "live", !.node = top.node] \in Locals
  BY <1>1 DEF Shared, Counted, Locals, StackPlaces
<1>5. /\ st[t].at = "second" /\ Items' = Items
      /\ st'[t] = [st[t] EXCEPT !.at = "live", !.node = top.node]
      /\ \A u \in Threads \ {t} : CallOf(u)' = CallOf(u)
  BY <1>2, <1>4, Elsewhere
<1>6. st'[t].at = "live" /\ st'[t].preNode = st[t].preNode /\ st'[t].val = st[t].val
  BY <1>1, <1>5 DEF Locals
<1>7. CallOf(t)' = CallOf(t) BY <1>2, <1>5, <1>6, CallAt, CallAtNext
<1> QED BY <1>5, <1>7, Moves

LEMMA LiveFaultStep ==
  ASSUME SInv, NEW t \in Threads, Live(t), top.node = Null
  PROVE  [Abstract!Next]_(Abstract!vars)
<1>1. Shared /\ ForAll(t) /\ st[t] \in Locals BY SharedTyped, SInvForAll DEF Shared
<1>2. /\ Step(t, "live", [st[t] EXCEPT !.at = "fault", !.live = top.node])
      /\ stack' = stack /\ Data' = Data
  BY DEF Live, Load
<1>4. [st[t] EXCEPT !.at = "fault", !.live = top.node] \in Locals
  BY <1>1 DEF Shared, Counted, Locals, StackPlaces
<1>5. /\ st[t].at = "live" /\ Items' = Items
      /\ st'[t] = [st[t] EXCEPT !.at = "fault", !.live = top.node]
      /\ \A u \in Threads \ {t} : CallOf(u)' = CallOf(u)
  BY <1>2, <1>4, Elsewhere
<1>6. st'[t].at = "fault" /\ st'[t].preNode = st[t].preNode /\ st'[t].val = st[t].val
  BY <1>1, <1>5 DEF Locals
<1>7. CallOf(t)' = CallOf(t) BY <1>2, <1>5, <1>6, CallAt, CallAtNext
<1> QED BY <1>5, <1>7, Moves

LEMMA LiveSomeStep ==
  ASSUME SInv, NEW t \in Threads, Live(t), top.node # Null
  PROVE  [Abstract!Next]_(Abstract!vars)
<1>1. Shared /\ ForAll(t) /\ st[t] \in Locals BY SharedTyped, SInvForAll DEF Shared
<1>2. /\ Step(t, "live", [st[t] EXCEPT !.at = "next", !.live = top.node])
      /\ stack' = stack /\ Data' = Data
  BY DEF Live, Load
<1>4. [st[t] EXCEPT !.at = "next", !.live = top.node] \in Locals
  BY <1>1 DEF Shared, Counted, Locals, StackPlaces
<1>5. /\ st[t].at = "live" /\ Items' = Items
      /\ st'[t] = [st[t] EXCEPT !.at = "next", !.live = top.node]
      /\ \A u \in Threads \ {t} : CallOf(u)' = CallOf(u)
  BY <1>2, <1>4, Elsewhere
<1>6. st'[t].at = "next" /\ st'[t].preNode = st[t].preNode /\ st'[t].val = st[t].val
  BY <1>1, <1>5 DEF Locals
<1>7. CallOf(t)' = CallOf(t) BY <1>2, <1>5, <1>6, CallAt, CallAtNext
<1> QED BY <1>5, <1>7, Moves

LEMMA NextNodeStep ==
  ASSUME SInv, NEW t \in Threads, NextNode(t)
  PROVE  [Abstract!Next]_(Abstract!vars)
<1>1. Shared /\ ForAll(t) /\ st[t] \in Locals BY SharedTyped, SInvForAll DEF Shared
<1>2. /\ Step(t, "next", [st[t] EXCEPT !.at = "popSwap", !.live = pNext[st[t].live]])
      /\ stack' = stack /\ Data' = Data
  BY DEF NextNode, Load
<1>3. pNext[st[t].live] \in Nodes \cup {Null} BY <1>1, <1>2 DEF Step, Shared, ForAll, CurrentFor
<1>4. [st[t] EXCEPT !.at = "popSwap", !.live = pNext[st[t].live]] \in Locals
  BY <1>3, <1>1 DEF Shared, Counted, Locals, StackPlaces
<1>5. /\ st[t].at = "next" /\ Items' = Items
      /\ st'[t] = [st[t] EXCEPT !.at = "popSwap", !.live = pNext[st[t].live]]
      /\ \A u \in Threads \ {t} : CallOf(u)' = CallOf(u)
  BY <1>2, <1>4, Elsewhere
<1>6. st'[t].at = "popSwap" /\ st'[t].preNode = st[t].preNode /\ st'[t].val = st[t].val
  BY <1>1, <1>5 DEF Locals
<1>7. CallOf(t)' = CallOf(t) BY <1>2, <1>5, <1>6, CallAt, CallAtNext
<1> QED BY <1>5, <1>7, Moves

LEMMA PopRetryStep ==
  ASSUME SInv, NEW t \in Threads, PopSwap(t), ~ Same(t)
  PROVE  [Abstract!Next]_(Abstract!vars)
<1>1. Shared /\ ForAll(t) /\ st[t] \in Locals BY SharedTyped, SInvForAll DEF Shared
<1>2. /\ Step(t, "popSwap", [st[t] EXCEPT !.at = "popNode"])
      /\ stack' = stack /\ Data' = Data
  BY DEF PopSwap, Swap
<1>4. [st[t] EXCEPT !.at = "popNode"] \in Locals BY <1>1 DEF Shared, Counted, Locals, StackPlaces
<1>5. /\ st[t].at = "popSwap" /\ Items' = Items
      /\ st'[t] = [st[t] EXCEPT !.at = "popNode"]
      /\ \A u \in Threads \ {t} : CallOf(u)' = CallOf(u)
  BY <1>2, <1>4, Elsewhere
<1>6. st'[t].at = "popNode" /\ st'[t].preNode = st[t].preNode /\ st'[t].val = st[t].val
  BY <1>1, <1>5 DEF Locals
<1>7. CallOf(t)' = CallOf(t) BY <1>2, <1>5, <1>6, CallAt, CallAtNext
<1> QED BY <1>5, <1>7, Moves

LEMMA ShrinkStep ==
  ASSUME SInv, NEW t \in Threads, Shrink(t)
  PROVE  [Abstract!Next]_(Abstract!vars)
<1>1. Shared /\ ForAll(t) /\ st[t] \in Locals BY SharedTyped, SInvForAll DEF Shared
<1>2. /\ Step(t, "shrink", [st[t] EXCEPT !.at = "shrunk", !.size = useSize])
      /\ stack' = stack /\ Data' = Data
  BY DEF Shrink, Load
<1>4. [st[t] EXCEPT !.at = "shrunk", !.size = useSize] \in Locals
  BY <1>1 DEF Shared, Counted, Locals, StackPlaces
<1>5. /\ st[t].at = "shrink" /\ Items' = Items
      /\ st'[t] = [st[t] EXCEPT !.at = "shrunk", !.size = useSize]
      /\ \A u \in Threads \ {t} : CallOf(u)' = CallOf(u)
  BY <1>2, <1>4, Elsewhere
<1>6. st'[t].at = "shrunk" /\ st'[t].preNode = st[t].preNode /\ st'[t].val = st[t].val
  BY <1>1, <1>5 DEF Locals
<1>7. CallOf(t)' = CallOf(t) BY <1>2, <1>5, <1>6, CallAt, CallAtNext
<1> QED BY <1>5, <1>7, Moves

LEMMA ShrunkStep ==
  ASSUME SInv, NEW t \in Threads, Shrunk(t)
  PROVE  [Abstract!Next]_(Abstract!vars)
<1>1. Shared /\ ForAll(t) /\ st[t] \in Locals BY SharedTyped, SInvForAll DEF Shared
<1>2. /\ Step(t, "shrunk", [st[t] EXCEPT !.at = "getData"])
      /\ stack' = stack /\ Data' = Data
  BY DEF Shrunk, StoreSize
<1>4. [st[t] EXCEPT !.at = "getData"] \in Locals BY <1>1 DEF Shared, Counted, Locals, StackPlaces
<1>5. /\ st[t].at = "shrunk" /\ Items' = Items
      /\ st'[t] = [st[t] EXCEPT !.at = "getData"]
      /\ \A u \in Threads \ {t} : CallOf(u)' = CallOf(u)
  BY <1>2, <1>4, Elsewhere
<1>6. st'[t].at = "getData" /\ st'[t].preNode = st[t].preNode /\ st'[t].val = st[t].val
  BY <1>1, <1>5 DEF Locals
<1>7. CallOf(t)' = CallOf(t) BY <1>2, <1>5, <1>6, CallAt, CallAtNext
<1> QED BY <1>5, <1>7, Moves

LEMMA GetDataStep ==
  ASSUME SInv, NEW t \in Threads, GetData(t)
  PROVE  [Abstract!Next]_(Abstract!vars)
<1>1. Shared /\ ForAll(t) /\ st[t] \in Locals BY SharedTyped, SInvForAll DEF Shared
<1>2. /\ Step(t, "getData", [st[t] EXCEPT !.at = "give", !.val = Data[st[t].preNode]])
      /\ stack' = stack /\ Data' = Data
  BY DEF GetData, Load
<1>3. Data[st[t].preNode] \in Values \cup {NoValue}
  BY <1>1, <1>2 DEF Step, Shared, ForAll, OwnedBy, Holding, Taking
<1>4. [st[t] EXCEPT !.at = "give", !.val = Data[st[t].preNode]] \in Locals
  BY <1>3, <1>1 DEF Shared, Counted, Locals, StackPlaces
<1>5. /\ st[t].at = "getData" /\ Items' = Items
      /\ st'[t] = [st[t] EXCEPT !.at = "give", !.val = Data[st[t].preNode]]
      /\ \A u \in Threads \ {t} : CallOf(u)' = CallOf(u)
  BY <1>2, <1>4, Elsewhere
<1>6. st'[t].at = "give" /\ st'[t].preNode = st[t].preNode /\ st'[t].val = Data[st[t].preNode]
  BY <1>1, <1>5 DEF Locals
<1>7. CallOf(t)' = CallOf(t)
  <2>1. CallOf(t) = Call("done", Data[st[t].preNode]) BY <1>5, CallAt
  <2>2. CallOf(t)' = Call("done", st'[t].val) BY <1>6, CallAtNext
  <2> QED BY <1>6, <2>1, <2>2
<1> QED BY <1>5, <1>7, Moves

LEMMA GiveStep ==
  ASSUME SInv, NEW t \in Threads, Give(t)
  PROVE  [Abstract!Next]_(Abstract!vars)
<1>1. Shared /\ ForAll(t) /\ st[t] \in Locals BY SharedTyped, SInvForAll DEF Shared
<1>2. /\ Step(t, "give", Outside)
      /\ stack' = stack /\ Data' = Data
  BY DEF Give
<1>4. Outside \in Locals BY <1>1 DEF Shared, Counted, Locals, StackPlaces, Outside
<1>5. /\ st[t].at = "give" /\ Items' = Items
      /\ st'[t] = Outside
      /\ \A u \in Threads \ {t} : CallOf(u)' = CallOf(u)
  BY <1>2, <1>4, Elsewhere
<1>6. st'[t].at = "out" BY <1>5 DEF Outside
<1>7. CallOf(t).op = "done" /\ CallOf(t)' = Call("none", NoValue)
  BY <1>5, <1>6, CallAt, CallAtNext DEF Call
<1> QED BY <1>5, <1>7, Moves

LEMMA PushAllocStep ==
  ASSUME SInv, NEW t \in Threads, PushAlloc(t)
  PROVE  [Abstract!Next]_(Abstract!vars)
<1>1. PICK n \in pool, v \in Values :
        Step(t, "out", [Outside EXCEPT !.at = "pushId", !.node = n, !.val = v])
  BY DEF PushAlloc
<1>2. stack' = stack /\ Data' = Data BY DEF PushAlloc
<1>3. [Outside EXCEPT !.at = "pushId", !.node = n, !.val = v] \in Locals
  <2>1. Outside \in Locals BY SharedTyped DEF Outside, Locals, StackPlaces
  <2>2. "pushId" \in StackPlaces /\ n \in Nodes BY DEF StackPlaces, SInv, StackTypeOK
  <2> QED BY <2>1, <2>2 DEF Locals
<1>4. /\ st[t].at = "out" /\ Items' = Items
      /\ st'[t] = [Outside EXCEPT !.at = "pushId", !.node = n, !.val = v]
      /\ \A u \in Threads \ {t} : CallOf(u)' = CallOf(u)
  BY <1>1, <1>2, <1>3, Elsewhere
<1>5. st'[t].at = "pushId" /\ st'[t].val = v BY <1>4 DEF Outside
<1>6. CallOf(t) = Call("none", NoValue) /\ CallOf(t)' = Call("push", v)
  BY <1>4, <1>5, CallAt, CallAtNext
<1> QED BY <1>4, <1>6, Moves

LEMMA LinkStep ==
  ASSUME SInv, NEW t \in Threads, Link(t)
  PROVE  [Abstract!Next]_(Abstract!vars)
<1>1. Shared /\ ForAll(t) /\ st[t] \in Locals BY SharedTyped, SInvForAll DEF Shared
<1>2. /\ Step(t, "link", [st[t] EXCEPT !.at = "pushSwap"]) /\ stack' = stack
      /\ Data' = [Data EXCEPT ![st[t].node] = st[t].val]
  BY DEF Link
<1>3. [st[t] EXCEPT !.at = "pushSwap"] \in Locals BY <1>1 DEF Locals, StackPlaces
<1>4. /\ st[t].at = "link" /\ st'[t] = [st[t] EXCEPT !.at = "pushSwap"]
      /\ \A u \in Threads \ {t} : st'[u] = st[u]
  BY <1>1, <1>2, <1>3, StepTyped
<1>5. st[t].at \in Holding /\ \A n \in Nodes : n # st[t].node => Data'[n] = Data[n]
  BY <1>1, <1>2, <1>4 DEF Holding, Shared
<1>6. ~ OnStack(st[t].node) BY <1>1, <1>5 DEF ForAll, OwnedBy
<1>7. Items' = Items
  <2>1. \A i \in DOMAIN stack : Data'[stack[i]] = Data[stack[i]] BY <1>5, <1>6, SharedFacts
  <2> QED BY <1>2, <2>1, ItemsStay
<1>8. \A u \in Threads \ {t} : CallOf(u)' = CallOf(u) BY <1>4, <1>5, OthersKeep
<1>9. st'[t].at = "pushSwap" /\ st'[t].val = st[t].val BY <1>1, <1>4 DEF Locals
<1>10. CallOf(t)' = CallOf(t) BY <1>4, <1>9, CallAt, CallAtNext
<1> QED BY <1>7, <1>8, <1>10, Moves

-----------------------------------------------------------------------------
LEMMA StepRefines ==
  ASSUME SInv, [StackNext]_stackVars
  PROVE  [Abstract!Next]_(Abstract!vars)
<1>1. CASE UNCHANGED stackVars
  <2>1. Items' = Items BY <1>1 DEF Items, stackVars
  <2>2. \A t \in Threads : CallOf(t)' = CallOf(t) BY <1>1 DEF CallOf, stackVars
  <2>3. Calls' = Calls BY <2>2 DEF Calls
  <2> QED BY <2>1, <2>3 DEF Abstract!vars, Items, Calls
<1>2. CASE StackNext
  <2>1. PICK t \in Threads : Push(t) \/ Pop(t) BY <1>2 DEF StackNext
  <2>2. CASE Push(t)
    BY <2>2, PushAllocStep, PushIdStep, PushUniqueStep, PushNodeStep, LinkStep, PushDone,
       PushRetryStep, GrowStep, GrownStep DEF Push
  <2>3. CASE Pop(t)
    BY <2>3, PopIdStep, PopNodeEmptyStep, PopNodeSomeStep, PopUniqueEmptyStep,
       PopUniqueSomeStep, SecondStep, LiveFaultStep, LiveSomeStep, NextNodeStep, PopDone,
       PopRetryStep, ShrinkStep, ShrunkStep, GetDataStep, GiveStep DEF Pop
  <2> QED BY <2>1, <2>2, <2>3
<1> QED BY <1>1, <1>2

\* CStack_LF is a stack, for any number of threads, nodes and values: no value is lost,
\* doubled or out of order, whatever the threads do between the accesses of a call
\* (LockFreeStack.h:98-140).
THEOREM StackImplemented == StackSpec => ImplementsStack
<1>1. SInv /\ [StackNext]_stackVars => [Abstract!Next]_(Abstract!vars) BY StepRefines
<1> QED BY <1>1, InitRefines, StackInvariant, PTL DEF StackSpec, ImplementsStack, Abstract!Spec
=============================================================================
