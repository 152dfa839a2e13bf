--------------------------- MODULE LockFreeStack ---------------------------
(***************************************************************************)
(* CStack_LF: a linked stack whose top is a pair of a node and a unique    *)
(* number, changed as a whole by a compare-and-swap of 128 bits.  Every    *)
(* call takes a new unique number, so a top that has been changed and      *)
(* changed back is not taken for the old one.                              *)
(*                                                                         *)
(* One action is one access to memory that threads share.  Pop looks at    *)
(* the top three times: for the pair it compares with and for the NULL     *)
(* test, for the node it will free, and, in the arguments of the           *)
(* compare-and-swap, for the successor of whatever is the top by then.     *)
(* If another Pop has emptied the stack after the NULL test, that follows  *)
(* NULL.                                                                   *)
(*                                                                         *)
(* Nodes come from _pMemoryPool, a CMemoryPool_LF: Alloc hands out a node  *)
(* nobody has (MemoryPoolLF).                                              *)
(***************************************************************************)
EXTENDS Integers, Sequences

CONSTANTS
  Threads,    \* the threads that use the stack
  Nodes,      \* the nodes the pool may hand out
  Null,       \* NULL
  Values,     \* the DATA that is pushed
  NoValue,    \* what a thread has before it was given a value
  MaxUnique   \* bound: no call begins when _iUniqueNum has reached it

ASSUME NullIsNoNode == Null \notin Nodes

VARIABLES
  poppers,  \* the threads that call Pop: the same for the life of a stack
  top,      \* *_pTop
  unique,   \* _iUniqueNum
  useSize,  \* _lUseSize, in nodes
  pNext,    \* pNext of each node
  Data,     \* Data of each node
  pool,     \* the nodes in _pMemoryPool
  stack,    \* history: the nodes on the stack, the top first
  st        \* each thread: the access it makes next, and its locals

stackVars == <<poppers, top, unique, useSize, pNext, Data, pool, stack, st>>

\* id is iUniqueNum, preNode and preUnique are pPreTopNode, node is pNode, live the successor
\* for the exchange, val the value pushed or popped, size a copy of _lUseSize.
Outside == [at |-> "out", id |-> 0, preNode |-> Null, preUnique |-> 0, node |-> Null,
            live |-> Null, val |-> NoValue, size |-> 0]

\* CStack_LF()
StackInit ==
  /\ poppers \in SUBSET Threads
  /\ top = [node |-> Null, unique |-> 0] /\ stack = <<>>
  /\ unique = 0 /\ useSize = 0
  /\ pNext = [n \in Nodes |-> Null]
  /\ Data = [n \in Nodes |-> NoValue]
  /\ pool = Nodes
  /\ st = [t \in Threads |-> Outside]

Step(t, from, new) == st[t].at = from /\ st' = [st EXCEPT ![t] = new]

\* InterlockedIncrement64 (&_iUniqueNum)
TakeId(t, from, to) ==
  /\ Step(t, from, [st[t] EXCEPT !.at = to, !.id = unique + 1])
  /\ unique' = unique + 1
  /\ UNCHANGED <<poppers, top, stack, useSize, pNext, Data, pool>>

\* A read of shared memory into a local.
Load(t, from, new) ==
  /\ Step(t, from, new)
  /\ UNCHANGED <<poppers, top, stack, unique, useSize, pNext, Data, pool>>

\* Slip: the unique number is not compared, as in a swap of the pointer alone.
Slip_Same(t) == top.node = st[t].preNode

\* The comparand of the compare-and-swap.
Same(t) == top = [node |-> st[t].preNode, unique |-> st[t].preUnique]

\* The compare-and-swap, and the retry when it fails.
Swap(t, from, done, retry, node, onStack) ==
  /\ Step(t, from, [st[t] EXCEPT !.at = IF Same(t) THEN done ELSE retry])
  /\ top' = IF Same(t) THEN [node |-> node, unique |-> st[t].id] ELSE top
  /\ stack' = IF Same(t) THEN onStack ELSE stack
  /\ UNCHANGED <<poppers, unique, useSize, pNext, Data, pool>>

\* += and -= of _lUseSize are not interlocked: what was read is written back.
StoreSize(t, from, new, size) ==
  /\ Step(t, from, new)
  /\ useSize' = size
  /\ UNCHANGED <<poppers, top, stack, unique, pNext, Data, pool>>

-----------------------------------------------------------------------------
(* Push *)

\* _pMemoryPool->Alloc()
PushAlloc(t) ==
  /\ unique < MaxUnique
  /\ \E n \in pool, v \in Values :
       /\ Step(t, "out", [Outside EXCEPT !.at = "pushId", !.node = n, !.val = v])
       /\ pool' = pool \ {n}
  /\ UNCHANGED <<poppers, top, stack, unique, useSize, pNext, Data>>

PushId(t) == TakeId(t, "pushId", "pushUnique")

PushUnique(t) ==
  Load(t, "pushUnique", [st[t] EXCEPT !.at = "pushNode", !.preUnique = top.unique])

PushNode(t) == Load(t, "pushNode", [st[t] EXCEPT !.at = "link", !.preNode = top.node])

\* pNext is given the top as it is now.
Link(t) ==
  /\ Step(t, "link", [st[t] EXCEPT !.at = "pushSwap"])
  /\ Data' = [Data EXCEPT ![st[t].node] = st[t].val]
  /\ pNext' = [pNext EXCEPT ![st[t].node] = top.node]
  /\ UNCHANGED <<poppers, top, stack, unique, useSize, pool>>

PushSwap(t) == Swap(t, "pushSwap", "grow", "pushUnique", st[t].node, <<st[t].node>> \o stack)
Grow(t) == Load(t, "grow", [st[t] EXCEPT !.at = "grown", !.size = useSize])
Grown(t) == StoreSize(t, "grown", Outside, st[t].size + 1)

-----------------------------------------------------------------------------
(* Pop *)

PopId(t) == t \in poppers /\ unique < MaxUnique /\ TakeId(t, "out", "popNode")

PopNode(t) == Load(t, "popNode", [st[t] EXCEPT !.at = "popUnique", !.preNode = top.node])

\* Slip: the stack is not looked at before it is popped.
Slip_PopUnique(t) ==
  Load(t, "popUnique", [st[t] EXCEPT !.at = "second", !.preUnique = top.unique])

\* With the test for NULL: Pop returns false.
PopUnique(t) ==
  Load(t, "popUnique",
       IF st[t].preNode = Null THEN Outside
       ELSE [st[t] EXCEPT !.at = "second", !.preUnique = top.unique])

\* pNode = _pTop->pTopNode
Second(t) == Load(t, "second", [st[t] EXCEPT !.at = "live", !.node = top.node])

\* _pTop->pTopNode of the successor's expression: NULL cannot be followed.
Live(t) ==
  Load(t, "live", [st[t] EXCEPT !.at = IF top.node = Null THEN "fault" ELSE "next",
                                !.live = top.node])

\* ->pNext
NextNode(t) == Load(t, "next", [st[t] EXCEPT !.at = "popSwap", !.live = pNext[@]])

PopSwap(t) ==
  Swap(t, "popSwap", "shrink", "popNode", st[t].live, SubSeq(stack, 2, Len(stack)))

Shrink(t) == Load(t, "shrink", [st[t] EXCEPT !.at = "shrunk", !.size = useSize])

Shrunk(t) == StoreSize(t, "shrunk", [st[t] EXCEPT !.at = "getData"], st[t].size - 1)

GetData(t) == Load(t, "getData", [st[t] EXCEPT !.at = "give", !.val = Data[st[t].preNode]])

\* Slip: the successor is freed.
Slip_Give(t) ==
  /\ Step(t, "give", Outside)
  /\ pool' = pool \cup {st[t].live}
  /\ UNCHANGED <<poppers, top, stack, unique, useSize, pNext, Data>>

\* _pMemoryPool->Free(pNode)
Give(t) ==
  /\ Step(t, "give", Outside)
  /\ pool' = pool \cup {st[t].node}
  /\ UNCHANGED <<poppers, top, stack, unique, useSize, pNext, Data>>

-----------------------------------------------------------------------------
Push(t) ==
  \/ PushAlloc(t) \/ PushId(t) \/ PushUnique(t) \/ PushNode(t) \/ Link(t) \/ PushSwap(t)
  \/ Grow(t) \/ Grown(t)

Pop(t) ==
  \/ PopId(t) \/ PopNode(t) \/ PopUnique(t) \/ Second(t) \/ Live(t) \/ NextNode(t)
  \/ PopSwap(t) \/ Shrink(t) \/ Shrunk(t) \/ GetData(t) \/ Give(t)

\* A thread that follows NULL takes the process with it.
Alive == \A t \in Threads : st[t].at # "fault"

StackNext == Alive /\ \E t \in Threads : Push(t) \/ Pop(t)

StackSpec == StackInit /\ [][StackNext]_stackVars

-----------------------------------------------------------------------------
(* Properties *)

StackPlaces ==
  {"out", "pushId", "pushUnique", "pushNode", "link", "pushSwap", "grow", "grown", "popNode",
   "popUnique", "second", "live", "next", "popSwap", "shrink", "shrunk", "getData", "give",
   "fault"}

\* Every variable keeps its type.
StackTypeOK ==
  /\ poppers \subseteq Threads
  /\ top \in [node : Nodes \cup {Null}, unique : Nat] /\ stack \in Seq(Nodes)
  /\ unique \in Nat /\ useSize \in Int
  /\ pNext \in [Nodes -> Nodes \cup {Null}]
  /\ Data \in [Nodes -> Values \cup {NoValue}]
  /\ pool \subseteq Nodes
  /\ st \in [Threads ->
       [at : StackPlaces, id : Nat, preNode : Nodes \cup {Null}, preUnique : Nat,
        node : Nodes \cup {Null}, live : Nodes \cup {Null}, val : Values \cup {NoValue},
        size : Int]]

LonePopper == \A t, u \in poppers : t = u

\* A stack that only one thread pops from (emptySession: the accept thread; SendPack:
\* whoever has the session's SendFlag) never follows NULL: between its NULL test and its
\* last look at the top nobody else can have emptied the stack.
LonePopperSafe == LonePopper => Alive

\* The call a thread is in, by where it is: a push takes effect when its exchange
\* succeeds, a pop when its exchange succeeds or when it reads NULL.
CallOf(t) ==
  LET s == st[t] IN
  CASE s.at = "out" -> [op |-> "none", val |-> NoValue]
    [] s.at \in {"pushId", "pushUnique", "pushNode", "link", "pushSwap"} ->
         [op |-> "push", val |-> s.val]
    [] s.at \in {"grow", "grown"} -> [op |-> "done", val |-> NoValue]
    [] s.at = "popUnique" /\ s.preNode = Null -> [op |-> "done", val |-> NoValue]
    [] s.at \in {"shrink", "shrunk", "getData"} -> [op |-> "done", val |-> Data[s.preNode]]
    [] s.at = "give" -> [op |-> "done", val |-> s.val]
    [] OTHER -> [op |-> "pop", val |-> NoValue]

Abstract == INSTANCE StackSpec WITH
  items <- [i \in DOMAIN stack |-> Data[stack[i]]],
  call <- [t \in Threads |-> CallOf(t)]

\* CStack_LF is a stack, whatever the threads: no value is lost, doubled or out of order,
\* although nodes are reused and Pop reads the top, its successor and the Data of a node
\* that is no longer on the stack at different times.
ImplementsStack == Abstract!Spec
=============================================================================
