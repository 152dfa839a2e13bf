----------------------------- MODULE StackSpec -----------------------------
(***************************************************************************)
(* What a stack shared by threads promises: every call takes effect at     *)
(* one moment between its beginning and its end, and Pop returns what was  *)
(* on top at that moment, or that there was nothing.                       *)
(***************************************************************************)
EXTENDS Naturals, Sequences

CONSTANTS Threads, Values, NoValue

VARIABLES
  items,  \* what is on the stack, the top first
  call    \* the call each thread is in: what it does and the value it carries

vars == <<items, call>>

NoCall == [op |-> "none", val |-> NoValue]

Init == items = <<>> /\ call = [t \in Threads |-> NoCall]

Becomes(t, op, v) == call' = [call EXCEPT ![t] = [op |-> op, val |-> v]]

BeginPush(t) ==
  /\ call[t].op = "none"
  /\ \E v \in Values : Becomes(t, "push", v)
  /\ UNCHANGED items

DoPush(t) ==
  /\ call[t].op = "push"
  /\ items' = <<call[t].val>> \o items
  /\ Becomes(t, "done", NoValue)

BeginPop(t) ==
  /\ call[t].op = "none"
  /\ Becomes(t, "pop", NoValue)
  /\ UNCHANGED items

DoPop(t) ==
  /\ call[t].op = "pop"
  /\ items # <<>>
  /\ items' = Tail(items)
  /\ Becomes(t, "done", Head(items))

\* Nothing to pop: the call answers false.
PopNothing(t) ==
  /\ call[t].op = "pop"
  /\ items = <<>>
  /\ Becomes(t, "done", NoValue)
  /\ UNCHANGED items

End(t) ==
  /\ call[t].op = "done"
  /\ call' = [call EXCEPT ![t] = NoCall]
  /\ UNCHANGED items

Next ==
  \E t \in Threads :
    BeginPush(t) \/ DoPush(t) \/ BeginPop(t) \/ DoPop(t) \/ PopNothing(t) \/ End(t)

Spec == Init /\ [][Next]_vars
=============================================================================
