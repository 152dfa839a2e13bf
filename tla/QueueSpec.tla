----------------------------- MODULE QueueSpec -----------------------------
(***************************************************************************)
(* What a bounded queue shared by threads promises: every call takes       *)
(* effect at one moment between its beginning and its end, and values come *)
(* out in the order they went in.  A queue may call itself full a little   *)
(* early: a value that is being taken out still counts.                    *)
(***************************************************************************)
EXTENDS Naturals, Sequences, FiniteSets

CONSTANTS Clients, Values, NoValue, Capacity

VARIABLES
  items,  \* what is in the queue, the oldest first
  call    \* the call each client is in: what it does and the value it carries

vars == <<items, call>>

NoCall == [op |-> "none", val |-> NoValue]

Init == items = <<>> /\ call = [c \in Clients |-> NoCall]

Becomes(c, op, v) == call' = [call EXCEPT ![c] = [op |-> op, val |-> v]]

Leaving == {c \in Clients : call[c].op = "taken"}

BeginEnqueue(c) ==
  /\ call[c].op = "none"
  /\ \E v \in Values : Becomes(c, "enqueue", v)
  /\ UNCHANGED items

\* Enqueue returns false: it begins and ends at once.
Full(c) ==
  /\ call[c].op = "none"
  /\ Len(items) + Cardinality(Leaving) >= Capacity
  /\ Becomes(c, "refused", NoValue)
  /\ UNCHANGED items

DoEnqueue(c) ==
  /\ call[c].op = "enqueue"
  /\ Len(items) < Capacity
  /\ items' = Append(items, call[c].val)
  /\ Becomes(c, "done", NoValue)

BeginDequeue(c) ==
  /\ call[c].op = "none"
  /\ Becomes(c, "dequeue", NoValue)
  /\ UNCHANGED items

DoDequeue(c) ==
  /\ call[c].op = "dequeue"
  /\ items # <<>>
  /\ items' = Tail(items)
  /\ Becomes(c, "taken", Head(items))

\* Dequeue returns false.
Nothing(c) ==
  /\ call[c].op = "dequeue"
  /\ items = <<>>
  /\ Becomes(c, "done", NoValue)
  /\ UNCHANGED items

End(c) ==
  /\ call[c].op \in {"done", "taken", "refused"}
  /\ call' = [call EXCEPT ![c] = NoCall]
  /\ UNCHANGED items

Next ==
  \E c \in Clients :
    \/ BeginEnqueue(c) \/ Full(c) \/ DoEnqueue(c)
    \/ BeginDequeue(c) \/ DoDequeue(c) \/ Nothing(c) \/ End(c)

Spec == Init /\ [][Next]_vars
=============================================================================
