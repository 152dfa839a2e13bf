---------------------------- MODULE EchoService ----------------------------
(***************************************************************************)
(* What the users of CLanServer are promised, with no slot, reference      *)
(* count or thread in sight.  The application sees a connection join once  *)
(* and leave once, at most Capacity of them present at a time.  A client   *)
(* gets the greeting and then the answers to its requests, in the order    *)
(* of the requests and none left out, and only while it is present.        *)
(***************************************************************************)
EXTENDS Naturals, Sequences, FiniteSets

CONSTANTS Conns, Capacity

VARIABLES joined,   \* calls of OnClientJoin that accepted the connection
          left,     \* calls of OnClientLeave
          asked,    \* requests the client has sent
          replies   \* numbers of the replies sent to it, the greeting is 0

vars == <<joined, left, asked, replies>>

Present == {c \in Conns : joined[c] > left[c]}

Init ==
  /\ joined = [c \in Conns |-> 0]
  /\ left = [c \in Conns |-> 0]
  /\ asked = [c \in Conns |-> 0]
  /\ replies = [c \in Conns |-> <<>>]

Join(c) ==
  /\ joined[c] = 0 /\ Cardinality(Present) < Capacity
  /\ joined' = [joined EXCEPT ![c] = 1]
  /\ UNCHANGED <<left, asked, replies>>

Leave(c) ==
  /\ c \in Present
  /\ left' = [left EXCEPT ![c] = 1]
  /\ UNCHANGED <<joined, asked, replies>>

Ask(c) ==
  /\ asked' = [asked EXCEPT ![c] = @ + 1]
  /\ UNCHANGED <<joined, left, replies>>

\* The replies up to the k-th are sent, in one piece or several.
Reply(c) ==
  /\ c \in Present
  /\ \E k \in Len(replies[c]) .. asked[c] :
       replies' = [replies EXCEPT ![c] = [i \in 1 .. k + 1 |-> i - 1]]
  /\ UNCHANGED <<joined, left, asked>>

Next == \E c \in Conns : Join(c) \/ Leave(c) \/ Ask(c) \/ Reply(c)

Spec == Init /\ [][Next]_vars
=============================================================================
