----------------------------- MODULE ByteQueue -----------------------------
(***************************************************************************)
(* What a ring buffer promises: a queue of bytes that holds Capacity of    *)
(* them, takes what there is room for and gives what there is.             *)
(***************************************************************************)
EXTENDS Naturals, Sequences

CONSTANTS Bytes, Capacity

VARIABLES
  items,  \* the bytes in the queue, the oldest first
  size,   \* how many bytes the last call has moved
  taken,  \* the bytes the last call was given
  given   \* the bytes the last call has given back

vars == <<items, size, taken, given>>

Lesser(a, b) == IF a < b THEN a ELSE b

Init == items = <<>> /\ size = 0 /\ taken = <<>> /\ given = <<>>

\* Bytes that do not fit are not taken, and size tells how many were.  The caller of Put
\* learns it and still has the rest; of a receive the rest has left the socket and is lost,
\* which this specification allows (RingBuffer's EveryByteKept does not).
Accept(s) ==
  /\ size' = Lesser(Len(s), Capacity - Len(items))
  /\ items' = items \o SubSeq(s, 1, size')
  /\ taken' = s /\ given' = <<>>

Give(n) ==
  /\ size' = Lesser(n, Len(items))
  /\ taken' = <<>> /\ given' = SubSeq(items, 1, size')

Take(n) == Give(n) /\ items' = SubSeq(items, size' + 1, Len(items))

Look(n) == Give(n) /\ items' = items

Drop(n) ==
  /\ size' = Lesser(n, Len(items))
  /\ items' = SubSeq(items, size' + 1, Len(items))
  /\ taken' = <<>> /\ given' = <<>>

Clear == items' = <<>> /\ size' = 0 /\ taken' = <<>> /\ given' = <<>>

Next ==
  \/ \E s \in UNION {[1 .. n -> Bytes] : n \in 0 .. Capacity + 1} : Accept(s)
  \/ \E n \in 0 .. Capacity + 1 : Take(n) \/ Look(n) \/ Drop(n)
  \/ Clear

Spec == Init /\ [][Next]_vars
=============================================================================
