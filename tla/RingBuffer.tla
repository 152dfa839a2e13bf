----------------------------- MODULE RingBuffer -----------------------------
(***************************************************************************)
(* CRingbuffer, as the RecvQ of a session: the bytes between Front and     *)
(* Rear of an array, one place of which stays empty.  Put and Get copy in  *)
(* one piece or in two; WSARecv writes into the array by itself, through   *)
(* the pointers PostRecv gives it, and MoveWritePos takes over what it     *)
(* wrote.                                                                  *)
(*                                                                         *)
(* Calls do not overlap: only the thread that handles a session's receive  *)
(* uses its RecvQ, and nobody does while a receive is outstanding.  Lock   *)
(* and Free are never called.                                              *)
(***************************************************************************)
EXTENDS Integers, Sequences

CONSTANTS
  BufferSize,  \* the length of the array
  Bytes        \* what a byte may be

ASSUME BufferSizeAssumption == BufferSize \in Nat \ {0}
ASSUME BytesAssumption == Bytes # {}

VARIABLES
  pBuffer,   \* the array
  Front,     \* where the next byte is read
  Rear,      \* where the next byte is written
  offer,     \* the lengths of the two WSABUFs of the receive that is outstanding
  moved,     \* the number of bytes the last call has reported
  src,       \* the bytes the last call was given, or the last receive brought
  dest       \* the bytes the last call has copied out

ringVars == <<pBuffer, Front, Rear, offer, moved, src, dest>>

NoOffer == <<>>

\* The caller may ask for one byte more than the array has room for.
Chunks == UNION {[1 .. n -> Bytes] : n \in 0 .. BufferSize}
Sizes == 0 .. BufferSize

Smaller(a, b) == IF a < b THEN a ELSE b

\* CRingbuffer(iBufferSize)
RingInit ==
  /\ pBuffer \in [0 .. BufferSize - 1 -> Bytes]
  /\ Front = 0 /\ Rear = 0
  /\ offer = NoOffer /\ moved = 0 /\ src = <<>> /\ dest = <<>>

GetUseSize == IF Rear >= Front THEN Rear - Front ELSE BufferSize - Front + Rear

GetFreeSize == IF Rear >= Front THEN BufferSize - Rear + Front - 1 ELSE Front - Rear - 1

GetNotBrokenGetSize == IF Rear >= Front THEN Rear - Front ELSE BufferSize - Front

\* Slip: one byte past the end.
Slip_GetNotBrokenPutSize == IF Rear >= Front THEN BufferSize - Rear + 1 ELSE Front - Rear - 1

\* The rest of the array, also when Front is 0 and its last place has to stay empty.
GetNotBrokenPutSize == IF Rear >= Front THEN BufferSize - Rear ELSE Front - Rear - 1

\* memcpy_s into the array: bytes beyond its end would land outside.
CopyIn(array, at, s) ==
  [p \in DOMAIN array \cup at .. at + Len(s) - 1 |->
     IF p \in at .. at + Len(s) - 1 THEN s[p - at + 1] ELSE array[p]]

\* memcpy_s out of it.
CopyOut(at, n) == [i \in 1 .. n |-> pBuffer[at + i - 1]]

Put(s) ==
  LET n == Smaller(Len(s), GetFreeSize)
      split == Rear >= Front /\ Rear + n >= BufferSize
      one == IF split THEN GetNotBrokenPutSize ELSE n
  IN /\ offer = NoOffer
     /\ pBuffer' = CopyIn(CopyIn(pBuffer, Rear, SubSeq(s, 1, one)),
                          (Rear + one) % BufferSize, SubSeq(s, one + 1, n))
     /\ Rear' = (Rear + n) % BufferSize
     /\ moved' = n /\ src' = s /\ dest' = <<>>
     /\ UNCHANGED <<Front, offer>>

\* What Get and Peek put into chpDest.
Copied(iSize) ==
  LET n == Smaller(iSize, GetUseSize)
      split == Front > Rear /\ Front + n > BufferSize
      one == IF split THEN GetNotBrokenGetSize ELSE n
  IN CopyOut(Front, one) \o CopyOut((Front + one) % BufferSize, n - one)

Get(iSize) ==
  /\ offer = NoOffer
  /\ src' = <<>> /\ dest' = Copied(iSize)
  /\ moved' = Len(dest')
  /\ Front' = (Front + moved') % BufferSize
  /\ UNCHANGED <<pBuffer, Rear, offer>>

Peek(iSize) ==
  /\ offer = NoOffer
  /\ src' = <<>> /\ dest' = Copied(iSize)
  /\ moved' = Len(dest')
  /\ UNCHANGED <<pBuffer, Front, Rear, offer>>

RemoveData(iSize) ==
  /\ offer = NoOffer
  /\ moved' = Smaller(iSize, GetUseSize)
  /\ Front' = (Front + moved') % BufferSize
  /\ src' = <<>> /\ dest' = <<>>
  /\ UNCHANGED <<pBuffer, Rear, offer>>

ClearBuffer ==
  /\ offer = NoOffer
  /\ Front' = 0 /\ Rear' = 0
  /\ moved' = 0 /\ src' = <<>> /\ dest' = <<>>
  /\ UNCHANGED <<pBuffer, offer>>

\* PostRecv: the WSABUFs are the place from Rear on and, if there is more room, the
\* start of the array.
Offer ==
  /\ offer = NoOffer
  /\ GetFreeSize > 0
  /\ offer' = <<GetNotBrokenPutSize,
                IF GetFreeSize > GetNotBrokenPutSize
                THEN GetFreeSize - GetNotBrokenPutSize ELSE 0>>
  /\ UNCHANGED <<pBuffer, Front, Rear, moved, src, dest>>

\* Slip: the second piece is written where the first one was.
Slip_Received(s) ==
  CopyIn(CopyIn(pBuffer, Rear, SubSeq(s, 1, Smaller(Len(s), offer[1]))),
         Rear, SubSeq(s, offer[1] + 1, Len(s)))

\* The array when WSARecv has written s.
Received(s) ==
  CopyIn(CopyIn(pBuffer, Rear, SubSeq(s, 1, Smaller(Len(s), offer[1]))),
         0, SubSeq(s, offer[1] + 1, Len(s)))

\* The receive completes with the bytes s, and the worker calls MoveWritePos.
MoveWritePos(s) ==
  /\ offer # NoOffer
  /\ Len(s) <= offer[1] + offer[2]
  /\ pBuffer' = Received(s)
  /\ moved' = Smaller(Len(s), GetFreeSize)
  /\ Rear' = (Rear + moved') % BufferSize
  /\ offer' = NoOffer /\ src' = s /\ dest' = <<>>
  /\ UNCHANGED Front

RingNext ==
  \/ \E s \in Chunks : Put(s) \/ MoveWritePos(s)
  \/ \E n \in Sizes : Get(n) \/ Peek(n) \/ RemoveData(n)
  \/ ClearBuffer
  \/ Offer

RingSpec == RingInit /\ [][RingNext]_ringVars

-----------------------------------------------------------------------------
(* Properties *)

\* Every variable keeps its type: nothing is written outside the array, neither by the
\* two pieces of Put nor by WSARecv, and the positions stay inside it.
RingTypeOK ==
  /\ pBuffer \in [0 .. BufferSize - 1 -> Bytes]
  /\ Front \in 0 .. BufferSize - 1 /\ Rear \in 0 .. BufferSize - 1
  /\ offer = NoOffer \/ offer \in (0 .. BufferSize) \X (0 .. BufferSize)
  /\ moved \in 0 .. BufferSize
  /\ src \in Chunks /\ dest \in Chunks

Contents == [i \in 1 .. GetUseSize |-> pBuffer[(Front + i - 1) % BufferSize]]

Promised == INSTANCE ByteQueue WITH
  Capacity <- BufferSize - 1, items <- Contents, size <- moved, taken <- src,
  given <- dest

\* CRingbuffer is a queue of BufferSize - 1 bytes: wherever the wrap falls, bytes come out
\* as they went in, and no call and no receive touches bytes that have not been read yet.
ImplementsByteQueue == Promised!Spec

\* "The length that can be written from outside in one go": all that WSARecv has written
\* through the pointers it was given is taken over.
EveryByteKept ==
  [][offer # NoOffer => Contents' = Contents \o src']_ringVars
=============================================================================
