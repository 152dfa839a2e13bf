--------------------------- MODULE PacketBuffer ---------------------------
(***************************************************************************)
(* The buffer of a Packet: room for headers, then the field that PutData   *)
(* (operator <<) fills and GetData (operator >>) empties, which is never   *)
(* reused before Clear.  A header goes in front of the field when the      *)
(* packet is sent, once more with every SendPacket of the same packet; and *)
(* what is sent begins at the headers and is _iDataSize bytes long.        *)
(* _iDataSize counts what has not been read and the headers.               *)
(*                                                                         *)
(* A packet is filled by one thread.  operator = and the constructors with *)
(* arguments are not used by any program.                                  *)
(***************************************************************************)
EXTENDS Integers, Sequences

CONSTANTS
  PacketSize,    \* _iBufferSize
  HeaderRoom,    \* HEADERSIZE_DEFAULT
  HeaderLen,     \* the length of the header SendPacket puts, the same in every packet
  Leftover,      \* what malloc left in the buffer, in every place
  Marks          \* the bytes that are put into packets

ASSUME PacketAssumption ==
  /\ PacketSize \in Nat /\ HeaderRoom \in Nat /\ 2 * HeaderRoom <= PacketSize
  /\ HeaderLen \in Nat \ {0}

VARIABLES
  Buffer,          \* the bytes, counted from 0
  HeaderStartPos,  \* where the headers begin
  ReadPos,         \* where GetData reads
  WritePos,        \* where PutData writes
  iDataSize,       \* _iDataSize
  written,         \* history: what has been put since the last Clear
  got,             \* history: what has been read since
  headers          \* history: the headers put since

packetVars == <<Buffer, HeaderStartPos, ReadPos, WritePos, iDataSize, written, got, headers>>

DataFieldStart == HeaderRoom
DataFieldEnd == PacketSize - HeaderRoom

\* Initial()
PacketInit ==
  /\ Buffer = [p \in 0 .. PacketSize - 1 |-> Leftover]
  /\ HeaderStartPos = DataFieldStart /\ ReadPos = DataFieldStart /\ WritePos = DataFieldStart
  /\ iDataSize = 0
  /\ written = <<>> /\ got = <<>> /\ headers = 0

PacketClear ==
  /\ HeaderStartPos' = DataFieldStart /\ ReadPos' = DataFieldStart /\ WritePos' = DataFieldStart
  /\ iDataSize' = 0
  /\ written' = <<>> /\ got' = <<>> /\ headers' = 0
  /\ UNCHANGED Buffer

\* memcpy into the buffer and out of it.
Overlay(at, s) ==
  [p \in DOMAIN Buffer \cup at .. at + Len(s) - 1 |->
     IF p \in at .. at + Len(s) - 1 THEN s[p - at + 1] ELSE Buffer[p]]

Stretch(at, n) == [i \in 1 .. n |-> Buffer[at + i - 1]]

\* Slip: the room is looked for before the bytes are counted.
Slip_PutData(s) ==
  /\ WritePos <= DataFieldEnd
  /\ Buffer' = Overlay(WritePos, s)
  /\ WritePos' = WritePos + Len(s)
  /\ iDataSize' = iDataSize + Len(s)
  /\ written' = written \o s
  /\ UNCHANGED <<HeaderStartPos, ReadPos, got, headers>>

\* All of it or, when there is no room, nothing.
PutData(s) ==
  /\ WritePos + Len(s) <= DataFieldEnd
  /\ Buffer' = Overlay(WritePos, s)
  /\ WritePos' = WritePos + Len(s)
  /\ iDataSize' = iDataSize + Len(s)
  /\ written' = written \o s
  /\ UNCHANGED <<HeaderStartPos, ReadPos, got, headers>>

\* A new packet is filled by the worker that received it, with RecvQ.Get into GetBufferPtr
\* and MoveWritePos.
Fill(s) ==
  /\ written = <<>> /\ headers = 0
  /\ WritePos + Len(s) <= DataFieldEnd
  /\ Buffer' = Overlay(HeaderStartPos, s)
  /\ WritePos' = WritePos + Len(s)
  /\ iDataSize' = iDataSize + Len(s)
  /\ written' = s
  /\ UNCHANGED <<HeaderStartPos, ReadPos, got, headers>>

\* Slip: what was read still counts.
Slip_Extract(n) ==
  /\ n <= iDataSize
  /\ got' = got \o Stretch(ReadPos, n)
  /\ ReadPos' = ReadPos + n
  /\ UNCHANGED <<Buffer, HeaderStartPos, WritePos, iDataSize, written, headers>>

\* GetData and MoveReadPos, which looks at the bytes it passes no less.
Extract(n) ==
  /\ n <= iDataSize
  /\ got' = got \o Stretch(ReadPos, n)
  /\ ReadPos' = ReadPos + n
  /\ iDataSize' = iDataSize - n
  /\ UNCHANGED <<Buffer, HeaderStartPos, WritePos, written, headers>>

\* Slip: the header is not counted.
Slip_PutHeader ==
  /\ HeaderStartPos - HeaderLen >= 0
  /\ Buffer' = Overlay(HeaderStartPos - HeaderLen, [i \in 1 .. HeaderLen |-> i])
  /\ HeaderStartPos' = HeaderStartPos - HeaderLen
  /\ headers' = headers + 1
  /\ UNCHANGED <<ReadPos, WritePos, iDataSize, written, got>>

\* In front of the headers there are, its bytes numbered here; nothing when there is no room.
PutHeader ==
  /\ HeaderStartPos - HeaderLen >= 0
  /\ Buffer' = Overlay(HeaderStartPos - HeaderLen, [i \in 1 .. HeaderLen |-> i])
  /\ HeaderStartPos' = HeaderStartPos - HeaderLen
  /\ iDataSize' = iDataSize + HeaderLen
  /\ headers' = headers + 1
  /\ UNCHANGED <<ReadPos, WritePos, written, got>>

PacketNext ==
  \/ \E n \in 1 .. PacketSize : Extract(n) \/ \E s \in [1 .. n -> Marks] : PutData(s) \/ Fill(s)
  \/ PutHeader
  \/ PacketClear

PacketSpec == PacketInit /\ [][PacketNext]_packetVars

-----------------------------------------------------------------------------
(* Properties *)

\* Every variable keeps its type: nothing is written outside the buffer.
PacketTypeOK ==
  /\ DOMAIN Buffer = 0 .. PacketSize - 1
  /\ HeaderStartPos \in 0 .. DataFieldStart
  /\ WritePos \in DataFieldStart .. DataFieldEnd
  /\ ReadPos \in Nat /\ iDataSize \in Nat /\ headers \in Nat

\* Before a header is put, what is read is what was put, in order, and what has not been
\* read is all there: the application reads no byte that nobody put.
ReadInOrder == headers = 0 => got \o Stretch(ReadPos, iDataSize) = written

Heads == [i \in 1 .. headers * HeaderLen |-> ((i - 1) % HeaderLen) + 1]

\* What PostSend gives to WSASend, GetBufferPtr and GetDataSize, is the headers and then all
\* that was put, as long as the packet was only filled and not read.
SentWhole == got = <<>> => Stretch(HeaderStartPos, iDataSize) = Heads \o written
=============================================================================
