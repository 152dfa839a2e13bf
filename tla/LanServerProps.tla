-------------------------- MODULE LanServerProps --------------------------
(***************************************************************************)
(* What is claimed of CLanServer: invariants and liveness of LanServer,    *)
(* and the service of EchoService that it implements.                      *)
(***************************************************************************)
EXTENDS LanServer

Labels ==
  {"idle", "done", "EndPost", "EndPostEmpty", "EndCall", "EndEvent", "Release",
   "Leave", "Close", "DrainQ", "DrainPack", "PushSlot", "Find", "FindUse",
   "FindID", "Disconnect", "Enqueue", "FreeMsg", "PostSend", "SetFlag",
   "Dequeue", "ClearFlag", "WSASend", "PostRecv", "WSARecv", "TakeSlot",
   "SetSock", "SetID", "SetUse", "ResetFlag", "Join", "Parse", "FreeSent",
   "Recheck", "Zero"}

SessionType ==
  [IOCount : Int, UseFlag : BOOLEAN, sock : Ids, SessionID : Ids, SendFlag : BOOLEAN,
   SendQ : Seq(Packets), SendPack : Seq(Packets), RecvQ : Seq(Units), RecvOver : Seq(Ids),
   SendOver : Seq([sock : Ids, buf : Seq(Packets)])]

ThreadType ==
  [pc : Labels, back : Labels, slot : Slots, held : SUBSET Kinds, arg : Ids,
   msg : Packets, batch : Seq(Packets)]

ConnType ==
  [sock : {"none", "open", "shut", "closed"}, index : Slots, peer : {"up", "gone"},
   asked : Nat, inbound : Seq(Units), wire : Seq(Nat), joins : Nat, leaves : Nat]

\* Every variable keeps its type.
TypeOK ==
  /\ Session \in [Slots -> SessionType]
  /\ emptySession \in Seq(Slots) /\ UseSessionCnt \in Int
  /\ th \in [Threads -> ThreadType]
  /\ refs \in [Packets -> Int]
  /\ net \in [Ids -> ConnType]
  /\ main \in {"run", "shut", "wait", "off"} /\ sweep \in 0 .. SessionMax
  /\ calls \in Nat /\ quit \in BOOLEAN /\ crashed \in BOOLEAN

\* The references threads hold on slot s, and all that IOCount stands for.
Holds(s) == {h \in Threads \X Kinds : th[h[1]].slot = s /\ h[2] \in th[h[1]].held}
References(s) == Cardinality(Holds(s)) + Len(Session[s].RecvOver) + Len(Session[s].SendOver)

\* IOCount never falls below the references that threads and outstanding I/O
\* still have to give back, so no IODecrement can take it below zero.
RefsCovered == \A s \in Slots : Session[s].IOCount >= References(s)

\* The Crash() of IODecrement is never reached.
NoCrash == ~crashed

\* No reference leaks: IOCount is exactly the references still to be given
\* back, as the echo application keeps it.
RefsExact == \A s \in Slots : Session[s].IOCount = References(s)

Releasing == {"Release", "Leave", "Close", "DrainQ", "DrainPack", "PushSlot"}

\* While a thread releases a slot nothing else refers to it: no thread works on
\* it, none else releases it, no I/O on its buffers is outstanding.
ReleasedAlone == \A t \in Threads : th[t].pc \in Releasing =>
  /\ References(th[t].slot) = 0
  /\ \A u \in Threads \ {t} : th[u].pc \in Releasing => th[u].slot # th[t].slot

\* Where a thread owns the right to send that SendFlag stands for.
Sender == {"Dequeue", "EndPostEmpty", "ClearFlag", "WSASend", "FreeSent"}

\* At most one WSASend of a session is being put together, outstanding or being
\* cleaned up after, so SendOver and SendPack have one owner.
OneSender == \A s \in Slots :
  Cardinality({t \in Threads : th[t].slot = s /\ th[t].pc \in Sender})
  + Len(Session[s].SendOver) <= IF Session[s].SendFlag THEN 1 ELSE 0

\* The packets a session was given to send and has not freed, the oldest first, and
\* the places of packet p among them.
Line(s) == Session[s].SendPack \o Session[s].SendQ
Places(p) == UNION {{s} \X {i \in DOMAIN Line(s) : Line(s)[i] = p} : s \in Slots}

\* iRefCnt of a packet counts the application's use of it and its places in
\* SendQ and SendPack, and whatever the kernel is still sending is alive.
PacketsCounted ==
  /\ \A p \in Packets \ {NoPack} :
       refs[p] = Cardinality({t \in Threads : th[t].msg = p}) + Cardinality(Places(p))
  /\ \A s \in Slots : \A i \in DOMAIN Session[s].SendOver :
       \A p \in ToSet(Session[s].SendOver[i].buf) : refs[p] > 0

Filling == {"TakeSlot", "SetSock", "SetID", "SetUse", "ResetFlag"}

\* Threads on their way from taking a slot to counting it, or from no longer
\* counting it to giving it back.
Moving == {t \in Threads : th[t].pc \in Filling \cup {"PushSlot"}}

\* A slot is free exactly when nothing holds or releases it, is in emptySession
\* once, and _Use_Session_Cnt counts the slots that are not.
SlotsAccounted ==
  /\ IsInjective(emptySession)
  /\ \A s \in Slots : s \in ToSet(emptySession) <=>
       /\ Session[s].IOCount = 0
       /\ \A t \in Threads : th[t].pc \in Releasing \cup {"TakeSlot"} => th[t].slot # s
  /\ UseSessionCnt = SessionMax - Len(emptySession) - Cardinality(Moving)

\* The server implements the service its users see.
Service == INSTANCE EchoService
  WITH Capacity <- SessionMax,
       joined <- [c \in Conns |-> net[c].joins], left <- [c \in Conns |-> net[c].leaves],
       asked <- [c \in Conns |-> net[c].asked], replies <- [c \in Conns |-> net[c].wire]
ImplementsService == Service!Spec

\* A connection its client has given up is released and its socket closed,
\* unless Stop ends the threads first.
SessionsEnd == \A c \in Conns :
  (net[c].sock # "none" /\ net[c].peer = "gone") ~> (net[c].sock = "closed" \/ main # "run")

\* So is a session the server has decided to cut off by shutdown().
ForcedSessionsEnd == \A c \in Conns :
  (net[c].sock = "shut") ~> (net[c].sock = "closed" \/ main # "run")

\* Stop returns: every thread ends.
StopReturns == (main = "shut") ~> (main = "off")

\* The session in slot s is open, no thread works on it and nothing is being sent.
AtRest(s) ==
  /\ net[Session[s].sock].sock = "open" /\ Session[s].SendOver = <<>>
  /\ \A t \in Threads : th[t].slot = s => th[t].held = {}

\* An echo does not stay behind: when a session is at rest its SendQ is empty.
NoEchoLeft == \A s \in Slots : AtRest(s) => Session[s].SendQ = <<>>

\* The packets a server that greets, and echoes every request, has given SendPacket for
\* connection c of slot s: the greeting, and one for each request that has left RecvQ.
ToSend(c, s) ==
  net[c].joins + net[c].asked - (Len(net[c].inbound) + Len(Session[s].RecvQ)) \div 2

\* PostSend posts what is in SendQ: when a session is at rest and its SendQ is empty,
\* every packet it was given has been sent.
EchoesSent == \A s \in Slots : LET c == Session[s].sock IN
  AtRest(s) /\ Session[s].SendQ = <<>> => Len(net[c].wire) = ToSend(c, s)

\* FindLockSession locks the session whose id it was given, so a packet is sent only on
\* the connection it was meant for, also when the slot is being given to the next one.
SentToAddressee == \A s \in Slots : \A i \in DOMAIN Session[s].SendOver :
  \A p \in ToSet(Session[s].SendOver[i].buf) : p[1] = Session[s].SendOver[i].sock

\* OnClientLeave is called once for a connection.
LeavesOnce == \A c \in Conns : net[c].leaves <= 1
=============================================================================
