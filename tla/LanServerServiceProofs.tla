---------------------- MODULE LanServerServiceProofs ----------------------
(***************************************************************************)
(* The server with the echo application on top of it implements the        *)
(* service of EchoService, for every number of slots, workers,             *)
(* connections and requests, whatever I/O fails and whenever clients leave *)
(* and Stop is called, as long as one WSASend can take the greeting and    *)
(* the answers to all requests of a client.  That sessions come and go in  *)
(* order is shown without this bound, and for every application that makes *)
(* its calls in callbacks and refuses no connection.                       *)
(***************************************************************************)
EXTENDS LanServerSlotsProofs

\* Only callbacks call SendPacket and Disconnect, and OnClientJoin refuses no connection.
Admits == Callers = {} /\ "reject" \notin OnJoin

\* The application of IOCP_ECHO_ClassVer_LF.cpp, and clients that make fewer requests than
\* buf[] takes replies.
Echoes ==
  /\ Callers = {} /\ OnJoin \subseteq {"greet"} /\ OnRecv \subseteq {"echo", "disconnect"}
  /\ MaxMsgs < SendbufMax

LEMMA EchoAdmits == Echoes => Admits
BY DEF Echoes, Admits

-----------------------------------------------------------------------------
(* The inductive invariant *)

Ided == {"SetUse", "ResetFlag", "Join"}
Fill == {"TakeSlot", "SetSock", "SetID"} \cup Ided
Emptying == {"Close", "DrainQ", "DrainPack", "PushSlot"}
Handling == {"Find", "FindUse", "FindID", "Disconnect", "Enqueue"}
Batching == {"Dequeue", "WSASend"}

\* A session is in slot s: the slot is not free, being filled in or being emptied.
Occupies(t, s) == th[t].slot = s /\ th[t].pc \in Fill \cup Emptying
Busy(s) == s \notin ToSet(emptySession) /\ \A t \in Threads : ~Occupies(t, s)

\* A connection is present exactly while it is the session in its slot.
Stages ==
  /\ \A c \in Conns :
       /\ net[c].joins \in {0, 1} /\ net[c].leaves \in 0 .. net[c].joins
       /\ net[c].joins = 1 /\ net[c].leaves = 0
            <=> Session[net[c].index].SessionID = c /\ Busy(net[c].index)
  /\ th[Acceptor].pc \in Fill => th[Acceptor].arg \in Conns /\ net[th[Acceptor].arg].joins = 0
  /\ th[Acceptor].pc \in Ided =>
       Session[th[Acceptor].slot].SessionID = th[Acceptor].arg

\* A slot has the socket of its session, and its receives are on that socket.
Sockets ==
  /\ \A s \in Slots :
       /\ \/ Session[s].sock = Session[s].SessionID
          \/ th[Acceptor].pc = "SetID" /\ th[Acceptor].slot = s
       /\ \A i \in DOMAIN Session[s].RecvOver : Session[s].RecvOver[i] = Session[s].SessionID
  /\ th[Acceptor].pc = "SetID" => Session[th[Acceptor].slot].sock = th[Acceptor].arg

\* The one that reads a session's requests: on its way from Join or the completion of a
\* receive to the next WSARecv.
Reading(t) ==
  \/ th[t].pc \in {"Parse", "Find", "FreeMsg", "PostRecv", "WSARecv"}
  \/ "call" \in th[t].held

OneReader ==
  /\ \A t \in Threads : Reading(t) =>
       /\ Session[th[t].slot].RecvOver = <<>>
       /\ \A u \in Threads \ {t} : Reading(u) => th[u].slot # th[t].slot
  /\ \A s \in Slots : Len(Session[s].RecvOver) <= 1

\* Callbacks call SendPacket and Disconnect with the id they were given.
OwnCall(t) ==
  /\ th[t].pc \in Handling =>
       /\ th[t].arg = Session[th[t].slot].SessionID
       /\ th[t].msg # NoPack => th[t].msg[1] = th[t].arg
  /\ th[t].pc = "Disconnect" => th[t].msg = NoPack
  /\ th[t].pc = "Enqueue" => th[t].msg # NoPack

OwnCalls == \A t \in Threads : OwnCall(t)

\* A slot starts with empty queues, a sender with an empty buf[].
Emptied == {"DrainPack", "PushSlot"}

Buffer(t) ==
  /\ th[t].batch # <<>> => th[t].pc \in Batching
  /\ th[t].pc = "WSASend" => th[t].batch # <<>>
  /\ th[t].pc \in Fill \cup {"DrainQ"} \cup Emptied => Session[th[t].slot].RecvQ = <<>>
  /\ th[t].pc \in Fill \cup Emptied => Session[th[t].slot].SendQ = <<>>

Buffers ==
  /\ \A t \in Threads : Buffer(t)
  /\ \A s \in ToSet(emptySession) : Session[s].RecvQ = <<>> /\ Session[s].SendQ = <<>>

\* The units q are the requests from the n-th to the k-th, one after the other.
Stream(q, n, k) ==
  /\ IF q = <<>> THEN n = k + 1 ELSE q[1].kind # "body" /\ q[1].n = n
  /\ \A i \in 1 .. Len(q) :
       /\ q[i].n <= k
       /\ q[i].kind = "head" =>
            i < Len(q) /\ q[i + 1].kind = "body" /\ q[i + 1].n = q[i].n
       /\ q[i].kind # "head" =>
            IF i < Len(q) THEN q[i + 1].kind # "body" /\ q[i + 1].n = q[i].n + 1
                          ELSE q[i].n = k

Handler(t, s) == th[t].slot = s /\ th[t].pc \in Handling
Batcher(t, s) == th[t].slot = s /\ th[t].pc \in Batching

\* The replies below m have been queued or sent; those sent, those in buf[] and those in
\* SendQ follow each other.
Outgoing(s, m) ==
  LET c == Session[s].SessionID
      q == Session[s].SendQ IN
  /\ \A i \in 1 .. Len(q) : q[i] = <<c, m - Len(q) + i - 1>>
  /\ \A t \in Threads : Batcher(t, s) =>
       LET b == th[t].batch IN
       /\ Len(net[c].wire) = m - Len(q) - Len(b)
       /\ \A i \in 1 .. Len(b) : b[i] = <<c, m - Len(q) - Len(b) + i - 1>>
  /\ (\A t \in Threads : ~Batcher(t, s)) => Len(net[c].wire) = m - Len(q)

\* The next request to be answered is the m-th, in RecvQ or under way, or its reply is about
\* to be queued.
Incoming(s, m) ==
  LET c == Session[s].SessionID
      q == Session[s].RecvQ \o net[c].inbound IN
  /\ \A t \in Threads : Handler(t, s) /\ th[t].msg # NoPack =>
       th[t].msg = <<c, m>> /\ m <= net[c].asked /\ Stream(q, m + 1, net[c].asked)
  /\ (\A t \in Threads : ~Handler(t, s)) => Stream(q, m, net[c].asked)

Ordered(s) ==
  \E m \in Nat : /\ m <= net[Session[s].SessionID].asked + 1
                 /\ Outgoing(s, m) /\ Incoming(s, m)

\* What clients have been sent is in order, and a request is waiting for each reply to come.
Wires ==
  \A c \in Conns :
    /\ Echoes => /\ net[c].wire = [i \in 1 .. Len(net[c].wire) |-> i - 1]
                 /\ Len(net[c].wire) <= net[c].asked + 1
    /\ net[c].asked <= MaxMsgs
    /\ net[c].joins = 0 => net[c].wire = <<>> /\ Stream(net[c].inbound, 1, net[c].asked)

\* While the socket of a session is open no reply of the echo application has been lost.
Open(s) == Echoes /\ InUse(s) /\ Busy(s) /\ net[Session[s].SessionID].sock = "open"
Answers == \A s \in Slots : Open(s) => Ordered(s)

Served == Stages /\ Sockets /\ OneReader /\ OwnCalls /\ Buffers /\ Wires /\ Answers

ServiceInv == AccountsInv /\ Served

-----------------------------------------------------------------------------
(* What the invariant says of a session and the threads that work on it *)

LEMMA Parts ==
  AccountsInv => /\ TypeOK /\ Holding /\ Naming /\ RefsCovered /\ Parted /\ OneSender
                 /\ UsedSlots /\ ZeroCounts
BY DEF AccountsInv, SlotsInv, RefsInv, Accounts

\* A thread in one of its handlers has the reference of the event.
LEMMA AtWork ==
  ASSUME AccountsInv, Callers = {}, NEW t \in Threads
  PROVE  /\ th[t].pc \notin Releasing \cup {"idle", "done", "TakeSlot"} => "event" \in th[t].held
         /\ th[t].pc \notin {"idle", "done"} => Works(t, th[t].slot)
         /\ "call" \in th[t].held => th[t].pc \in Calling \cup Sending
         /\ th[t].pc \in Handling => Reading(t)
         /\ Reading(t) => th[t].pc \notin Owning \cup {"idle", "done"}
<1>1. HoldingOf(t)
  BY Parts DEF Holding
<1>2. th[t].pc \notin Releasing \cup {"idle", "done", "TakeSlot"} => "event" \in th[t].held
  BY <1>1 DEF HoldingOf, Where, Carries
<1>3. th[t].pc \in Releasing => "call" \notin th[t].held
  BY <1>1, Parts DEF HoldingOf, Where, Carries, Parted, ClosingSlots, Calling, Sending
<1>4. "call" \in th[t].held => th[t].pc \in Calling \cup Sending
  BY <1>1, <1>3 DEF HoldingOf, Where, Carries
<1>5. th[t].pc \in Handling => Reading(t)
  BY <1>1 DEF HoldingOf, Where, Releasing, Carries, Calling, Handling, Reading
<1>6. Reading(t) => th[t].pc \notin Owning \cup {"idle", "done"}
  BY <1>4 DEF Reading, Calling, Sending, Owning, Releasing
<1> QED
  BY <1>2, <1>4, <1>5, <1>6 DEF Works, Owning

\* Where no thread owns the slot of a thread, and a session is in it.
Serving == Labels \ (Owning \cup {"idle", "done"})

LEMMA ServingThreads ==
  ASSUME AccountsInv, Callers = {}, NEW t \in Threads, th[t].pc \in Serving
  PROVE  /\ InUse(th[t].slot) /\ Busy(th[t].slot) /\ Works(t, th[t].slot)
         /\ Session[th[t].slot].UseFlag /\ Session[th[t].slot].IOCount # 0
         /\ \A u \in Threads : th[u].slot = th[t].slot => th[u].pc \notin Owning
<1>1. PICK s \in Slots : s = th[t].slot
  BY Parts, Typed
<1>2. Works(t, s) /\ th[t].held # {}
  BY <1>1, AtWork DEF Serving, Owning
<1>3. InUse(s)
  BY <1>1, <1>2, Parts DEF Naming, NamingOf, Serving, Owning
<1>4. \A u \in Threads : th[u].slot = s => th[u].pc \notin Owning
  BY <1>1, <1>2, Parts DEF Parted, OwnedSlots, Lone, Serving
<1>5. s \notin ToSet(emptySession)
  BY <1>2, Parts DEF Parted, FreeSlots
<1>6. Busy(s)
  BY <1>4, <1>5 DEF Busy, Occupies, Fill, Ided, Emptying, Owning, Releasing
<1>7. Session[s].IOCount # 0
  BY <1>4, <1>5, Parts DEF ZeroCounts, Unused, Preparing, Owning
<1>8. Session[s].UseFlag
  BY <1>1, Parts DEF UsedSlots, Idling, Serving, Owning
<1> QED
  BY <1>1, <1>2, <1>3, <1>4, <1>6, <1>7, <1>8

\* A session in use is that of its connection.
LEMMA SessionConn ==
  ASSUME AccountsInv, NEW s \in Slots, InUse(s)
  PROVE  /\ Session[s].SessionID \in Conns /\ net[Session[s].SessionID].index = s
         /\ net[Session[s].SessionID].sock # "none"
BY Parts DEF Naming, Named

LEMMA Present ==
  ASSUME AccountsInv, Stages, NEW s \in Slots, InUse(s), Busy(s)
  PROVE  net[Session[s].SessionID].joins = 1 /\ net[Session[s].SessionID].leaves = 0
BY SessionConn DEF Stages

LEMMA OnlySender ==
  ASSUME OneSender, NEW t \in Threads, NEW s \in Slots, th[t].slot = s, th[t].pc \in Sender,
         TypeOK
  PROVE  /\ \A u \in Threads \ {t} : th[u].slot = s => th[u].pc \notin Sender
         /\ Session[s].SendFlag
<1>1. Cardinality(Senders(s)) + Len(Session[s].SendOver) <= Flag(s)
  BY DEF OneSender, Senders, Flag
<1>2. Len(Session[s].SendOver) \in Nat
  BY SessionNumbers DEF TypeOK
<1>3. Cardinality(Senders(s)) = Cardinality(Senders(s) \ {t}) + 1
  BY CountSplit DEF Senders
<1>4. IsFiniteSet(Senders(s) \ {t}) /\ Cardinality(Senders(s) \ {t}) \in Nat
  BY SendersFinite DEF Senders
<1>5. Flag(s) \in {0, 1} /\ (Flag(s) = 1 <=> Session[s].SendFlag)
  BY DEF Flag
<1>6. Cardinality(Senders(s) \ {t}) = 0 /\ Flag(s) = 1
  BY <1>1, <1>2, <1>3, <1>4, <1>5
<1>7. Senders(s) \ {t} = {}
  BY <1>4, <1>6, FS_EmptySet
<1> QED
  BY <1>5, <1>6, <1>7 DEF Senders

-----------------------------------------------------------------------------
(* Steps of thread t on slot s *)

\* The callbacks made for the connections, and the slots they are in.
CallbacksSame == \A c \in Conns :
  net'[c].index = net[c].index /\ net'[c].joins = net[c].joins /\ net'[c].leaves = net[c].leaves

IdsSame == \A x \in Slots : Session'[x].SessionID = Session[x].SessionID
SocksSame == \A x \in Slots : Session'[x].sock = Session[x].sock

LEMMA StagesStep ==
  ASSUME TypeOK, Stages, CallbacksSame, IdsSame, NEW t \in Threads, Alone(t),
         ToSet(emptySession)' = ToSet(emptySession),
         \A x \in Slots : Occupies(t, x)' <=> Occupies(t, x),
         t = Acceptor => /\ th'[t].pc \in Fill => th[t].pc \in Fill /\ th'[t].arg = th[t].arg
                         /\ th'[t].pc \in Ided => th[t].pc \in Ided /\ th'[t].slot = th[t].slot
  PROVE  Stages'
<1>1. \A x \in Slots : Busy(x)' <=> Busy(x)
  BY DEF Busy, Occupies, Alone
<1>2. ASSUME NEW c \in Conns
      PROVE  net[c].index \in Slots
  BY ConnFields, ConstantTypes DEF TypeOK
<1>3. ASSUME NEW c \in Conns
      PROVE  /\ net'[c].joins \in {0, 1} /\ net'[c].leaves \in 0 .. net'[c].joins
             /\ net'[c].joins = 1 /\ net'[c].leaves = 0
                  <=> Session'[net'[c].index].SessionID = c /\ Busy(net[c].index)'
  <2>1. PICK x \in Slots : x = net[c].index
    BY <1>2
  <2>2. net'[c].index = x /\ net'[c].joins = net[c].joins /\ net'[c].leaves = net[c].leaves
    BY <2>1 DEF CallbacksSame
  <2>3. /\ net[c].joins \in {0, 1} /\ net[c].leaves \in 0 .. net[c].joins
        /\ net[c].joins = 1 /\ net[c].leaves = 0 <=> Session[x].SessionID = c /\ Busy(x)
    BY <2>1 DEF Stages
  <2>4. Busy(net[c].index)' <=> Busy(x)'
    BY <2>2
  <2> QED
    BY <1>1, <2>2, <2>3, <2>4 DEF IdsSame
<1>4. th[Acceptor].slot \in Slots /\ th[Acceptor].arg \in Ids /\ Acceptor \in Threads
  BY Typed, ThreadFields, ConstantTypes
<1>5. Ided \subseteq Fill
  BY DEF Fill
<1>6. th'[Acceptor].pc \in Fill => th[Acceptor].pc \in Fill /\ th'[Acceptor].arg = th[Acceptor].arg
  BY <1>4 DEF Alone
<1>7. th'[Acceptor].pc \in Ided =>
        th[Acceptor].pc \in Ided /\ th'[Acceptor].slot = th[Acceptor].slot
  BY <1>4 DEF Alone
<1>8. th'[Acceptor].pc \in Fill =>
        th'[Acceptor].arg \in Conns /\ net'[th'[Acceptor].arg].joins = 0
  BY <1>6 DEF Stages, CallbacksSame
<1>9. th'[Acceptor].pc \in Ided => Session'[th'[Acceptor].slot].SessionID = th'[Acceptor].arg
  BY <1>4, <1>5, <1>6, <1>7 DEF Stages, IdsSame
<1> QED
  BY <1>3, <1>8, <1>9 DEF Stages

LEMMA SocketsStep ==
  ASSUME TypeOK, Sockets, IdsSame, SocksSame, NEW t \in Threads, Alone(t),
         \A x \in Slots : \A i \in DOMAIN Session'[x].RecvOver :
           Session'[x].RecvOver[i] = Session[x].SessionID,
         t = Acceptor => th[t].pc # "SetID" /\ th'[t].pc # "SetID"
  PROVE  Sockets'
<1>1. Acceptor \in Threads
  BY ConstantTypes
<1>2. /\ th'[Acceptor].pc = "SetID" <=> th[Acceptor].pc = "SetID"
      /\ th'[Acceptor].pc = "SetID" => th'[Acceptor] = th[Acceptor]
  BY <1>1 DEF Alone
<1>3. th[Acceptor].slot \in Slots
  BY <1>1, Typed
<1>4. ASSUME NEW x \in Slots
      PROVE  /\ \/ Session'[x].sock = Session'[x].SessionID
                \/ th'[Acceptor].pc = "SetID" /\ th'[Acceptor].slot = x
             /\ \A i \in DOMAIN Session'[x].RecvOver :
                  Session'[x].RecvOver[i] = Session'[x].SessionID
  BY <1>2 DEF Sockets, IdsSame, SocksSame
<1>5. th'[Acceptor].pc = "SetID" => Session'[th'[Acceptor].slot].sock = th'[Acceptor].arg
  BY <1>2, <1>3 DEF Sockets, SocksSame
<1> QED
  BY <1>4, <1>5 DEF Sockets

\* No thread but t reads slot s.
NoneReads(t, s) == \A u \in Threads \ {t} : Reading(u) => th[u].slot # s

LEMMA OneReaderStep ==
  ASSUME TypeOK, OneReader, NEW t \in Threads, Alone(t), NEW s \in Slots, OnlyAt(s),
         Reading(t)' => th'[t].slot = s /\ Session'[s].RecvOver = <<>> /\ NoneReads(t, s),
         Session'[s].RecvOver = Session[s].RecvOver \/ NoneReads(t, s),
         Len(Session'[s].RecvOver) <= 1
  PROVE  OneReader'
<1>1. \A u \in Threads \ {t} : th'[u] = th[u] /\ (Reading(u)' <=> Reading(u))
  BY DEF Reading, Alone
<1>2. ASSUME NEW u \in Threads, Reading(u)'
      PROVE  /\ Session'[th'[u].slot].RecvOver = <<>>
             /\ \A v \in Threads \ {u} : Reading(v)' => th'[v].slot # th'[u].slot
  <2>1. CASE u = t
    BY <1>1, <1>2, <2>1 DEF NoneReads
  <2>2. CASE u # t
    <3>1. /\ Reading(u) /\ th'[u] = th[u] /\ Session[th[u].slot].RecvOver = <<>>
          /\ \A v \in Threads \ {u} : Reading(v) => th[v].slot # th[u].slot
      BY <1>1, <1>2, <2>2 DEF OneReader
    <3>2. th[u].slot \in Slots
      BY Typed
    <3>3. Session'[th[u].slot].RecvOver = <<>>
      BY <2>2, <3>1, <3>2 DEF OnlyAt, NoneReads
    <3>4. Reading(t)' => th'[t].slot # th[u].slot
      BY <2>2, <3>1 DEF NoneReads
    <3> QED
      BY <1>1, <3>1, <3>3, <3>4
  <2> QED
    BY <2>1, <2>2
<1>3. \A x \in Slots : Len(Session'[x].RecvOver) <= 1
  BY DEF OneReader, OnlyAt
<1> QED
  BY <1>2, <1>3 DEF OneReader

LEMMA OwnCallsStep ==
  ASSUME TypeOK, OwnCalls, IdsSame, NEW t \in Threads, Alone(t), OwnCall(t)'
  PROVE  OwnCalls'
<1>1. ASSUME NEW u \in Threads \ {t} PROVE OwnCall(u)'
  <2>1. th'[u] = th[u] /\ th[u].slot \in Slots
    BY Typed DEF Alone
  <2> QED
    BY <2>1 DEF OwnCalls, OwnCall, IdsSame
<1> QED
  BY <1>1 DEF OwnCalls

QueuesSame(s) == Session'[s].RecvQ = Session[s].RecvQ /\ Session'[s].SendQ = Session[s].SendQ

LEMMA BuffersStep ==
  ASSUME TypeOK, Buffers, Parted, NEW t \in Threads, Alone(t), NEW s \in Slots, OnlyAt(s),
         QueuesSame(s) \/ Works(t, s) \/ ~Quiet(s), Buffer(t)',
         ToSet(emptySession)' \subseteq ToSet(emptySession)
  PROVE  Buffers'
<1>1. ASSUME NEW u \in Threads \ {t} PROVE Buffer(u)'
  <2>1. th'[u] = th[u] /\ th[u].slot \in Slots /\ Buffer(u)
    BY Typed DEF Alone, Buffers
  <2>2. CASE th[u].pc \in Owning
    <3>1. th[u].slot # s \/ QueuesSame(s)
      BY <2>2 DEF Parted, OwnedSlots, Lone
    <3>2. QueuesSame(th[u].slot)
      BY <2>1, <3>1 DEF OnlyAt, QueuesSame
    <3> QED
      BY <2>1, <3>2 DEF Buffer, QueuesSame
  <2>3. CASE th[u].pc \notin Owning
    BY <2>1, <2>3 DEF Buffer, Owning, Releasing, Fill, Ided, Emptied
  <2> QED
    BY <2>2, <2>3
<1>2. ASSUME NEW x \in ToSet(emptySession)'
      PROVE  Session'[x].RecvQ = <<>> /\ Session'[x].SendQ = <<>>
  <2>1. x \in ToSet(emptySession) /\ x \in Slots
    <3>1. x \in ToSet(emptySession)
      BY Zenon
    <3>2. emptySession \in Seq(Slots)
      BY DEF TypeOK
    <3> QED
      BY ONLY <3>1, <3>2 DEF ToSet
  <2>2. x # s \/ QueuesSame(s)
    BY <2>1 DEF Parted, FreeSlots
  <2>3. QueuesSame(x)
    BY <2>1, <2>2 DEF OnlyAt, QueuesSame
  <2> QED
    BY <2>1, <2>3 DEF Buffers, QueuesSame
<1> QED
  BY <1>1, <1>2 DEF Buffers

\* The replies sent on a connection, the requests made and those under way.
ConnSame(c) == /\ net'[c].wire = net[c].wire /\ net'[c].asked = net[c].asked
               /\ net'[c].inbound = net[c].inbound

LEMMA OutgoingKept ==
  ASSUME NEW x \in Slots, Session'[x].SendQ = Session[x].SendQ,
         Session'[x].SessionID = Session[x].SessionID,
         net'[Session[x].SessionID].wire = net[Session[x].SessionID].wire,
         NEW t \in Threads, Alone(t), Batcher(t, x)' <=> Batcher(t, x),
         Batcher(t, x) => th'[t].batch = th[t].batch,
         NEW m \in Nat, Outgoing(x, m)
  PROVE  Outgoing(x, m)'
<1> DEFINE c == Session[x].SessionID
           q == Session[x].SendQ
<1>1. ASSUME NEW u \in Threads
      PROVE  /\ Batcher(u, x)' <=> Batcher(u, x)
             /\ Batcher(u, x) => th'[u].batch = th[u].batch
  BY DEF Alone, Batcher
<1>2. \A i \in 1 .. Len(q) : q[i] = <<c, m - Len(q) + i - 1>>
  BY DEF Outgoing
<1>3. ASSUME NEW u \in Threads, Batcher(u, x)'
      PROVE  LET b == th'[u].batch IN
             /\ Len(net[c].wire) = m - Len(q) - Len(b)
             /\ \A i \in 1 .. Len(b) : b[i] = <<c, m - Len(q) - Len(b) + i - 1>>
  BY <1>1, <1>3 DEF Outgoing
<1>4. (\A u \in Threads : ~Batcher(u, x)') => Len(net[c].wire) = m - Len(q)
  BY <1>1 DEF Outgoing
<1>5. Session'[x].SessionID = c /\ Session'[x].SendQ = q /\ net'[c].wire = net[c].wire
  OBVIOUS
<1> HIDE DEF c, q
<1> QED
  BY <1>2, <1>3, <1>4, <1>5 DEF Outgoing

LEMMA IncomingKept ==
  ASSUME NEW x \in Slots, Session'[x].SessionID = Session[x].SessionID,
         Session'[x].RecvQ \o net'[Session[x].SessionID].inbound
           = Session[x].RecvQ \o net[Session[x].SessionID].inbound,
         net'[Session[x].SessionID].asked = net[Session[x].SessionID].asked,
         NEW t \in Threads, Alone(t), Handler(t, x)' <=> Handler(t, x),
         Handler(t, x) => th'[t].msg = th[t].msg,
         NEW m \in Nat, Incoming(x, m)
  PROVE  Incoming(x, m)'
<1> DEFINE c == Session[x].SessionID
           r == Session[x].RecvQ \o net[c].inbound
<1>1. ASSUME NEW u \in Threads
      PROVE  /\ Handler(u, x)' <=> Handler(u, x)
             /\ Handler(u, x) => th'[u].msg = th[u].msg
  BY DEF Alone, Handler
<1>2. ASSUME NEW u \in Threads, Handler(u, x)', th'[u].msg # NoPack
      PROVE  th'[u].msg = <<c, m>> /\ m <= net[c].asked /\ Stream(r, m + 1, net[c].asked)
  BY <1>1, <1>2 DEF Incoming
<1>3. (\A u \in Threads : ~Handler(u, x)') => Stream(r, m, net[c].asked)
  BY <1>1 DEF Incoming
<1>4. /\ Session'[x].SessionID = c /\ Session'[x].RecvQ \o net'[c].inbound = r
      /\ net'[c].asked = net[c].asked
  OBVIOUS
<1> HIDE DEF c, r
<1> QED
  BY <1>2, <1>3, <1>4 DEF Incoming

\* A step of t that leaves alone what the order of slot x's replies is about.
LEMMA OrderedKept ==
  ASSUME NEW x \in Slots, QueuesSame(x), Session'[x].SessionID = Session[x].SessionID,
         ConnSame(Session[x].SessionID), NEW t \in Threads, Alone(t),
         Handler(t, x)' <=> Handler(t, x), Handler(t, x) => th'[t].msg = th[t].msg,
         Batcher(t, x)' <=> Batcher(t, x), Batcher(t, x) => th'[t].batch = th[t].batch,
         Ordered(x)
  PROVE  Ordered(x)'
<1>1. PICK m \in Nat : /\ m <= net[Session[x].SessionID].asked + 1
                      /\ Outgoing(x, m) /\ Incoming(x, m)
  BY DEF Ordered
<1>2. Outgoing(x, m)'
  BY <1>1, OutgoingKept DEF QueuesSame, ConnSame
<1>3. Incoming(x, m)'
  BY <1>1, IncomingKept DEF QueuesSame, ConnSame
<1> QED
  BY <1>1, <1>2, <1>3 DEF Ordered, ConnSame

\* No socket is opened but for a new connection, and only the connection of slot s is used.
ElsewhereSame(s) ==
  \A c \in Conns : c # Session[s].SessionID /\ net[c].sock # "none" =>
    ConnSame(c) /\ (net'[c].sock = "open" => net[c].sock = "open")

LEMMA AnswersStep ==
  ASSUME AccountsInv, Answers, NEW t \in Threads, Alone(t), NEW s \in Slots, OnlyAt(s),
         th'[t].slot = s, th[t].slot = s \/ th[t].pc = "idle",
         ToSet(emptySession) \ {s} \subseteq ToSet(emptySession)', ElsewhereSame(s),
         Open(s)' => Ordered(s)'
  PROVE  Answers'
<1> SUFFICES ASSUME NEW x \in Slots, x # s, Open(x)' PROVE Ordered(x)'
  BY DEF Answers
<1>1. Session'[x] = Session[x] /\ InUse(x)
  BY DEF OnlyAt, Open, InUse
<1>2. PICK c \in Conns : c = Session[x].SessionID
  BY <1>1, SessionConn
<1>3. net[c].index = x /\ net[c].sock # "none"
  BY <1>1, <1>2, SessionConn
<1>4. c # Session[s].SessionID
  <2>1. SUFFICES ASSUME c = Session[s].SessionID PROVE FALSE
    OBVIOUS
  <2>2. InUse(s)
    BY <1>1, <1>2, <2>1 DEF InUse
  <2> QED
    BY <1>3, <2>1, <2>2, SessionConn
<1>5. ConnSame(c) /\ (net'[c].sock = "open" => net[c].sock = "open")
  BY <1>3, <1>4 DEF ElsewhereSame
<1>6. Busy(x)
  <2>1. x \notin ToSet(emptySession)
    BY DEF Open, Busy
  <2>2. ~Occupies(t, x)
    BY DEF Occupies, Fill, Ided, Emptying
  <2>3. \A u \in Threads \ {t} : ~Occupies(u, x)
    BY DEF Open, Busy, Occupies, Alone
  <2> QED
    BY <2>1, <2>2, <2>3 DEF Busy
<1>7. Ordered(x)
  BY <1>1, <1>2, <1>5, <1>6 DEF Open, Answers
<1>8. ~Handler(t, x) /\ ~Handler(t, x)' /\ ~Batcher(t, x) /\ ~Batcher(t, x)'
  BY DEF Handler, Handling, Batcher, Batching
<1>9. QueuesSame(x)
  BY <1>1 DEF QueuesSame
<1> QED
  BY <1>1, <1>2, <1>5, <1>7, <1>8, <1>9, OrderedKept

\* A step on a session that neither comes nor goes with it.
LEMMA WorkStep ==
  ASSUME AccountsInv, Served, NEW t \in Threads, Alone(t), NEW s \in Slots, OnlyAt(s),
         th'[t].slot = s, th[t].slot = s \/ th[t].pc = "idle",
         IdsSame, SocksSame, CallbacksSame, ToSet(emptySession)' = ToSet(emptySession),
         Occupies(t, s)' <=> Occupies(t, s),
         t = Acceptor => /\ th'[t].pc \in Fill => th[t].pc \in Fill /\ th'[t].arg = th[t].arg
                         /\ th'[t].pc \in Ided => th[t].pc \in Ided
                         /\ th[t].pc # "SetID" /\ th'[t].pc # "SetID",
         Reading(t)' => Session'[s].RecvOver = <<>> /\ NoneReads(t, s),
         Session'[s].RecvOver = Session[s].RecvOver \/ NoneReads(t, s),
         Len(Session'[s].RecvOver) <= 1,
         \A i \in DOMAIN Session'[s].RecvOver : Session'[s].RecvOver[i] = Session[s].SessionID,
         OwnCall(t)', Buffer(t)', QueuesSame(s) \/ Works(t, s) \/ ~Quiet(s),
         Wires', ElsewhereSame(s), Open(s)' => Ordered(s)'
  PROVE  Served'
<1>1. /\ TypeOK /\ Parted /\ Stages /\ Sockets /\ OneReader /\ OwnCalls /\ Buffers /\ Answers
  BY Parts DEF Served
<1>2. Stages'
  <2>1. \A x \in Slots : Occupies(t, x)' <=> Occupies(t, x)
    BY DEF Occupies, Fill, Ided, Emptying
  <2>2. "idle" \notin Fill \cup Ided
    BY DEF Fill, Ided
  <2> QED
    BY <1>1, <2>1, <2>2, StagesStep
<1>3. Sockets'
  <2>1. \A x \in Slots : \A i \in DOMAIN Session'[x].RecvOver :
          Session'[x].RecvOver[i] = Session[x].SessionID
    BY <1>1 DEF Sockets, OnlyAt
  <2> QED
    BY <1>1, <2>1, SocketsStep
<1>4. OneReader'
  BY <1>1, OneReaderStep
<1>5. OwnCalls'
  BY <1>1, OwnCallsStep
<1>6. Buffers'
  BY <1>1, BuffersStep
<1>7. Answers'
  BY <1>1, AnswersStep
<1> QED
  BY <1>2, <1>3, <1>4, <1>5, <1>6, <1>7 DEF Served

\* k may follow l in a thread that does not change what it does.
Keeps(l, k) ==
  /\ k \in Fill \cup Emptying <=> l \in Fill \cup Emptying
  /\ k \in Fill => l \in Fill
  /\ k \in Ided => l \in Ided
  /\ k \in {"DrainQ"} \cup Emptied => l \in {"DrainQ"} \cup Emptied
  /\ k \in Emptied => l \in Emptied
  /\ k # "SetID" /\ l # "SetID"
  /\ k \in Handling <=> l \in Handling
  /\ k \in Batching <=> l \in Batching

SessionAlike(s) == /\ OnlyAt(s) /\ QueuesSame(s) /\ IdsSame /\ SocksSame
                   /\ Session'[s].RecvOver = Session[s].RecvOver

NetAlike == /\ CallbacksSame
            /\ \A c \in Conns : ConnSame(c) /\ (net'[c].sock = "open" => net[c].sock = "open")

LEMMA RoutineStep ==
  ASSUME AccountsInv, Callers = {}, Served, NEW t \in Threads, NEW k, Stays(t, k),
         Keeps(th[t].pc, k),
         SessionAlike(th[t].slot), NetAlike, ToSet(emptySession)' = ToSet(emptySession),
         th'[t].batch = th[t].batch, k = "WSASend" => th[t].batch # <<>>,
         k \in Handling \cup Fill => th'[t].arg = th[t].arg /\ th'[t].msg = th[t].msg,
         k = "Disconnect" => th[t].msg = NoPack, k = "Enqueue" => th[t].msg # NoPack,
         Reading(t)' => Reading(t)
  PROVE  Served'
<1>1. PICK s \in Slots : s = th[t].slot
  BY Parts, Typed
<1>2. /\ TypeOK /\ OnlyAt(s) /\ QueuesSame(s) /\ IdsSame /\ SocksSame /\ CallbacksSame /\ Alone(t)
      /\ th'[t].slot = s /\ th'[t].pc = k /\ Session'[s].RecvOver = Session[s].RecvOver
      /\ Stages /\ Sockets /\ OneReader /\ OwnCalls /\ Buffers /\ Wires /\ Answers
  BY <1>1, Parts DEF SessionAlike, NetAlike, Stays, Served
<1>3. Occupies(t, s)' <=> Occupies(t, s)
  BY <1>1, <1>2 DEF Keeps, Occupies
<1>4. t = Acceptor => /\ th'[t].pc \in Fill => th[t].pc \in Fill /\ th'[t].arg = th[t].arg
                      /\ th'[t].pc \in Ided => th[t].pc \in Ided
                      /\ th[t].pc # "SetID" /\ th'[t].pc # "SetID"
  BY <1>2 DEF Keeps
<1>5. Reading(t)' => Session'[s].RecvOver = <<>> /\ NoneReads(t, s)
  BY <1>1, <1>2 DEF OneReader, NoneReads
<1>6. /\ Len(Session'[s].RecvOver) <= 1
      /\ \A i \in DOMAIN Session'[s].RecvOver : Session'[s].RecvOver[i] = Session[s].SessionID
  BY <1>2 DEF OneReader, Sockets
<1>7. OwnCall(t)'
  BY <1>1, <1>2 DEF OwnCalls, OwnCall, Keeps, Handling, IdsSame
<1>8. Buffer(t)'
  BY <1>1, <1>2 DEF Buffers, Buffer, Keeps, QueuesSame
<1>9. Wires'
  BY <1>2 DEF Wires, NetAlike, ConnSame, CallbacksSame
<1>10. ElsewhereSame(s)
  BY DEF ElsewhereSame, NetAlike
<1>11. Open(s)' => Ordered(s)'
  <2> SUFFICES ASSUME Open(s)' PROVE Ordered(s)'
    OBVIOUS
  <2>1. InUse(s)
    BY <1>2 DEF Open, InUse, IdsSame
  <2>2. PICK c \in Conns : c = Session[s].SessionID
    BY <2>1, SessionConn
  <2>3. Busy(s)
    <3>1. \A u \in Threads : Occupies(u, s) <=> Occupies(u, s)'
      BY <1>2, <1>3 DEF Alone, Occupies
    <3> QED
      BY <3>1 DEF Open, Busy
  <2>4. Open(s)
    BY <1>2, <2>1, <2>2, <2>3 DEF Open, NetAlike, IdsSame
  <2>5. Ordered(s)
    BY <1>2, <2>4 DEF Answers
  <2>6. /\ Handler(t, s)' <=> Handler(t, s)
        /\ Handler(t, s) => th'[t].msg = th[t].msg
        /\ Batcher(t, s)' <=> Batcher(t, s)
    BY <1>1, <1>2 DEF Keeps, Handler, Batcher
  <2>7. ConnSame(c)
    BY DEF NetAlike
  <2> QED
    BY <1>2, <2>2, <2>5, <2>6, <2>7, OrderedKept DEF IdsSame
<1> QED
  BY <1>1, <1>2, <1>3, <1>4, <1>5, <1>6, <1>7, <1>8, <1>9, <1>10, <1>11, WorkStep

-----------------------------------------------------------------------------
(* The updates of these steps *)

LEMMA SessionKeeps ==
  ASSUME TypeOK, NEW s \in Slots
  PROVE  /\ UNCHANGED Session => SessionAlike(s)
         /\ \A x : Session' = [Session EXCEPT ![s].IOCount = x] => SessionAlike(s)
         /\ \A x : Session' = [Session EXCEPT ![s].UseFlag = x] => SessionAlike(s)
         /\ \A x : Session' = [Session EXCEPT ![s].SendFlag = x] => SessionAlike(s)
         /\ \A x : Session' = [Session EXCEPT ![s].SendPack = x] => SessionAlike(s)
         /\ \A x : Session' = [Session EXCEPT ![s].SendOver = x] => SessionAlike(s)
<1>0. Session \in [Slots -> SessionType]
  BY DEF TypeOK
<1>1. UNCHANGED Session => SessionAlike(s)
  BY DEF SessionAlike, OnlyAt, QueuesSame, IdsSame, SocksSame
<1>2. \A x : Session' = [Session EXCEPT ![s].IOCount = x] => SessionAlike(s)
  BY <1>0 DEF SessionType, SessionAlike, OnlyAt, QueuesSame, IdsSame, SocksSame
<1>3. \A x : Session' = [Session EXCEPT ![s].UseFlag = x] => SessionAlike(s)
  BY <1>0 DEF SessionType, SessionAlike, OnlyAt, QueuesSame, IdsSame, SocksSame
<1>4. \A x : Session' = [Session EXCEPT ![s].SendFlag = x] => SessionAlike(s)
  BY <1>0 DEF SessionType, SessionAlike, OnlyAt, QueuesSame, IdsSame, SocksSame
<1>5. \A x : Session' = [Session EXCEPT ![s].SendPack = x] => SessionAlike(s)
  BY <1>0 DEF SessionType, SessionAlike, OnlyAt, QueuesSame, IdsSame, SocksSame
<1>6. \A x : Session' = [Session EXCEPT ![s].SendOver = x] => SessionAlike(s)
  BY <1>0 DEF SessionType, SessionAlike, OnlyAt, QueuesSame, IdsSame, SocksSame
<1> QED
  BY <1>1, <1>2, <1>3, <1>4, <1>5, <1>6

LEMMA NetKeeps ==
  ASSUME TypeOK, NEW c \in Ids
  PROVE  /\ UNCHANGED net => NetAlike
         /\ ShutDown(c) => NetAlike /\ net'[c].sock # "open"
         /\ \A x : net' = [net EXCEPT ![c].peer = x] => NetAlike
<1>0. net \in [Ids -> ConnType] /\ Conns \subseteq Ids
  BY ConstantTypes DEF TypeOK
<1>1. UNCHANGED net => NetAlike
  BY DEF NetAlike, CallbacksSame, ConnSame
<1>2. ShutDown(c) => NetAlike /\ net'[c].sock # "open"
  BY <1>0 DEF ConnType, ShutDown, NetAlike, CallbacksSame, ConnSame
<1>3. \A x : net' = [net EXCEPT ![c].peer = x] => NetAlike
  BY <1>0 DEF ConnType, NetAlike, CallbacksSame, ConnSame
<1> QED
  BY <1>1, <1>2, <1>3

\* Thread t goes on at k with the references h, and nothing else of it changes.
Turns(t, k, h) ==
  /\ Stays(t, k) /\ th'[t].held = h
  /\ th'[t].arg = th[t].arg /\ th'[t].msg = th[t].msg /\ th'[t].batch = th[t].batch

LEMMA ThreadTurns ==
  ASSUME TypeOK, NEW t \in Threads
  PROVE  /\ UNCHANGED th => Turns(t, th[t].pc, th[t].held)
         /\ \A k : Goto(t, k) => Turns(t, k, th[t].held)
         /\ \A h, k : th' = [th EXCEPT ![t].held = h, ![t].pc = k] => Turns(t, k, h)
         /\ \A h, b, k : th' = [th EXCEPT ![t].held = h, ![t].back = b, ![t].pc = k]
                           => Turns(t, k, h)
<1>0. th \in [Threads -> ThreadType]
  BY DEF TypeOK
<1>1. UNCHANGED th => Turns(t, th[t].pc, th[t].held)
  BY DEF Turns, Stays, Alone
<1>2. \A k : Goto(t, k) => Turns(t, k, th[t].held)
  BY <1>0 DEF ThreadType, Goto, Turns, Stays, Alone
<1>3. \A h, k : th' = [th EXCEPT ![t].held = h, ![t].pc = k] => Turns(t, k, h)
  BY <1>0 DEF ThreadType, Turns, Stays, Alone
<1>4. \A h, b, k : th' = [th EXCEPT ![t].held = h, ![t].back = b, ![t].pc = k]
                     => Turns(t, k, h)
  <2> SUFFICES ASSUME NEW h, NEW b, NEW k,
                      th' = [th EXCEPT ![t].held = h, ![t].back = b, ![t].pc = k]
               PROVE  Turns(t, k, h)
    OBVIOUS
  <2> QED
    BY <1>0 DEF ThreadType, Turns, Stays, Alone
<1> QED
  BY <1>1, <1>2, <1>3, <1>4

ReadingAt == {"Parse", "Find", "FreeMsg", "PostRecv", "WSARecv"}

LEMMA TurnStep ==
  ASSUME AccountsInv, Callers = {}, Served, NEW t \in Threads, NEW k, NEW h, Turns(t, k, h),
         Keeps(th[t].pc, k),
         SessionAlike(th[t].slot), NetAlike, UNCHANGED emptySession,
         k = "WSASend" => th[t].batch # <<>>,
         k = "Disconnect" => th[t].msg = NoPack, k = "Enqueue" => th[t].msg # NoPack,
         k \in ReadingAt => th[t].pc \in ReadingAt \/ "call" \in th[t].held,
         "call" \in h => "call" \in th[t].held
  PROVE  Served'
<1>1. Reading(t)' => Reading(t)
  BY DEF Reading, Turns, Stays, ReadingAt
<1>2. ToSet(emptySession)' = ToSet(emptySession)
  BY DEF ToSet
<1> QED
  BY <1>1, <1>2, RoutineStep DEF Turns

-----------------------------------------------------------------------------
(* Steps that leave the service alone *)

\* Where a thread neither sets up or clears a slot, nor looks for one, nor sends.
Ordinary ==
  {"idle", "done", "EndPost", "EndPostEmpty", "EndCall", "EndEvent", "Release", "Leave",
   "FreeMsg", "PostSend", "SetFlag", "ClearFlag", "PostRecv", "WSARecv", "Parse", "FreeSent",
   "Recheck", "Zero"}

LEMMA OrdinaryKeeps ==
  /\ \A l, k \in Ordinary : Keeps(l, k)
  /\ {"WSASend", "Disconnect", "Enqueue"} \cap Ordinary = {}
BY DEF Ordinary, Keeps, Fill, Ided, Emptying, Emptied, Handling, Batching

LEMMA OrdinaryTurn ==
  ASSUME AccountsInv, Callers = {}, Served, NEW t \in Threads, NEW k \in Ordinary, NEW h,
         Turns(t, k, h), th[t].pc \in Ordinary,
         SessionAlike(th[t].slot), NetAlike, UNCHANGED emptySession,
         k \in ReadingAt => th[t].pc \in ReadingAt \/ "call" \in th[t].held,
         "call" \in h => "call" \in th[t].held
  PROVE  Served'
BY OrdinaryKeeps, TurnStep

LEMMA ServedDecrements ==
  ASSUME AccountsInv, Callers = {}, Served, NEW t \in Threads,
         EndPost(t) \/ EndPostEmpty(t) \/ EndCall(t) \/ EndEvent(t)
  PROVE  Served'
<1>1. TypeOK /\ HoldingOf(t) /\ th[t].slot \in Slots
  BY Parts, Typed DEF Holding
<1>2. PICK k \in {"post", "call", "event"}, l \in (Ordinary \ ReadingAt) \cup {"FreeMsg"} :
        /\ IODecrement(t, k, l) /\ th[t].pc \in Ordinary
        /\ l = "FreeMsg" => th[t].pc = "EndCall"
  <2>1. CASE EndPost(t)
    BY <2>1 DEF EndPost, At, AfterPost, Ordinary, ReadingAt
  <2>2. CASE EndPostEmpty(t)
    BY <2>2 DEF EndPostEmpty, At, Ordinary, ReadingAt
  <2>3. CASE EndCall(t)
    BY <2>3 DEF EndCall, At, Ordinary, ReadingAt
  <2>4. CASE EndEvent(t)
    BY <2>4 DEF EndEvent, At, Ordinary, ReadingAt
  <2> QED
    BY <2>1, <2>2, <2>3, <2>4
<1> DEFINE l2 == IF Session[th[t].slot].IOCount = 1 THEN "Release" ELSE l
<1>3. Turns(t, l2, th[t].held \ {k})
  BY <1>1, <1>2, ThreadTurns DEF IODecrement
<1>4. SessionAlike(th[t].slot) /\ NetAlike /\ UNCHANGED emptySession
  BY <1>1, <1>2, SessionKeeps, NetKeeps, ConstantTypes DEF IODecrement, pool
<1>5. l2 \in Ordinary
  BY <1>2 DEF Ordinary
<1>6. l2 \in ReadingAt => "call" \in th[t].held
  BY <1>1, <1>2 DEF ReadingAt, HoldingOf, Where, Releasing, Carries, Calling
<1>7. "call" \in th[t].held \ {k} => "call" \in th[t].held
  OBVIOUS
<1> HIDE DEF l2
<1> QED
  BY <1>2, <1>3, <1>4, <1>5, <1>6, <1>7, OrdinaryTurn

\* IODecrement, PostSend and PostRecv aside, these change no more than a flag.
LEMMA ServedOrdinary ==
  ASSUME AccountsInv, Callers = {}, Served, NEW t \in Threads,
         \/ Release(t) \/ PostSend(t) \/ PostRecv(t) \/ ClearFlag(t) \/ Zero(t) \/ Quit(t)
         \/ Recheck(t) \/ FreeSent(t)
         \/ t = Acceptor /\ AcceptEnd
  PROVE  Served'
<1>1. TypeOK /\ th[t].slot \in Slots /\ Session[th[t].slot].sock \in Ids /\ NoConn \in Ids
  BY Parts, Typed, SessionFields, ConstantTypes
<1>2. th[t].pc \in Ordinary /\ UNCHANGED emptySession
  BY DEF Release, PostSend, PostRecv, ClearFlag, Zero, Quit, Recheck, FreeSent, AcceptEnd, At,
         Step, pool, Ordinary
<1>3. SessionAlike(th[t].slot)
  <2>1. \/ UNCHANGED Session
        \/ \E x : Session' = [Session EXCEPT ![th[t].slot].IOCount = x]
        \/ \E x : Session' = [Session EXCEPT ![th[t].slot].SendFlag = x]
        \/ \E x : Session' = [Session EXCEPT ![th[t].slot].SendPack = x]
    BY DEF Release, PostSend, PostRecv, ClearFlag, Zero, Quit, Recheck, FreeSent, AcceptEnd, Take
  <2> QED
    BY <1>1, <2>1, SessionKeeps
<1>4. NetAlike
  <2>1. UNCHANGED net \/ ShutDown(Session[th[t].slot].sock)
    BY DEF Release, PostSend, PostRecv, ClearFlag, Zero, Quit, Recheck, FreeSent, AcceptEnd
  <2> QED
    BY <1>1, <2>1, NetKeeps
<1>5. PICK k \in Ordinary, h \in {th[t].held, th[t].held \cup {"post"}} :
        /\ Turns(t, k, h)
        /\ k \in ReadingAt => th[t].pc \in ReadingAt
  <2>1. CASE Release(t)
    <3>1. th[t].back = "idle"
      BY <2>1, Parts DEF Parted, ClosingSlots, Release, Step, At, Releasing
    <3>2. PICK k \in {"idle", "Leave"} : Goto(t, k)
      BY <2>1, <3>1 DEF Release, Step
    <3> QED
      BY <1>1, <3>2, ThreadTurns DEF Ordinary, ReadingAt
  <2>2. CASE PostSend(t) \/ PostRecv(t)
    <3>1. \/ th' = [th EXCEPT ![t].held = @ \cup {"post"}, ![t].pc = "SetFlag"]
          \/ /\ th' = [th EXCEPT ![t].held = @ \cup {"post"}, ![t].pc = "WSARecv"]
             /\ th[t].pc = "PostRecv"
      BY <2>2 DEF PostSend, PostRecv, Take, At
    <3> QED
      BY <1>1, <3>1, ThreadTurns DEF Ordinary, ReadingAt
  <2>3. CASE ClearFlag(t)
    <3>1. PICK k \in {"EndCall", "EndEvent"} : Goto(t, k)
      BY <2>3 DEF ClearFlag, Step, AfterPost
    <3> QED
      BY <1>1, <3>1, ThreadTurns DEF Ordinary, ReadingAt
  <2>4. CASE Zero(t) \/ Quit(t) \/ Recheck(t) \/ (t = Acceptor /\ AcceptEnd)
    <3>1. PICK k \in {"EndEvent", "done", "PostSend"} : Goto(t, k)
      BY <2>4 DEF Zero, Quit, Recheck, AcceptEnd, Step
    <3> QED
      BY <1>1, <3>1, ThreadTurns DEF Ordinary, ReadingAt
  <2>5. CASE FreeSent(t)
    <3>1. UNCHANGED th \/ Goto(t, "Recheck")
      BY <2>5 DEF FreeSent
    <3>2. CASE UNCHANGED th
      BY <1>1, <1>2, <3>2, ThreadTurns
    <3>3. CASE Goto(t, "Recheck")
      BY <1>1, <3>3, ThreadTurns DEF Ordinary, ReadingAt
    <3> QED
      BY <3>1, <3>2, <3>3
  <2> QED
    BY <2>1, <2>2, <2>3, <2>4, <2>5
<1> QED
  BY <1>2, <1>3, <1>4, <1>5, OrdinaryTurn

\* A callback's own session is there: FindLockSession finds it.
LEMMA ServedFind ==
  ASSUME AccountsInv, Callers = {}, Served, NEW t \in Threads,
         Find(t) \/ FindUse(t) \/ FindID(t)
  PROVE  Served'
<1>1. /\ TypeOK /\ OwnCall(t) /\ th[t].pc \in {"Find", "FindUse", "FindID"}
      /\ UNCHANGED <<emptySession, net>>
  BY Parts DEF Served, OwnCalls, Find, FindUse, FindID, Step, At, pool
<1>2. PICK s \in Slots : s = th[t].slot
  BY <1>1, Typed
<1>3. th[t].arg = Session[s].SessionID
  BY <1>1, <1>2 DEF OwnCall, Handling
<1>4. InUse(s) /\ Session[s].UseFlag /\ Session[s].IOCount # 0
  BY <1>1, <1>2, ServingThreads DEF Serving, Labels, Owning, Releasing
<1>5. NetAlike /\ UNCHANGED emptySession
  BY <1>1, NetKeeps, ConstantTypes
<1>6. CASE Find(t)
  <2>1. net[th[t].arg].index = s /\ th[t].pc = "Find"
    BY <1>3, <1>4, <1>6, SessionConn DEF Find, At
  <2>2. th' = [th EXCEPT ![t].slot = s, ![t].held = @ \cup {"call"}, ![t].pc = "FindUse"]
    BY <1>4, <1>6, <2>1 DEF Find
  <2>3. /\ Stays(t, "FindUse") /\ th'[t].arg = th[t].arg /\ th'[t].msg = th[t].msg
        /\ th'[t].batch = th[t].batch
    BY <1>1, <1>2, <2>2 DEF TypeOK, ThreadType, Stays, Alone
  <2>4. SessionAlike(s)
    BY <1>1, <1>2, <1>6, <2>1, SessionKeeps DEF Find
  <2>5. Keeps(th[t].pc, "FindUse")
    BY <2>1 DEF Keeps, Fill, Ided, Emptying, Emptied, Handling, Batching
  <2>6. Reading(t)
    BY <2>1 DEF Reading
  <2>7. ToSet(emptySession)' = ToSet(emptySession)
    BY <1>5 DEF ToSet
  <2> QED
    BY <1>2, <1>5, <2>3, <2>4, <2>5, <2>6, <2>7, RoutineStep
<1>7. CASE FindUse(t) \/ FindID(t)
  <2>1. PICK k \in {"FindID", "Disconnect", "Enqueue"} :
          /\ Goto(t, k)
          /\ k = "Disconnect" => th[t].msg = NoPack
          /\ k = "Enqueue" => th[t].msg # NoPack
    <3>1. FindUse(t) => Goto(t, "FindID")
      BY <1>2, <1>4 DEF FindUse, Step
    <3>2. FindID(t) => Goto(t, IF th[t].msg = NoPack THEN "Disconnect" ELSE "Enqueue")
      BY <1>2, <1>3 DEF FindID, Step
    <3> QED
      BY <1>7, <3>1, <3>2
  <2>2. Turns(t, k, th[t].held)
    BY <1>1, <2>1, ThreadTurns
  <2>3. SessionAlike(s)
    BY <1>1, <1>2, <1>7, SessionKeeps DEF FindUse, FindID
  <2>4. Keeps(th[t].pc, k) /\ k \notin ReadingAt \cup {"WSASend"}
    BY <1>1, <2>1 DEF Keeps, Fill, Ided, Emptying, Emptied, Handling, Batching, ReadingAt
  <2> QED
    BY <1>2, <1>5, <2>1, <2>2, <2>3, <2>4, TurnStep
<1> QED
  BY <1>6, <1>7, <1>1

LEMMA ServedFreeMsg ==
  ASSUME AccountsInv, Callers = {}, Served, NEW t \in Threads, FreeMsg(t)
  PROVE  Served'
<1>1. /\ TypeOK /\ th[t].slot \in Slots /\ th[t].pc = "FreeMsg"
      /\ UNCHANGED <<emptySession, net, Session>>
  BY Parts, Typed DEF FreeMsg, At, pool
<1>2. PICK k \in {"PostRecv", "Parse"} :
        th' = [th EXCEPT ![t].msg = NoPack, ![t].arg = NoConn, ![t].pc = k]
  BY DEF FreeMsg, AfterCall, Threads
<1>3. Stays(t, k) /\ th'[t].batch = th[t].batch
  BY <1>1, <1>2 DEF TypeOK, ThreadType, Stays, Alone
<1>4. SessionAlike(th[t].slot) /\ NetAlike /\ ToSet(emptySession)' = ToSet(emptySession)
  BY <1>1, SessionKeeps, NetKeeps, ConstantTypes DEF ToSet
<1>5. /\ Keeps(th[t].pc, k) /\ k \notin Handling \cup Fill
      /\ k \notin {"WSASend", "Disconnect", "Enqueue"}
  BY <1>1 DEF Keeps, Fill, Ided, Emptying, Emptied, Handling, Batching
<1>6. Reading(t)
  BY <1>1 DEF Reading
<1> QED
  BY <1>3, <1>4, <1>5, <1>6, RoutineStep

\* Setting up a slot before and after its identity is written, and clearing SendPack.
LEMMA ServedSetting ==
  ASSUME AccountsInv, Callers = {}, Served, NEW t \in Threads,
         DrainPack(t) \/ (t = Acceptor /\ (TakeSlot \/ SetUse \/ ResetFlag))
  PROVE  Served'
<1>1. /\ TypeOK /\ th[t].slot \in Slots /\ UNCHANGED <<emptySession, net>>
      /\ th[t].pc \in {"DrainPack", "TakeSlot", "SetUse", "ResetFlag"}
  BY Parts, Typed DEF DrainPack, TakeSlot, SetUse, ResetFlag, Step, At, pool
<1>2. SessionAlike(th[t].slot)
  <2>1. \/ UNCHANGED Session
        \/ \E x : Session' = [Session EXCEPT ![th[t].slot].IOCount = x]
        \/ \E x : Session' = [Session EXCEPT ![th[t].slot].SendFlag = x]
        \/ \E x : Session' = [Session EXCEPT ![th[t].slot].SendPack = x]
        \/ \E x : Session' = [Session EXCEPT ![th[t].slot].UseFlag = x]
    BY DEF DrainPack, TakeSlot, SetUse, ResetFlag, Take
  <2> QED
    BY <1>1, <2>1, SessionKeeps
<1>3. PICK k \in {"DrainPack", "PushSlot", "SetSock", "ResetFlag", "Join"},
           h \in {th[t].held, th[t].held \cup {"event"}} :
        Turns(t, k, h) /\ Keeps(th[t].pc, k)
  <2>1. CASE DrainPack(t)
    <3>1. (UNCHANGED th \/ Goto(t, "PushSlot")) /\ th[t].pc = "DrainPack"
      BY <2>1 DEF DrainPack, Step, At
    <3>2. Turns(t, "DrainPack", th[t].held) \/ Turns(t, "PushSlot", th[t].held)
      BY <1>1, <3>1, ThreadTurns
    <3>3. \A k \in {"DrainPack", "PushSlot"} : Keeps(th[t].pc, k)
      BY <3>1 DEF Keeps, Fill, Ided, Emptying, Emptied, Handling, Batching
    <3> QED
      BY <3>2, <3>3
  <2>2. CASE t = Acceptor /\ TakeSlot
    <3>1. Turns(t, "SetSock", th[t].held \cup {"event"}) /\ th[t].pc = "TakeSlot"
      BY <1>1, <2>2, ThreadTurns DEF TakeSlot, Take, At
    <3> QED
      BY <3>1 DEF Keeps, Fill, Ided, Emptying, Emptied, Handling, Batching
  <2>3. CASE t = Acceptor /\ SetUse
    <3>1. Turns(t, "ResetFlag", th[t].held) /\ th[t].pc = "SetUse"
      BY <1>1, <2>3, ThreadTurns DEF SetUse, Step, At
    <3> QED
      BY <3>1 DEF Keeps, Fill, Ided, Emptying, Emptied, Handling, Batching
  <2>4. CASE t = Acceptor /\ ResetFlag
    <3>1. Turns(t, "Join", th[t].held) /\ th[t].pc = "ResetFlag"
      BY <1>1, <2>4, ThreadTurns DEF ResetFlag, Step, At
    <3> QED
      BY <3>1 DEF Keeps, Fill, Ided, Emptying, Emptied, Handling, Batching
  <2> QED
    BY <2>1, <2>2, <2>3, <2>4
<1>4. NetAlike
  BY <1>1, NetKeeps, ConstantTypes
<1>5. k \notin ReadingAt \cup {"WSASend", "Disconnect", "Enqueue"}
  BY DEF ReadingAt
<1>6. "call" \in h => "call" \in th[t].held
  OBVIOUS
<1> QED
  BY <1>1, <1>2, <1>3, <1>4, <1>5, <1>6, TurnStep

-----------------------------------------------------------------------------
(* Stop and the clients *)

LEMMA ThreadsKept ==
  ASSUME Served, UNCHANGED <<Session, th, emptySession>>, CallbacksSame,
         Wires', Answers'
  PROVE  Served'
<1>1. ToSet(emptySession)' = ToSet(emptySession)
  BY DEF ToSet
<1>2. \A x : (Busy(x)' <=> Busy(x))
  BY <1>1 DEF Busy, Occupies
<1>3. Stages'
  <2>1. ASSUME NEW c \in Conns
        PROVE  /\ net'[c].joins \in {0, 1} /\ net'[c].leaves \in 0 .. net'[c].joins
               /\ net'[c].joins = 1 /\ net'[c].leaves = 0
                    <=> Session'[net'[c].index].SessionID = c /\ Busy(net[c].index)'
    <3>1. PICK x : x = net[c].index
      OBVIOUS
    <3>2. net'[c].index = x /\ net'[c].joins = net[c].joins /\ net'[c].leaves = net[c].leaves
      BY <3>1 DEF CallbacksSame
    <3>3. /\ net[c].joins \in {0, 1} /\ net[c].leaves \in 0 .. net[c].joins
          /\ net[c].joins = 1 /\ net[c].leaves = 0 <=> Session[x].SessionID = c /\ Busy(x)
      BY <3>1 DEF Served, Stages
    <3>4. Busy(net[c].index)' <=> Busy(x)'
      BY <3>2
    <3> QED
      BY <1>2, <3>2, <3>3, <3>4
  <2>2. th'[Acceptor].pc \in Fill =>
          th'[Acceptor].arg \in Conns /\ net'[th'[Acceptor].arg].joins = 0
    BY DEF Served, Stages, CallbacksSame
  <2>3. th'[Acceptor].pc \in Ided =>
          Session'[th'[Acceptor].slot].SessionID = th'[Acceptor].arg
    BY DEF Served, Stages
  <2> QED
    BY <2>1, <2>2, <2>3 DEF Stages
<1>4. Sockets'
  BY DEF Served, Sockets
<1>5. OneReader'
  BY DEF Served, OneReader, Reading
<1>6. OwnCalls'
  BY DEF Served, OwnCalls, OwnCall
<1>7. Buffers'
  BY <1>1 DEF Served, Buffers, Buffer
<1> QED
  BY <1>3, <1>4, <1>5, <1>6, <1>7 DEF Served

LEMMA ServedOutside ==
  ASSUME AccountsInv, Served, Stop \/ UNCHANGED vars \/ \E c \in Conns : PeerClose(c)
  PROVE  Served'
<1>1. UNCHANGED <<Session, th, emptySession>> /\ TypeOK /\ Acceptor \in Threads
  BY Parts, ConstantTypes
     DEF Stop, StopListen, StopShut, StopQuit, StopWait, PeerClose, vars, pool
<1>2. NetAlike
  <2>1. CASE UNCHANGED net
    BY <1>1, <2>1, NetKeeps, ConstantTypes
  <2>2. CASE StopShut
    <3>1. UNCHANGED net \/ ShutDown(Session[sweep].sock)
      BY <2>2 DEF StopShut
    <3>2. sweep \in Slots => Session[sweep].sock \in Ids
      BY <1>1, SessionFields DEF TypeOK
    <3> QED
      BY <1>1, <2>1, <2>2, <3>1, <3>2, NetKeeps DEF StopShut
  <2>3. CASE \E c \in Conns : PeerClose(c)
    BY <1>1, <2>3, NetKeeps, ConstantTypes DEF PeerClose
  <2> QED
    BY <2>1, <2>2, <2>3 DEF Stop, StopListen, StopQuit, StopWait, vars
<1>3. Wires'
  BY <1>2 DEF Served, Wires, NetAlike, ConnSame, CallbacksSame
<1>4. Answers'
  <2> SUFFICES ASSUME NEW x \in Slots, Open(x)' PROVE Ordered(x)'
    BY DEF Answers
  <2>1. InUse(x) /\ Busy(x)
    BY <1>1 DEF Open, InUse, Busy, Occupies, ToSet
  <2>2. PICK c \in Conns : c = Session[x].SessionID
    BY <2>1, SessionConn
  <2>3. Open(x) /\ ConnSame(c)
    BY <1>1, <1>2, <2>1, <2>2 DEF Open, NetAlike
  <2>4. Ordered(x)
    BY <2>3 DEF Served, Answers
  <2> QED
    BY <1>1, <2>2, <2>3, <2>4, OrderedKept DEF QueuesSame, Alone, Handler, Batcher
<1> QED
  BY <1>1, <1>2, <1>3, <1>4, ThreadsKept DEF NetAlike

-----------------------------------------------------------------------------
(* Streams of requests *)

LEMMA UnitNumbers ==
  ASSUME NEW q \in Seq(Units), NEW i \in 1 .. Len(q)
  PROVE  q[i] \in Units /\ q[i].n \in Nat
<1>1. q[i] \in Units
  BY ElementOfSeq
<1>2. q[i].n \in 1 .. MaxMsgs
  BY <1>1 DEF Units
<1> QED
  BY <1>1, <1>2

\* What a client sends next goes on where the last request ended.
LEMMA StreamGrows ==
  ASSUME NEW q \in Seq(Units), NEW n \in Nat, NEW k \in Nat, Stream(q, n, k), NEW r \in Seq(Units),
         \/ r = <<[kind |-> "head", n |-> k + 1], [kind |-> "body", n |-> k + 1]>>
         \/ r = <<[kind |-> "bad", n |-> k + 1]>>
  PROVE  Stream(q \o r, n, k + 1)
<1> DEFINE p == q \o r
           a == Len(q)
<1>1. /\ a \in Nat /\ Len(p) = a + Len(r) /\ p \in Seq(Units)
      /\ \A i \in 1 .. a : p[i] = q[i]
      /\ \A i \in 1 .. Len(r) : p[a + i] = r[i]
  OBVIOUS
<1>2. \A i \in 1 .. a : q[i].n \in Nat
  BY UnitNumbers
<1>3. /\ Len(r) \in {1, 2} /\ r[1].kind # "body"
      /\ r[1].kind = "head" => Len(r) = 2 /\ r[2].kind = "body"
      /\ r[1].kind # "head" => Len(r) = 1
      /\ \A i \in 1 .. Len(r) : r[i].n = k + 1
  OBVIOUS
<1>4. /\ a = 0 => n = k + 1
      /\ a # 0 => q[1].kind # "body" /\ q[1].n = n
      /\ \A i \in 1 .. a :
           /\ q[i].n <= k
           /\ q[i].kind = "head" => i < a /\ q[i + 1].kind = "body" /\ q[i + 1].n = q[i].n
           /\ q[i].kind # "head" =>
                IF i < a THEN q[i + 1].kind # "body" /\ q[i + 1].n = q[i].n + 1
                         ELSE q[i].n = k
  BY DEF Stream
<1> HIDE DEF p, a
<1>5. p # <<>> /\ p[1].kind # "body" /\ p[1].n = n
  <2>1. CASE a = 0
    BY <1>1, <1>3, <1>4, <2>1
  <2>2. CASE a # 0
    BY <1>1, <1>3, <1>4, <2>2
  <2> QED
    BY <2>1, <2>2
<1>6. ASSUME NEW i \in 1 .. Len(p)
      PROVE  /\ p[i].n <= k + 1
             /\ p[i].kind = "head" => i < Len(p) /\ p[i + 1].kind = "body" /\ p[i + 1].n = p[i].n
             /\ p[i].kind # "head" =>
                  IF i < Len(p) THEN p[i + 1].kind # "body" /\ p[i + 1].n = p[i].n + 1
                                ELSE p[i].n = k + 1
  <2>0. i \in 1 .. a + Len(r)
    BY <1>1
  <2>1. CASE i < a
    <3>1. /\ i \in 1 .. a /\ i + 1 \in 1 .. a /\ i < Len(p)
          /\ p[i] = q[i] /\ p[i + 1] = q[i + 1] /\ q[i].n \in Nat
      <4>1. Len(r) > 0 /\ Len(r) \in Nat
        BY ONLY <1>3
      <4>2. i \in 1 .. a /\ i + 1 \in 1 .. a /\ i < Len(p)
        BY ONLY <1>1, <2>0, <2>1, <4>1
      <4> QED
        BY ONLY <1>1, <1>2, <4>2
    <3>2. /\ q[i].n <= k
          /\ q[i].kind = "head" => q[i + 1].kind = "body" /\ q[i + 1].n = q[i].n
          /\ q[i].kind # "head" => q[i + 1].kind # "body" /\ q[i + 1].n = q[i].n + 1
      BY <1>4, <2>1, <3>1
    <3> QED
      BY <3>1, <3>2
  <2>2. CASE i = a
    <3>1. p[i] = q[a] /\ p[i + 1] = r[1] /\ i < Len(p) /\ q[a].n \in Nat
      BY <1>1, <1>2, <1>3, <2>2
    <3>2. q[a].kind # "head" /\ q[a].n = k
      BY <1>1, <1>4, <2>2
    <3> QED
      BY <1>3, <3>1, <3>2
  <2>3. CASE i = a + 1
    <3>1. p[i] = r[1] /\ Len(p) = a + Len(r)
      BY <1>1, <1>3, <2>3
    <3>2. Len(r) = 2 => p[i + 1] = r[2] /\ i < Len(p)
      BY <1>1, <1>3, <2>3
    <3>3. Len(r) = 1 => ~(i < Len(p))
      BY <1>1, <1>3, <2>3
    <3> QED
      BY <1>3, <3>1, <3>2, <3>3
  <2>4. CASE i = a + 2 /\ Len(r) = 2
    <3>1. p[i] = r[2] /\ ~(i < Len(p)) /\ r[1].kind = "head"
      BY <1>1, <1>3, <2>4
    <3> QED
      BY <1>3, <3>1
  <2>5. i < a \/ i = a \/ i = a + 1 \/ (i = a + 2 /\ Len(r) = 2)
    <3>1. PICK e \in {1, 2} : e = Len(r)
      BY <1>3
    <3>2. a \in Nat /\ i \in 1 .. a + e
      BY <1>1, <2>0, <3>1
    <3>3. i < a \/ i = a \/ i = a + 1 \/ (i = a + 2 /\ e = 2)
      BY ONLY <3>2, e \in {1, 2}
    <3> QED
      BY <3>1, <3>3
  <2> QED
    BY <2>1, <2>2, <2>3, <2>4, <2>5
<1> QED
  <2>1. Stream(p, n, k + 1)
    BY <1>5, <1>6 DEF Stream
  <2> QED
    BY <2>1 DEF p

\* Taking the first request out leaves the stream of those after it.
LEMMA StreamTaken ==
  ASSUME NEW q \in Seq(Units), NEW n \in Nat, NEW k \in Nat, Stream(q, n, k),
         Len(q) >= 2, q[1].kind = "head"
  PROVE  q[2].n = n /\ n <= k /\ Stream(SubSeq(q, 3, Len(q)), n + 1, k)
<1> DEFINE p == SubSeq(q, 3, Len(q))
           a == Len(q)
<1>1. a \in Nat /\ a >= 2 /\ \A i \in 1 .. a : q[i].n \in Nat
  BY UnitNumbers
<1>2. /\ p \in Seq(Units) /\ Len(p) = a - 2
      /\ \A i \in 1 .. a - 2 : p[i] = q[i + 2]
  <2>1. 3 \in Int /\ a \in Int /\ \A i \in 3 .. a : q[i] \in Units
    BY <1>1, UnitNumbers
  <2>2. /\ p \in Seq(Units) /\ Len(p) = (IF 3 <= a THEN a - 3 + 1 ELSE 0)
        /\ \A i \in 1 .. a - 3 + 1 : p[i] = q[3 + i - 1]
    BY <2>1, SubSeqProperties
  <2> HIDE DEF p, a
  <2> QED
    BY <1>1, <2>2
<1>3. /\ q[1].n = n
      /\ \A i \in 1 .. a :
           /\ q[i].n <= k
           /\ q[i].kind = "head" => i < a /\ q[i + 1].kind = "body" /\ q[i + 1].n = q[i].n
           /\ q[i].kind # "head" =>
                IF i < a THEN q[i + 1].kind # "body" /\ q[i + 1].n = q[i].n + 1
                         ELSE q[i].n = k
  BY <1>1 DEF Stream
<1> HIDE DEF p, a
<1>4. q[2].kind = "body" /\ q[2].n = n /\ n <= k
  BY <1>1, <1>3
<1>5. IF a = 2 THEN n = k ELSE q[3].kind # "body" /\ q[3].n = n + 1
  <2>1. q[2].kind # "head"
    BY <1>4
  <2>2. 2 \in 1 .. a /\ (2 < a <=> a # 2)
    BY <1>1
  <2> QED
    BY <1>3, <1>4, <2>1, <2>2
<1>6. IF p = <<>> THEN n + 1 = k + 1 ELSE p[1].kind # "body" /\ p[1].n = n + 1
  BY <1>1, <1>2, <1>5
<1>7. ASSUME NEW i \in 1 .. Len(p)
      PROVE  /\ p[i].n <= k
             /\ p[i].kind = "head" => i < Len(p) /\ p[i + 1].kind = "body" /\ p[i + 1].n = p[i].n
             /\ p[i].kind # "head" =>
                  IF i < Len(p) THEN p[i + 1].kind # "body" /\ p[i + 1].n = p[i].n + 1
                                ELSE p[i].n = k
  <2>1. i \in 1 .. a - 2 /\ i + 2 \in 1 .. a /\ p[i] = q[i + 2] /\ Len(p) = a - 2
    BY <1>1, <1>2
  <2>2. i < Len(p) <=> i + 2 < a
    BY <1>1, <2>1
  <2>3. i < Len(p) => p[i + 1] = q[i + 2 + 1]
    BY <1>1, <1>2, <2>1
  <2> QED
    BY <1>3, <2>1, <2>2, <2>3
<1>8. Stream(p, n + 1, k)
  BY <1>6, <1>7 DEF Stream
<1> QED
  BY <1>4, <1>8 DEF p, a

LEMMA ServedPeerSend ==
  ASSUME AccountsInv, Served, NEW c \in Conns, PeerSend(c)
  PROVE  Served'
<1> DEFINE k == net[c].asked
<1>1. PICK r : /\ \/ r = <<[kind |-> "head", n |-> k + 1], [kind |-> "body", n |-> k + 1]>>
                  \/ r = <<[kind |-> "bad", n |-> k + 1]>>
               /\ net' = [net EXCEPT ![c].asked = k + 1, ![c].inbound = @ \o r]
  BY DEF PeerSend
<1>2. /\ TypeOK /\ Wires /\ Answers /\ k + 1 <= MaxMsgs /\ Acceptor \in Threads
      /\ UNCHANGED <<Session, th, emptySession>> /\ c \in Ids /\ Conns \subseteq Ids
  BY Parts, ConstantTypes DEF Served, PeerSend, pool
<1>3. net[c] \in ConnType /\ k \in Nat /\ net[c].inbound \in Seq(Units) /\ net[c].wire \in Seq(Nat)
  BY <1>2, ConnFields DEF TypeOK
<1>4. r \in Seq(Units)
  <2>1. k + 1 \in 1 .. MaxMsgs
    BY <1>2, <1>3, SizesAssumption
  <2>2. /\ [kind |-> "head", n |-> k + 1] \in Units /\ [kind |-> "body", n |-> k + 1] \in Units
        /\ [kind |-> "bad", n |-> k + 1] \in Units
    BY <2>1 DEF Units
  <2>3. \A x, y \in Units : <<x, y>> \in Seq(Units) /\ <<x>> \in Seq(Units)
    OBVIOUS
  <2> HIDE DEF k
  <2> QED
    BY ONLY <1>1, <2>2, <2>3
<1>5. /\ \A d \in Conns \ {c} : net'[d] = net[d]
      /\ net'[c].asked = k + 1 /\ net'[c].inbound = net[c].inbound \o r
      /\ net'[c].wire = net[c].wire /\ net'[c].sock = net[c].sock
      /\ net'[c].index = net[c].index
      /\ net'[c].joins = net[c].joins /\ net'[c].leaves = net[c].leaves
  BY <1>1, <1>2 DEF TypeOK, ConnType
<1>6. CallbacksSame
  BY <1>5 DEF CallbacksSame
<1>7. Wires'
  <2> SUFFICES ASSUME NEW d \in Conns
               PROVE  /\ Echoes => /\ net'[d].wire = [i \in 1 .. Len(net'[d].wire) |-> i - 1]
                                   /\ Len(net'[d].wire) <= net'[d].asked + 1
                      /\ net'[d].asked <= MaxMsgs
                      /\ net'[d].joins = 0 =>
                           net'[d].wire = <<>> /\ Stream(net'[d].inbound, 1, net'[d].asked)
    BY DEF Wires
  <2>1. CASE d # c
    BY <1>2, <1>5, <2>1 DEF Wires
  <2>2. CASE d = c
    <3>1. /\ Echoes => /\ net[c].wire = [i \in 1 .. Len(net[c].wire) |-> i - 1]
                       /\ Len(net[c].wire) <= k + 1
          /\ Len(net[c].wire) \in Nat
          /\ net[c].joins = 0 => net[c].wire = <<>> /\ Stream(net[c].inbound, 1, k)
      <4>1. Len(net[c].wire) \in Nat
        BY <1>3
      <4> QED
        BY <1>2, <4>1, Zenon DEF Wires
    <3>2. net[c].joins = 0 => Stream(net[c].inbound \o r, 1, k + 1)
      BY <1>1, <1>3, <1>4, <3>1, StreamGrows
    <3>3. Echoes => Len(net[c].wire) <= k + 1 + 1
      <4> HIDE DEF k
      <4> QED
        BY <1>3, <3>1
    <3> HIDE DEF k
    <3> QED
      BY <1>2, <1>5, <2>2, <3>1, <3>2, <3>3
  <2> QED
    BY <2>1, <2>2
<1>8. Answers'
  <2> SUFFICES ASSUME NEW x \in Slots, Open(x)' PROVE Ordered(x)'
    BY DEF Answers
  <2>1. InUse(x) /\ Busy(x)
    BY <1>2 DEF Open, InUse, Busy, Occupies, ToSet
  <2>2. PICK d \in Conns : d = Session[x].SessionID
    BY <2>1, SessionConn
  <2>3. net[d].sock = "open"
    BY <1>2, <1>5, <2>2 DEF Open
  <2>4. Ordered(x)
    BY <1>2, <2>1, <2>2, <2>3 DEF Answers, Open
  <2>5. Alone(Acceptor) /\ QueuesSame(x) /\ Session'[x].SessionID = Session[x].SessionID
    BY <1>2 DEF Alone, QueuesSame
  <2>6. CASE d # c
    BY <1>2, <1>5, <2>2, <2>4, <2>5, <2>6, OrderedKept DEF ConnSame, Handler, Batcher
  <2>7. CASE d = c
    <3> DEFINE q == Session[x].RecvQ \o net[c].inbound
    <3>1. PICK m \in Nat : m <= k + 1 /\ Outgoing(x, m) /\ Incoming(x, m)
      BY <2>2, <2>4, <2>7 DEF Ordered
    <3>2. Outgoing(x, m)'
      BY <1>2, <1>5, <2>2, <2>5, <2>7, <3>1, OutgoingKept DEF Batcher
    <3>3. Session[x].RecvQ \in Seq(Units) /\ q \in Seq(Units)
      BY <1>2, <1>3, SessionFields DEF TypeOK
    <3>4. Session'[x].RecvQ \o net'[c].inbound = q \o r
      <4>1. \A a, b, e \in Seq(Units) : (a \o b) \o e = a \o (b \o e)
        BY ConcatAssociative
      <4>2. Session'[x].RecvQ = Session[x].RecvQ /\ net'[c].inbound = net[c].inbound \o r
        BY <1>2, <1>5
      <4>3. PICK a \in Seq(Units), b \in Seq(Units) :
              a = Session[x].RecvQ /\ b = net[c].inbound
        BY <1>2, <1>3, <3>3, SessionFields DEF TypeOK
      <4>4. (a \o b) \o r = a \o (b \o r)
        BY <1>3, <1>4, <4>1
      <4> QED
        BY ONLY <4>2, <4>3, <4>4
    <3>5. ASSUME NEW n \in Nat, Stream(q, n, k) PROVE Stream(q \o r, n, k + 1)
      <4> HIDE DEF q, k
      <4> QED
        BY <1>1, <1>3, <1>4, <3>3, <3>5, StreamGrows DEF k
    <3>6. Incoming(x, m)'
      <4>1. ASSUME NEW u \in Threads, Handler(u, x)', th'[u].msg # NoPack
            PROVE  /\ th'[u].msg = <<c, m>> /\ m <= k + 1 /\ Stream(q \o r, m + 1, k + 1)
        <5>1. th[u].msg = <<c, m>> /\ m <= k /\ Stream(q, m + 1, k)
          BY <1>2, <2>2, <2>7, <3>1, <4>1 DEF Incoming, Handler
        <5>2. m + 1 \in Nat /\ m <= k + 1
          <6> HIDE DEF k
          <6> QED
            BY <1>3, <5>1
        <5> HIDE DEF q, k
        <5> QED
          BY <1>2, <3>5, <5>1, <5>2
      <4>2. (\A u \in Threads : ~Handler(u, x)') => Stream(q \o r, m, k + 1)
        <5>1. (\A u \in Threads : ~Handler(u, x)') => Stream(q, m, k)
          BY <1>2, <2>2, <2>7, <3>1 DEF Incoming, Handler
        <5> HIDE DEF q, k
        <5> QED
          BY <3>5, <5>1
      <4> HIDE DEF q, k
      <4> QED
        BY <1>2, <1>5, <2>2, <2>5, <2>7, <3>4, <4>1, <4>2 DEF Incoming
    <3>7. m <= net'[c].asked + 1
      <4> HIDE DEF k
      <4> QED
        BY <1>3, <1>5, <3>1
    <3> QED
      BY <1>2, <2>2, <2>7, <3>2, <3>6, <3>7 DEF Ordered
  <2> QED
    BY <2>6, <2>7
<1> QED
  BY <1>2, <1>6, <1>7, <1>8, ThreadsKept

-----------------------------------------------------------------------------
(* Steps of a thread that a session keeps busy *)

\* Only connection c is used, and no callback made for it.
Touches(c) ==
  /\ \A d \in Conns \ {c} : net'[d] = net[d]
  /\ net'[c].index = net[c].index /\ net'[c].joins = net[c].joins
  /\ net'[c].leaves = net[c].leaves /\ net'[c].asked = net[c].asked
  /\ net'[c].sock = "open" => net[c].sock = "open"
  /\ Echoes => /\ net'[c].wire = [i \in 1 .. Len(net'[c].wire) |-> i - 1]
               /\ Len(net'[c].wire) <= net[c].asked + 1

\* A session with operations outstanding is busy.
LEMMA QuietNot ==
  ASSUME AccountsInv, NEW s \in Slots, ~Quiet(s)
  PROVE  InUse(s) /\ Busy(s)
<1>1. InUse(s)
  BY Parts DEF Naming, Quiet
<1>2. s \notin ToSet(emptySession) /\ \A u \in Threads : th[u].slot = s => th[u].pc \notin Owning
  BY Parts DEF Parted, FreeSlots, OwnedSlots, Lone
<1> QED
  BY <1>1, <1>2 DEF Busy, Occupies, Fill, Ided, Emptying, Owning, Releasing

LEMMA ServingStep ==
  ASSUME AccountsInv, Callers = {}, Served, NEW t \in Threads, NEW s \in Slots,
         \/ th[t].pc \in Serving /\ th[t].slot = s
         \/ th[t].pc = "idle" /\ ~Quiet(s),
         Alone(t), th'[t].slot = s, NEW k \in Serving, th'[t].pc = k, OnlyAt(s),
         IdsSame, SocksSame, UNCHANGED emptySession,
         NEW c, c = Session[s].SessionID, Touches(c),
         Reading(t)' => Session'[s].RecvOver = <<>> /\ NoneReads(t, s),
         Session'[s].RecvOver = Session[s].RecvOver \/ NoneReads(t, s),
         Len(Session'[s].RecvOver) <= 1,
         \A i \in DOMAIN Session'[s].RecvOver : Session'[s].RecvOver[i] = c,
         OwnCall(t)',
         th'[t].batch # <<>> => k \in Batching, k = "WSASend" => th'[t].batch # <<>>,
         Echoes /\ net'[c].sock = "open" /\ Ordered(s) => Ordered(s)'
  PROVE  Served'
<1>1. TypeOK /\ Stages /\ Wires /\ Answers
  BY Parts DEF Served
<1>2. InUse(s) /\ Busy(s) /\ (Works(t, s) \/ ~Quiet(s))
  BY ServingThreads, QuietNot
<1>3. c \in Conns /\ net[c].joins = 1
  BY <1>1, <1>2, SessionConn, Present
<1>4. k \notin Fill \cup Emptying /\ th[t].pc \notin Fill \cup Emptying
  BY DEF Serving, Owning, Releasing, Fill, Ided, Emptying
<1>5. ~Occupies(t, s) /\ ~Occupies(t, s)'
  BY <1>1, <1>4 DEF Occupies
<1>6. t = Acceptor => /\ th'[t].pc \in Fill => th[t].pc \in Fill /\ th'[t].arg = th[t].arg
                      /\ th'[t].pc \in Ided => th[t].pc \in Ided
                      /\ th[t].pc # "SetID" /\ th'[t].pc # "SetID"
  BY <1>1, <1>4 DEF Fill, Ided
<1>7. Buffer(t)'
  BY <1>1, <1>4 DEF Buffer, Emptied, Emptying
<1>8. CallbacksSame /\ ElsewhereSame(s)
  BY DEF Touches, CallbacksSame, ElsewhereSame, ConnSame
<1>9. Wires'
  <2> SUFFICES ASSUME NEW d \in Conns
               PROVE  /\ Echoes => /\ net'[d].wire = [i \in 1 .. Len(net'[d].wire) |-> i - 1]
                                   /\ Len(net'[d].wire) <= net'[d].asked + 1
                      /\ net'[d].asked <= MaxMsgs
                      /\ net'[d].joins = 0 =>
                           net'[d].wire = <<>> /\ Stream(net'[d].inbound, 1, net'[d].asked)
    BY DEF Wires
  <2>1. CASE d # c
    <3>1. net'[d] = net[d]
      BY <2>1 DEF Touches
    <3>2. /\ Echoes => /\ net[d].wire = [i \in 1 .. Len(net[d].wire) |-> i - 1]
                       /\ Len(net[d].wire) <= net[d].asked + 1
          /\ net[d].asked <= MaxMsgs
          /\ net[d].joins = 0 =>
               net[d].wire = <<>> /\ Stream(net[d].inbound, 1, net[d].asked)
      BY <1>1 DEF Wires
    <3> QED
      BY ONLY <3>1, <3>2
  <2>2. CASE d = c
    <3>1. /\ Echoes => /\ net'[c].wire = [i \in 1 .. Len(net'[c].wire) |-> i - 1]
                       /\ Len(net'[c].wire) <= net[c].asked + 1
          /\ net'[c].joins = 1
          /\ net'[c].asked = net[c].asked
      BY <1>3 DEF Touches
    <3>2. net[c].asked <= MaxMsgs
      BY <1>1, <1>3 DEF Wires
    <3> QED
      BY ONLY <3>1, <3>2, <2>2
  <2> QED
    BY <2>1, <2>2
<1>10. Open(s)' => Ordered(s)'
  <2>1. Open(s)' => Echoes /\ net'[c].sock = "open" /\ Open(s)
    BY <1>2 DEF Open, IdsSame, Touches
  <2> QED
    BY <1>1, <2>1 DEF Answers
<1>11. ToSet(emptySession)' = ToSet(emptySession)
  BY DEF ToSet
<1> QED
  BY <1>1, <1>2, <1>5, <1>6, <1>7, <1>8, <1>9, <1>10, <1>11, WorkStep

\* A thread that reads a session is the only one.
LEMMA ReadsAlone ==
  ASSUME AccountsInv, Served, NEW t \in Threads, NEW s \in Slots
  PROVE  /\ Reading(t) /\ th[t].slot = s => NoneReads(t, s) /\ Session[s].RecvOver = <<>>
         /\ Session[s].RecvOver # <<>> => NoneReads(t, s)
         /\ Len(Session[s].RecvOver) <= 1
         /\ \A i \in DOMAIN Session[s].RecvOver :
              Session[s].RecvOver[i] = Session[s].SessionID
BY DEF Served, OneReader, NoneReads, Sockets

\* What these steps do to the connection of their session.
LEMMA TouchesConn ==
  ASSUME AccountsInv, Served, NEW s \in Slots, InUse(s), Busy(s)
  PROVE  LET c == Session[s].SessionID IN
         /\ c \in Conns /\ Session[s].sock = c
         /\ UNCHANGED net => Touches(c)
         /\ ShutDown(c) => Touches(c) /\ net'[c].sock # "open"
<1> DEFINE c == Session[s].SessionID
<1>1. TypeOK /\ c \in Conns /\ net[c].index = s /\ Wires /\ Sockets /\ Stages
  BY Parts, SessionConn DEF Served
<1>2. Session[s].sock = c
  BY <1>1, ConstantTypes DEF Sockets, Busy, Occupies, Fill, Ided
<1>3. Echoes => /\ net[c].wire = [i \in 1 .. Len(net[c].wire) |-> i - 1]
                /\ Len(net[c].wire) <= net[c].asked + 1
  BY <1>1 DEF Wires
<1>4. UNCHANGED net => Touches(c)
  BY <1>3 DEF Touches
<1>5. ShutDown(c) => Touches(c) /\ net'[c].sock # "open"
  <2> SUFFICES ASSUME ShutDown(c) PROVE Touches(c) /\ net'[c].sock # "open"
    OBVIOUS
  <2>1. NetAlike /\ net'[c].sock # "open"
    BY <1>1, NetKeeps, ConstantTypes
  <2>2. \A d \in Conns \ {c} : net'[d] = net[d]
    BY ConstantTypes, <1>1 DEF ShutDown, TypeOK
  <2> QED
    BY <1>1, <1>3, <2>1, <2>2 DEF Touches, NetAlike, ConnSame, CallbacksSame
<1> QED
  BY <1>1, <1>2, <1>4, <1>5

LEMMA AtSession ==
  ASSUME AccountsInv, Callers = {}, Served, NEW t \in Threads, th[t].pc \in Serving
  PROVE  LET s == th[t].slot
             c == Session[s].SessionID IN
         /\ TypeOK /\ s \in Slots /\ InUse(s) /\ Busy(s)
         /\ c \in Conns /\ c # NoConn /\ Session[s].sock = c
         /\ UNCHANGED net => Touches(c)
         /\ ShutDown(c) => Touches(c) /\ net'[c].sock # "open"
<1>1. TypeOK /\ th[t].slot \in Slots
  BY Parts, Typed
<1>2. InUse(th[t].slot) /\ Busy(th[t].slot)
  BY ServingThreads
<1> QED
  BY <1>1, <1>2, TouchesConn DEF InUse

LEMMA ServedDisconnect ==
  ASSUME AccountsInv, Callers = {}, Served, NEW t \in Threads, Disconnect(t)
  PROVE  Served'
<1>1. th[t].pc = "Disconnect" /\ th[t].pc \in Serving /\ "EndCall" \in Serving
  BY DEF Disconnect, Step, At, Serving, Labels, Owning, Releasing
<1>2. PICK s \in Slots : s = th[t].slot
  BY <1>1, AtSession
<1>3. PICK c : c = Session[s].SessionID
  OBVIOUS
<1>4. Touches(c) /\ net'[c].sock # "open" /\ TypeOK
  BY <1>1, <1>2, <1>3, AtSession DEF Disconnect
<1>5. Turns(t, "EndCall", th[t].held)
  BY <1>4, ThreadTurns DEF Disconnect, Step
<1>6. SessionAlike(s) /\ UNCHANGED emptySession
  BY <1>4, SessionKeeps DEF Disconnect, pool
<1>7. th[t].batch = <<>>
  BY <1>1 DEF Served, Buffers, Buffer, Batching
<1>8. Reading(t) /\ NoneReads(t, s) /\ Session[s].RecvOver = <<>>
  BY <1>1, <1>2, ReadsAlone, AtWork DEF Handling
<1>9. OwnCall(t)'
  BY <1>5 DEF Turns, Stays, OwnCall, Handling
<1> QED
  BY <1>1, <1>2, <1>3, <1>4, <1>5, <1>6, <1>7, <1>8, <1>9, ReadsAlone, ServingStep
     DEF Turns, Stays, SessionAlike

LEMMA ServedSetFlag ==
  ASSUME AccountsInv, Callers = {}, Served, NEW t \in Threads, SetFlag(t)
  PROVE  Served'
<1>1. /\ th[t].pc = "SetFlag" /\ th[t].pc \in Serving /\ "Dequeue" \in Serving
      /\ UNCHANGED <<net, emptySession>>
  BY DEF SetFlag, Step, At, Serving, Labels, Owning, Releasing, pool
<1>2. PICK s \in Slots : s = th[t].slot
  BY <1>1, AtSession
<1>3. PICK c : c = Session[s].SessionID
  OBVIOUS
<1>4. Touches(c) /\ TypeOK /\ NetAlike
  BY <1>1, <1>2, <1>3, AtSession, NetKeeps, ConstantTypes
<1>5. SessionAlike(s)
  BY <1>2, <1>4, SessionKeeps DEF SetFlag
<1>6. CASE Session[s].SendFlag
  <2>1. Turns(t, "EndPost", th[t].held)
    BY <1>2, <1>4, <1>6, ThreadTurns DEF SetFlag, Step
  <2> QED
    BY <1>1, <1>2, <1>4, <1>5, <2>1, OrdinaryTurn DEF Ordinary, ReadingAt
<1>7. CASE ~Session[s].SendFlag
  <2>1. Turns(t, "Dequeue", th[t].held)
    BY <1>2, <1>4, <1>7, ThreadTurns DEF SetFlag, Step
  <2>2. th[t].batch = <<>>
    BY <1>1 DEF Served, Buffers, Buffer, Batching
  <2>3. Reading(t)' => Reading(t)
    BY <2>1 DEF Reading, Turns, Stays
  <2>4. OwnCall(t)'
    BY <2>1 DEF Turns, Stays, OwnCall, Handling
  <2>5. ASSUME Ordered(s) PROVE Ordered(s)'
    <3>1. \A u \in Threads : ~Batcher(u, s)
      BY <1>4, <1>7, OnlySender, Parts DEF Batcher, Batching, Sender
    <3>2. /\ Session'[s].SendQ = Session[s].SendQ /\ Session'[s].SessionID = c
          /\ Session'[s].RecvQ = Session[s].RecvQ
      BY <1>3, <1>5 DEF SessionAlike, QueuesSame, IdsSame
    <3>3. Alone(t) /\ th'[t].batch = <<>> /\ th'[t].msg = th[t].msg
      BY <2>1, <2>2 DEF Turns, Stays
    <3>4. ~Handler(t, s) /\ ~Handler(t, s)'
      BY <1>1, <2>1 DEF Handler, Handling, Turns, Stays
    <3>5. PICK m \in Nat : m <= net[c].asked + 1 /\ Outgoing(s, m) /\ Incoming(s, m)
      BY <1>3, <2>5 DEF Ordered
    <3>6. Incoming(s, m)'
      BY <1>1, <1>3, <3>2, <3>3, <3>4, <3>5, IncomingKept
    <3>7. Outgoing(s, m)'
      <4> DEFINE q == Session[s].SendQ
      <4>1. Len(net[c].wire) = m - Len(q) /\ \A i \in 1 .. Len(q) : q[i] = <<c, m - Len(q) + i - 1>>
        BY <1>3, <3>1, <3>5 DEF Outgoing
      <4>2. \A u \in Threads : Batcher(u, s)' => th'[u].batch = <<>>
        BY <3>1, <3>3 DEF Alone, Batcher
      <4>3. Len(q) \in Nat /\ q \in Seq(Packets)
        BY <1>4, SessionFields DEF TypeOK
      <4>4. m - Len(q) - 0 = m - Len(q)
        BY <4>3
      <4> HIDE DEF q
      <4> QED
        BY <1>1, <3>2, <4>1, <4>2, <4>3, <4>4 DEF Outgoing, q
    <3> QED
      BY <1>1, <3>2, <3>5, <3>6, <3>7 DEF Ordered
  <2> QED
    BY <1>1, <1>2, <1>3, <1>4, <1>5, <2>1, <2>2, <2>3, <2>4, <2>5, ReadsAlone, ServingStep
       DEF Turns, Stays, SessionAlike, Batching
<1> QED
  BY <1>6, <1>7

\* The order of the replies of a session, from the number d of the first in its SendQ.
Placed(s, d, c, q, w) ==
  /\ \A i \in 1 .. Len(q) : q[i] = <<c, d + i - 1>>
  /\ \A u \in Threads : Batcher(u, s) =>
       /\ w = d - Len(th[u].batch)
       /\ \A i \in 1 .. Len(th[u].batch) : th[u].batch[i] = <<c, d - Len(th[u].batch) + i - 1>>
  /\ (\A u \in Threads : ~Batcher(u, s)) => w = d

LEMMA OutgoingPlaced ==
  ASSUME NEW s \in Slots, NEW m, NEW d, d = m - Len(Session[s].SendQ)
  PROVE  Outgoing(s, m) <=> Placed(s, d, Session[s].SessionID, Session[s].SendQ,
                                   Len(net[Session[s].SessionID].wire))
BY DEF Outgoing, Placed

LEMMA PlacedOutgoing ==
  ASSUME NEW s \in Slots, NEW m, NEW d, NEW c, Session'[s].SessionID = c,
         d = m - Len(Session'[s].SendQ),
         Placed(s, d, c, Session[s].SendQ, Len(net[c].wire))'
  PROVE  Outgoing(s, m)'
<1>1. /\ \A i \in 1 .. Len(Session'[s].SendQ) : Session'[s].SendQ[i] = <<c, d + i - 1>>
      /\ \A u \in Threads : Batcher(u, s)' =>
           LET b == th'[u].batch IN
           /\ Len(net'[c].wire) = d - Len(b)
           /\ \A i \in 1 .. Len(b) : b[i] = <<c, d - Len(b) + i - 1>>
      /\ (\A u \in Threads : ~Batcher(u, s)') => Len(net'[c].wire) = d
  BY DEF Placed
<1> QED
  BY <1>1 DEF Outgoing

\* The reply to the m-th request is queued behind those before it.
LEMMA ServedEnqueue ==
  ASSUME AccountsInv, Callers = {}, Served, NEW t \in Threads, Enqueue(t)
  PROVE  Served'
<1>1. /\ th[t].pc = "Enqueue" /\ th[t].pc \in Serving /\ {"PostSend", "FreeMsg"} \subseteq Serving
      /\ UNCHANGED emptySession
  BY DEF Enqueue, At, Serving, Labels, Owning, Releasing, pool
<1>2. PICK s \in Slots : s = th[t].slot
  BY <1>1, AtSession
<1>3. PICK c \in Conns : c = Session[s].SessionID
  BY <1>1, <1>2, AtSession
<1>4. /\ TypeOK /\ Session[s].sock = c
      /\ Session \in [Slots -> SessionType] /\ th \in [Threads -> ThreadType]
  BY <1>1, <1>2, <1>3, AtSession DEF TypeOK
<1>5. th[t].batch = <<>>
  BY <1>1 DEF Served, Buffers, Buffer, Batching
<1>6. Reading(t) /\ NoneReads(t, s) /\ Session[s].RecvOver = <<>>
  BY <1>1, <1>2, ReadsAlone, AtWork DEF Handling
<1>7. CASE /\ Session' = [Session EXCEPT ![s].SendQ = Append(@, th[t].msg)]
           /\ Goto(t, "PostSend") /\ UNCHANGED net
  <2>1. Turns(t, "PostSend", th[t].held)
    BY <1>4, <1>7, ThreadTurns
  <2>2. /\ OnlyAt(s) /\ IdsSame /\ SocksSame /\ Session'[s].RecvOver = Session[s].RecvOver
        /\ Session'[s].RecvQ = Session[s].RecvQ
        /\ Session'[s].SendQ = Append(Session[s].SendQ, th[t].msg)
    BY <1>4, <1>7 DEF SessionType, OnlyAt, IdsSame, SocksSame
  <2>3. Touches(c)
    BY <1>1, <1>2, <1>3, <1>7, AtSession
  <2>4. OwnCall(t)'
    BY <2>1 DEF Turns, Stays, OwnCall, Handling
  <2>5. ASSUME Ordered(s) PROVE Ordered(s)'
    <3>1. PICK m \in Nat : m <= net[c].asked + 1 /\ Outgoing(s, m) /\ Incoming(s, m)
      BY <1>3, <2>5 DEF Ordered
    <3>2. th[t].msg # NoPack /\ Handler(t, s)
      BY <1>1, <1>2 DEF Served, OwnCalls, OwnCall, Handler, Handling
    <3>3. /\ th[t].msg = <<c, m>> /\ m <= net[c].asked
          /\ Stream(Session[s].RecvQ \o net[c].inbound, m + 1, net[c].asked)
      BY <1>3, <3>1, <3>2 DEF Incoming
    <3>4. \A u \in Threads : ~Handler(u, s)'
      <4>1. ~Handler(t, s)'
        BY <2>1 DEF Turns, Stays, Handler, Handling
      <4>2. ASSUME NEW u \in Threads \ {t} PROVE ~Handler(u, s)
        BY <1>6, AtWork DEF NoneReads, Handler
      <4> QED
        BY <2>1, <4>1, <4>2 DEF Turns, Stays, Alone, Handler
    <3>5. Incoming(s, m + 1)'
      BY <1>3, <1>7, <2>2, <3>3, <3>4 DEF Incoming, IdsSame
    <3>6. PICK n \in Nat : n = m + 1
      OBVIOUS
    <3>7. Outgoing(s, n)'
      <4> DEFINE q == Session[s].SendQ
                 r == Session'[s].SendQ
      <4>0. PICK d : d = m - Len(q)
        OBVIOUS
      <4>1. q \in Seq(Packets) /\ Len(q) \in Nat /\ th[t].msg \in Packets
        BY <1>4, SessionFields, ThreadFields
      <4>2. /\ Len(r) = Len(q) + 1 /\ r[Len(q) + 1] = <<c, m>>
            /\ \A i \in 1 .. Len(q) : r[i] = q[i]
        BY <2>2, <3>3, <4>1
      <4>3. Placed(s, d, c, q, Len(net[c].wire))
        BY <1>3, <3>1, <4>0, OutgoingPlaced
      <4>4. ASSUME NEW u \in Threads
            PROVE  /\ Batcher(u, s)' <=> Batcher(u, s)
                   /\ Batcher(u, s) => th'[u].batch = th[u].batch
        BY <1>1, <2>1 DEF Turns, Stays, Alone, Batcher, Batching
      <4>5. ASSUME NEW i \in 1 .. Len(r) PROVE r[i] = <<c, d + i - 1>>
        <5>1. \A e \in 1 .. Len(q) : r[e] = <<c, d + e - 1>>
          BY <4>2, <4>3 DEF Placed
        <5>2. r[Len(q) + 1] = <<c, d + (Len(q) + 1) - 1>>
          BY <4>0, <4>1, <4>2
        <5> HIDE DEF q, r
        <5>3. i \in 1 .. Len(q) \/ i = Len(q) + 1
          BY <4>1, <4>2
        <5> QED
          BY <5>1, <5>2, <5>3
      <4>6. n - Len(r) = d
        <5> HIDE DEF q, r
        <5> QED
          BY <3>6, <4>0, <4>1, <4>2
      <4>7. Session'[s].SessionID = c /\ net'[c].wire = net[c].wire
        BY <1>3, <1>7, <2>2 DEF IdsSame
      <4> HIDE DEF q
      <4>8. Placed(s, d, c, Session[s].SendQ, Len(net[c].wire))'
        <5>1. /\ \A u \in Threads : Batcher(u, s)' =>
                   /\ Len(net'[c].wire) = d - Len(th'[u].batch)
                   /\ \A i \in 1 .. Len(th'[u].batch) :
                        th'[u].batch[i] = <<c, d - Len(th'[u].batch) + i - 1>>
              /\ (\A u \in Threads : ~Batcher(u, s)') => Len(net'[c].wire) = d
          BY <4>3, <4>4, <4>7 DEF Placed
        <5> QED
          BY <4>5, <5>1 DEF Placed
      <4> QED
        BY <4>6, <4>7, <4>8, PlacedOutgoing
    <3>8. n <= net[c].asked + 1
      <4>1. net[c].asked \in Nat
        BY <1>4, ConnFields, ConstantTypes DEF TypeOK
      <4> QED
        BY <3>3, <3>6, <4>1
    <3> QED
      <4>1. Session'[s].SessionID = c /\ net'[c].asked = net[c].asked /\ Incoming(s, n)'
        BY <1>3, <1>7, <2>2, <3>5, <3>6 DEF IdsSame
      <4> QED
        BY ONLY <3>7, <3>8, <4>1, n \in Nat DEF Ordered
  <2> QED
    BY <1>1, <1>2, <1>3, <1>5, <1>6, <2>1, <2>2, <2>3, <2>4, <2>5, ReadsAlone, ServingStep
       DEF Turns, Stays, Batching
<1>8. CASE /\ ShutDown(c) /\ UNCHANGED Session
           /\ th' = [th EXCEPT ![t].held = @ \ {"call"}, ![t].pc = "FreeMsg"]
  <2>1. Turns(t, "FreeMsg", th[t].held \ {"call"})
    BY <1>4, <1>8, ThreadTurns
  <2>2. SessionAlike(s)
    BY <1>4, <1>8, SessionKeeps
  <2>3. Touches(c) /\ net'[c].sock # "open"
    BY <1>1, <1>2, <1>3, <1>8, AtSession
  <2>4. OwnCall(t)'
    BY <2>1 DEF Turns, Stays, OwnCall, Handling
  <2> QED
    BY <1>1, <1>2, <1>3, <1>5, <1>6, <2>1, <2>2, <2>3, <2>4, ReadsAlone, ServingStep
       DEF Turns, Stays, SessionAlike
<1> QED
  BY <1>2, <1>4, <1>7, <1>8 DEF Enqueue

LEMMA OnlyBatcher ==
  ASSUME AccountsInv, NEW t \in Threads, NEW s \in Slots, Batcher(t, s), NEW u \in Threads
  PROVE  Batcher(u, s) <=> u = t
BY OnlySender, Parts DEF Batcher, Batching, Sender

\* The order of the replies in buf[] b, the queue q, and the w replies sent.
Row(b, q, d, c, w) ==
  /\ w = d - Len(b)
  /\ \A i \in 1 .. Len(q) : q[i] = <<c, d + i - 1>>
  /\ \A i \in 1 .. Len(b) : b[i] = <<c, d - Len(b) + i - 1>>

LEMMA RowTaken ==
  ASSUME NEW b \in Seq(Packets), NEW q \in Seq(Packets), q # <<>>, NEW d \in Int, NEW c, NEW w,
         Row(b, q, d, c, w)
  PROVE  Row(Append(b, Head(q)), Tail(q), d + 1, c, w)
<1> DEFINE e == Append(b, Head(q))
           r == Tail(q)
<1>1. /\ Len(q) \in Nat /\ Len(q) > 0 /\ Len(r) = Len(q) - 1
      /\ \A i \in 1 .. Len(r) : r[i] = q[i + 1] /\ i + 1 \in 1 .. Len(q)
  OBVIOUS
<1>2. Head(q) = q[1] /\ q[1] \in Packets
  BY <1>1
<1>3. /\ Len(b) \in Nat /\ Len(e) = Len(b) + 1 /\ e[Len(b) + 1] = q[1]
      /\ \A i \in 1 .. Len(b) : e[i] = b[i]
  BY <1>2
<1>4. /\ w = d - Len(b)
      /\ \A i \in 1 .. Len(q) : q[i] = <<c, d + i - 1>>
      /\ \A i \in 1 .. Len(b) : b[i] = <<c, d - Len(b) + i - 1>>
  BY DEF Row
<1> HIDE DEF e, r
<1>5. w = d + 1 - Len(e)
  BY <1>3, <1>4
<1>6. ASSUME NEW i \in 1 .. Len(r) PROVE r[i] = <<c, d + 1 + i - 1>>
  <2>1. r[i] = <<c, d + (i + 1) - 1>>
    BY <1>1, <1>4
  <2>2. d + (i + 1) - 1 = d + 1 + i - 1
    BY <1>1
  <2> QED
    BY <2>1, <2>2
<1>7. ASSUME NEW i \in 1 .. Len(e) PROVE e[i] = <<c, d + 1 - Len(e) + i - 1>>
  <2>1. d + 1 - Len(e) + i - 1 = d - Len(b) + i - 1
    BY <1>3
  <2>2. CASE i \in 1 .. Len(b)
    BY <1>3, <1>4, <2>1, <2>2
  <2>3. CASE i = Len(b) + 1
    <3>1. q[1] = <<c, d + 1 - 1>>
      BY <1>1, <1>4
    <3>2. d + 1 - 1 = d - Len(b) + i - 1
      BY <1>3, <2>3
    <3> QED
      BY <1>3, <2>1, <2>3, <3>1, <3>2
  <2> QED
    BY <1>3, <2>2, <2>3
<1> QED
  BY <1>5, <1>6, <1>7 DEF Row, e, r

LEMMA BatcherRow ==
  ASSUME AccountsInv, NEW t \in Threads, NEW s \in Slots, Batcher(t, s), NEW m \in Nat,
         NEW c, c = Session[s].SessionID, Outgoing(s, m)
  PROVE  Row(th[t].batch, Session[s].SendQ, m - Len(Session[s].SendQ), c, Len(net[c].wire))
BY DEF Outgoing, Row

LEMMA RowOutgoing ==
  ASSUME NEW t \in Threads, NEW s \in Slots, NEW m, NEW c, Session'[s].SessionID = c,
         \A u \in Threads : Batcher(u, s)' <=> u = t,
         NEW b, b = th'[t].batch, NEW q, q = Session'[s].SendQ,
         NEW d, d = m - Len(q), NEW w, w = Len(net'[c].wire), Row(b, q, d, c, w)
  PROVE  Outgoing(s, m)'
<1>1. Placed(s, d, c, Session[s].SendQ, Len(net[c].wire))'
  BY DEF Placed, Row
<1> QED
  BY <1>1, PlacedOutgoing

\* One packet is taken out of SendQ and put into buf[].
LEMMA DequeueTakes ==
  ASSUME AccountsInv, Callers = {}, Served, NEW t \in Threads, NEW s \in Slots, s = th[t].slot,
         th[t].pc = "Dequeue", Stays(t, "Dequeue"), UNCHANGED net,
         Session[s].SendQ # <<>>,
         th'[t].batch = Append(th[t].batch, Head(Session[s].SendQ)),
         Session'[s].SendQ = Tail(Session[s].SendQ), Session'[s].RecvQ = Session[s].RecvQ,
         Session'[s].SessionID = Session[s].SessionID, Ordered(s)
  PROVE  Ordered(s)'
<1>1. TypeOK /\ Session[s].SendQ \in Seq(Packets) /\ th[t].batch \in Seq(Packets)
  BY Parts, ThreadFields, SessionFields DEF TypeOK
<1>2. PICK c : c = Session[s].SessionID
  OBVIOUS
<1>3. PICK m \in Nat : m <= net[c].asked + 1 /\ Outgoing(s, m) /\ Incoming(s, m)
  BY <1>2 DEF Ordered
<1>4. Alone(t) /\ th'[t].slot = s /\ th'[t].pc = "Dequeue"
  BY DEF Stays
<1>5. Batcher(t, s) /\ ~Handler(t, s) /\ ~Handler(t, s)'
  BY <1>4 DEF Batcher, Batching, Handler, Handling
<1>6. Incoming(s, m)'
  BY <1>2, <1>3, <1>4, <1>5, IncomingKept
<1>7. Outgoing(s, m)'
  <2>1. PICK q \in Seq(Packets) : q = Session[s].SendQ
    BY <1>1
  <2>2. PICK b \in Seq(Packets) : b = th[t].batch
    BY <1>1
  <2>3. Len(q) \in Nat /\ Len(Tail(q)) = Len(q) - 1
    BY <2>1
  <2>4. PICK d \in Int : d = m - Len(q)
    <3>1. m - Len(q) \in Int
      BY ONLY m \in Nat, <2>3
    <3> QED
      BY ONLY <3>1, Zenon
  <2>5. Row(b, q, d, c, Len(net[c].wire))
    <3>1. Row(th[t].batch, Session[s].SendQ, m - Len(Session[s].SendQ), c, Len(net[c].wire))
      BY <1>2, <1>3, <1>5, BatcherRow, Zenon
    <3> QED
      BY ONLY <2>1, <2>2, <2>4, <3>1
  <2>6. Row(Append(b, Head(q)), Tail(q), d + 1, c, Len(net[c].wire))
    BY <2>1, <2>5, RowTaken
  <2>7. \A u \in Threads : Batcher(u, s)' <=> u = t
    <3>1. \A u \in Threads : Batcher(u, s) <=> u = t
      BY <1>5, OnlyBatcher
    <3> QED
      BY <1>4, <3>1 DEF Alone, Batcher, Batching
  <2>8. d + 1 = m - Len(Tail(q))
    <3>1. PICK n \in Nat : n = Len(q) /\ Len(Tail(q)) = n - 1
      BY <2>3
    <3>2. d + 1 = m - (n - 1)
      BY ONLY m \in Nat, d \in Int, n \in Nat, <2>4, <3>1
    <3> QED
      BY <3>1, <3>2
  <2> QED
    BY <1>2, <2>1, <2>2, <2>6, <2>7, <2>8, RowOutgoing
<1> QED
  BY <1>2, <1>3, <1>6, <1>7 DEF Ordered

\* buf[] is never full: the replies in it are to different requests.
LEMMA BatchRoom ==
  ASSUME AccountsInv, Echoes, Served, NEW t \in Threads, NEW s \in Slots, Batcher(t, s),
         Session[s].SendQ # <<>>, InUse(s), Ordered(s)
  PROVE  Len(th[t].batch) < SendbufMax
<1>1. PICK c \in Conns : c = Session[s].SessionID
  BY SessionConn
<1>2. PICK m \in Nat : m <= net[c].asked + 1 /\ Outgoing(s, m)
  BY <1>1 DEF Ordered
<1>3. Session[s].SendQ \in Seq(Packets) /\ th[t].batch \in Seq(Packets)
  BY Parts, ThreadFields, SessionFields DEF TypeOK
<1>4. Len(net[c].wire) = m - Len(Session[s].SendQ) - Len(th[t].batch)
  BY <1>1, <1>2, BatcherRow DEF Row
<1>5. net[c] \in ConnType
  BY <1>1, Parts, ConstantTypes DEF TypeOK
<1>6. net[c].wire \in Seq(Nat) /\ net[c].asked \in Nat
  BY <1>5, ConnFields
<1>7. Len(net[c].wire) \in Nat
  BY <1>6
<1>8. /\ net[c].asked <= MaxMsgs
      /\ MaxMsgs < SendbufMax /\ MaxMsgs \in Nat /\ SendbufMax \in Nat
  BY <1>1, SizesAssumption DEF Echoes, Served, Wires
<1>9. /\ Len(Session[s].SendQ) \in Nat /\ Len(Session[s].SendQ) > 0
      /\ Len(th[t].batch) \in Nat
  BY <1>3
<1>10. Len(th[t].batch) <= net[c].asked
  BY ONLY m \in Nat, <1>2, <1>4, <1>6, <1>7, <1>9
<1> QED
  BY <1>6, <1>8, <1>9, <1>10

LEMMA ServedDequeue ==
  ASSUME AccountsInv, Callers = {}, Served, NEW t \in Threads, Dequeue(t)
  PROVE  Served'
<1>1. /\ th[t].pc = "Dequeue" /\ UNCHANGED <<net, emptySession>> /\ Callers = {}
      /\ {"Dequeue", "WSASend", "EndPostEmpty"} \subseteq Serving /\ th[t].pc \in Serving
  BY DEF Dequeue, At, Serving, Labels, Owning, Releasing, pool
<1>2. PICK s \in Slots : s = th[t].slot
  BY <1>1, AtSession
<1>3. PICK c \in Conns : c = Session[s].SessionID
  BY <1>1, <1>2, AtSession
<1>4. /\ TypeOK /\ Touches(c) /\ NetAlike /\ InUse(s)
      /\ Session \in [Slots -> SessionType] /\ th \in [Threads -> ThreadType]
  BY <1>1, <1>2, <1>3, AtSession, NetKeeps, ConstantTypes DEF TypeOK
<1>5. Session[s].SendQ \in Seq(Packets) /\ th[t].batch \in Seq(Packets)
  BY <1>4, SessionFields, ThreadFields
<1>6. Batcher(t, s)
  BY <1>1, <1>2 DEF Batcher, Batching
<1>0. \/ /\ Session[s].SendQ = <<>> /\ UNCHANGED Session
         /\ Goto(t, IF Len(th[t].batch) = 0 THEN "EndPostEmpty" ELSE "WSASend")
      \/ /\ Session[s].SendQ # <<>> /\ Len(th[t].batch) < SendbufMax
         /\ th' = [th EXCEPT ![t].batch = Append(@, Head(Session[s].SendQ))]
         /\ Session' = [Session EXCEPT ![s].SendQ = Tail(@),
                                       ![s].SendPack = Append(@, Head(Session[s].SendQ))]
      \/ /\ Session[s].SendQ # <<>> /\ Len(th[t].batch) >= SendbufMax
         /\ Goto(t, "WSASend")
         /\ Session' = [Session EXCEPT ![s].SendQ = Tail(@)]
  BY <1>2 DEF Dequeue
<1>7. CASE Session[s].SendQ = <<>> /\ Len(th[t].batch) # 0
  <2>0. Goto(t, "WSASend") /\ UNCHANGED Session
    BY <1>0, <1>7
  <2>1. Turns(t, "WSASend", th[t].held) /\ th[t].batch # <<>>
    <3>1. Len(<<>>) = 0
      OBVIOUS
    <3> QED
      BY <1>4, <1>7, <2>0, <3>1, ThreadTurns
  <2>2. SessionAlike(s)
    BY <1>4, <2>0, SessionKeeps
  <2>3. Keeps(th[t].pc, "WSASend")
    BY <1>1 DEF Keeps, Fill, Ided, Emptying, Emptied, Handling, Batching
  <2>4. "call" \in th[t].held => "call" \in th[t].held
    OBVIOUS
  <2>5. "WSASend" \notin ReadingAt \cup {"Disconnect", "Enqueue"}
    BY DEF ReadingAt
  <2> QED
    BY <1>1, <1>2, <1>4, <2>1, <2>2, <2>3, <2>4, <2>5, TurnStep
<1>8. CASE Session[s].SendQ = <<>> /\ Len(th[t].batch) = 0
  <2>0. Goto(t, "EndPostEmpty") /\ UNCHANGED Session
    BY <1>0, <1>8
  <2>1. Turns(t, "EndPostEmpty", th[t].held) /\ th[t].batch = <<>>
    <3>1. th[t].batch = <<>>
      BY <1>5, <1>8
    <3> QED
      BY <1>4, <2>0, <3>1, ThreadTurns
  <2>2. SessionAlike(s)
    BY <1>4, <2>0, SessionKeeps
  <2>3. Reading(t)' => Reading(t)
    BY <2>1 DEF Reading, Turns, Stays
  <2>4. OwnCall(t)'
    BY <2>1 DEF Turns, Stays, OwnCall, Handling
  <2>5. ASSUME Ordered(s) PROVE Ordered(s)'
    <3>1. PICK m \in Nat : m <= net[c].asked + 1 /\ Outgoing(s, m) /\ Incoming(s, m)
      BY <1>3, <2>5 DEF Ordered
    <3>2. Alone(t) /\ ~Batcher(t, s)' /\ ~Handler(t, s) /\ ~Handler(t, s)'
      BY <1>1, <2>1 DEF Turns, Stays, Batcher, Batching, Handler, Handling
    <3>3. /\ Session'[s].SendQ = <<>> /\ Session'[s].SessionID = c
          /\ Session'[s].RecvQ = Session[s].RecvQ
      BY <1>3, <1>8, <2>2 DEF SessionAlike, QueuesSame, IdsSame
    <3>4. Incoming(s, m)'
      BY <1>1, <1>3, <3>1, <3>2, <3>3, IncomingKept
    <3>5. Len(net[c].wire) = m
      <4>1. Row(<<>>, <<>>, m - 0, c, Len(net[c].wire))
        BY <1>3, <1>6, <1>8, <2>1, <3>1, BatcherRow
      <4> QED
        BY <3>1, <4>1 DEF Row
    <3>6. \A u \in Threads : ~Batcher(u, s)'
      <4>1. \A u \in Threads : Batcher(u, s) <=> u = t
        BY <1>6, OnlyBatcher
      <4> QED
        BY <3>2, <4>1 DEF Alone, Batcher
    <3>7. Placed(s, m, c, Session[s].SendQ, Len(net[c].wire))'
      <4>1. net'[c].wire = net[c].wire
        BY <1>1
      <4>2. \A i \in 1 .. Len(Session'[s].SendQ) : Session'[s].SendQ[i] = <<c, m + i - 1>>
        BY <3>3
      <4> QED
        BY <3>5, <3>6, <4>1, <4>2 DEF Placed
    <3>8. Outgoing(s, m)'
      <4>1. m = m - Len(Session'[s].SendQ)
        BY <3>1, <3>3
      <4> QED
        BY <3>1, <3>3, <3>7, <4>1, PlacedOutgoing
    <3> QED
      BY <1>1, <1>3, <3>1, <3>3, <3>4, <3>8 DEF Ordered
  <2> QED
    BY <1>1, <1>2, <1>3, <1>4, <2>1, <2>2, <2>3, <2>4, <2>5, ReadsAlone, ServingStep
       DEF Turns, Stays, SessionAlike
<1>9. CASE Session[s].SendQ # <<>>
  <2>1. PICK k \in {"Dequeue", "WSASend"} :
          /\ Stays(t, k) /\ th'[t].held = th[t].held
          /\ k = "Dequeue" => th'[t].batch = Append(th[t].batch, Head(Session[s].SendQ))
          /\ k = "WSASend" => th'[t].batch = th[t].batch /\ Len(th[t].batch) >= SendbufMax
    <3>1. CASE /\ Len(th[t].batch) < SendbufMax
               /\ th' = [th EXCEPT ![t].batch = Append(@, Head(Session[s].SendQ))]
      <4> DEFINE e == Append(th[t].batch, Head(Session[s].SendQ))
      <4>1. th' = [th EXCEPT ![t].batch = e]
        BY <3>1
      <4> HIDE DEF e
      <4>2. Stays(t, "Dequeue") /\ th'[t].held = th[t].held /\ th'[t].batch = e
        BY <1>1, <1>4, <4>1 DEF ThreadType, Stays, Alone
      <4> QED
        BY <4>2 DEF e
    <3>2. CASE Len(th[t].batch) >= SendbufMax /\ Goto(t, "WSASend")
      BY <1>4, <3>2, ThreadTurns DEF Turns
    <3> QED
      BY <1>0, <1>9, <3>1, <3>2
  <2>2. /\ OnlyAt(s) /\ IdsSame /\ SocksSame /\ Session'[s].RecvOver = Session[s].RecvOver
        /\ Session'[s].RecvQ = Session[s].RecvQ
        /\ Session'[s].SendQ = Tail(Session[s].SendQ)
    <3> DEFINE r == Tail(Session[s].SendQ)
               p == Append(Session[s].SendPack, Head(Session[s].SendQ))
    <3>1. \/ Session' = [Session EXCEPT ![s].SendQ = r, ![s].SendPack = p]
          \/ Session' = [Session EXCEPT ![s].SendQ = r]
      BY <1>0, <1>9
    <3> HIDE DEF r, p
    <3>2. Session \in [Slots -> SessionType] /\ s \in Slots
      BY <1>4
    <3>3. /\ \A x \in Slots \ {s} : Session'[x] = Session[x]
          /\ Session'[s].SessionID = Session[s].SessionID /\ Session'[s].sock = Session[s].sock
          /\ Session'[s].RecvOver = Session[s].RecvOver
          /\ Session'[s].RecvQ = Session[s].RecvQ /\ Session'[s].SendQ = r
      <4>1. CASE Session' = [Session EXCEPT ![s].SendQ = r, ![s].SendPack = p]
        BY ONLY <3>2, <4>1 DEF SessionType
      <4>2. CASE Session' = [Session EXCEPT ![s].SendQ = r]
        BY ONLY <3>2, <4>2 DEF SessionType
      <4> QED
        BY <3>1, <4>1, <4>2
    <3> QED
      BY ONLY <3>3 DEF r, OnlyAt, IdsSame, SocksSame
  <2>3. Reading(t)' => Reading(t)
    BY <2>1 DEF Reading, Stays
  <2>4. OwnCall(t)'
    BY <2>1 DEF Stays, OwnCall, Handling
  <2>5. k = "WSASend" => th'[t].batch # <<>>
    BY <2>1, SizesAssumption
  <2>6. ASSUME Echoes, Ordered(s) PROVE Ordered(s)'
    <3>1. Len(th[t].batch) < SendbufMax
      BY <1>4, <1>6, <1>9, <2>6, BatchRoom
    <3>2. k = "Dequeue"
      <4>1. Len(th[t].batch) \in Nat /\ SendbufMax \in Nat
        BY <1>5, SizesAssumption
      <4> QED
        BY <2>1, <3>1, <4>1
    <3> QED
      BY <1>1, <1>2, <1>3, <1>9, <2>1, <2>2, <2>6, <3>2, DequeueTakes DEF IdsSame
  <2> QED
    BY <1>1, <1>2, <1>3, <1>4, <2>1, <2>2, <2>3, <2>4, <2>5, <2>6, ReadsAlone, ServingStep
       DEF Stays, Batching
<1> QED
  BY <1>7, <1>8, <1>9

\* The requests packets answer.
Numbers(b) == [i \in 1 .. Len(b) |-> b[i][2]]

Numbered(v) == v = [i \in 1 .. Len(v) |-> i - 1]

LEMMA NumberedConcat ==
  ASSUME NEW w \in Seq(Int), NEW x \in Seq(Int), Numbered(w),
         \A i \in 1 .. Len(x) : x[i] = Len(w) + i - 1
  PROVE  Numbered(w \o x) /\ Len(w \o x) = Len(w) + Len(x)
<1> DEFINE v == w \o x
<1>1. Len(w) \in Nat /\ Len(x) \in Nat
  OBVIOUS
<1>2. /\ v \in Seq(Int) /\ Len(v) = Len(w) + Len(x)
      /\ \A i \in 1 .. Len(w) : v[i] = w[i]
      /\ \A i \in 1 .. Len(x) : v[Len(w) + i] = x[i]
  OBVIOUS
<1>3. \A i \in 1 .. Len(w) : w[i] = i - 1
  BY DEF Numbered
<1> HIDE DEF v
<1>4. ASSUME NEW i \in 1 .. Len(v) PROVE v[i] = i - 1
  <2>1. CASE i <= Len(w)
    BY <1>1, <1>2, <1>3, <2>1
  <2>2. CASE ~(i <= Len(w))
    <3>1. PICK j \in 1 .. Len(x) : i = Len(w) + j
      <4>1. i - Len(w) \in 1 .. Len(x) /\ i = Len(w) + (i - Len(w))
        BY <1>1, <1>2, <2>2
      <4> QED
        BY <4>1
    <3> QED
      BY <1>1, <1>2, <3>1
  <2> QED
    BY <2>1, <2>2
<1>5. v = [i \in 1 .. Len(v) |-> v[i]]
  BY <1>2
<1>6. Numbered(v)
  BY <1>4, <1>5 DEF Numbered
<1> QED
  BY <1>2, <1>6 DEF v

\* What is sent goes on where the replies sent before end.
LEMMA RowSent ==
  ASSUME NEW b \in Seq(Packets), NEW w \in Seq(Nat), Numbered(w),
         NEW q, NEW d \in Int, NEW c, Row(b, q, d, c, Len(w))
  PROVE  Numbered(w \o Numbers(b)) /\ Len(w \o Numbers(b)) = d
<1>1. Len(b) \in Nat /\ Len(w) \in Nat /\ \A i \in 1 .. Len(b) : b[i] \in Packets
  BY ElementOfSeq
<1>2. Len(w) = d - Len(b) /\ \A i \in 1 .. Len(b) : b[i] = <<c, d - Len(b) + i - 1>>
  BY DEF Row
<1>3. PICK x : x = Numbers(b)
  OBVIOUS
<1>4. \A i \in 1 .. Len(b) : b[i][2] = Len(w) + i - 1
  BY <1>2
<1>5. x \in Seq(Int) /\ Len(x) = Len(b) /\ \A i \in 1 .. Len(b) : x[i] = Len(w) + i - 1
  <2>1. \A i \in 1 .. Len(b) : b[i][2] \in Int
    BY <1>1, <1>4
  <2>2. x \in Seq(Int) /\ Len(x) = Len(b) /\ \A i \in 1 .. Len(b) : x[i] = b[i][2]
    BY <1>1, <1>3, <2>1 DEF Numbers
  <2> QED
    BY <1>4, <2>2
<1>6. w \in Seq(Int)
  OBVIOUS
<1>7. Numbered(w \o x) /\ Len(w \o x) = Len(w) + Len(b)
  BY <1>5, <1>6, NumberedConcat
<1>8. Len(w) + Len(b) = d
  BY <1>1, <1>2
<1> QED
  BY <1>3, <1>7, <1>8

\* A WSASend on an open socket, and one that fails.
Sends(t, s, c) ==
  /\ th[t].pc = "WSASend" /\ s = th[t].slot /\ c = Session[s].sock /\ net[c].sock = "open"
  /\ Session' = [Session EXCEPT ![s].SendOver = Append(@, [sock |-> c, buf |-> th[t].batch])]
  /\ net' = [net EXCEPT ![c].wire = @ \o [i \in 1 .. Len(th[t].batch) |-> th[t].batch[i][2]]]
  /\ th' = [th EXCEPT ![t].batch = <<>>, ![t].held = @ \ {"post"}, ![t].pc = AfterPost(t)]

Fails(t, s, c) ==
  /\ th[t].pc = "WSASend" /\ s = th[t].slot /\ c = Session[s].sock
  /\ ShutDown(c) /\ UNCHANGED Session
  /\ th' = [th EXCEPT ![t].batch = <<>>, ![t].pc = "EndPost"]

LEMMA SendsOrFails ==
  ASSUME NEW t \in Threads, WSASend(t)
  PROVE  \E s, c : Sends(t, s, c) \/ Fails(t, s, c)
BY DEF WSASend, At, MayPost, Sends, Fails

\* What is on the wire then ends where SendQ begins.
SentUpTo(s, c) ==
  /\ Touches(c) /\ net'[c].inbound = net[c].inbound
  /\ \E m \in Nat : /\ m <= net[c].asked + 1 /\ Outgoing(s, m) /\ Incoming(s, m)
                    /\ Len(net'[c].wire) = m - Len(Session[s].SendQ)

\* The batch goes out on the connection of the session, which is otherwise left alone.
LEMMA SendsOn ==
  ASSUME AccountsInv, Callers = {}, Served, NEW t \in Threads, NEW s \in Slots,
         NEW c \in Conns, Sends(t, s, c)
  PROVE  /\ c = Session[s].SessionID /\ InUse(s) /\ Busy(s) /\ Batcher(t, s)
         /\ net'[c].wire = net[c].wire \o [i \in 1 .. Len(th[t].batch) |-> th[t].batch[i][2]]
         /\ \A d \in Conns \ {c} : net'[d] = net[d]
         /\ net'[c].index = net[c].index /\ net'[c].joins = net[c].joins
         /\ net'[c].leaves = net[c].leaves /\ net'[c].asked = net[c].asked
         /\ net'[c].sock = net[c].sock /\ net'[c].inbound = net[c].inbound
<1>1. th[t].pc = "WSASend" /\ th[t].pc \in Serving
  BY DEF Sends, Serving, Labels, Owning, Releasing
<1>2. TypeOK /\ InUse(s) /\ Busy(s) /\ c = Session[s].SessionID /\ Batcher(t, s)
  BY <1>1, AtSession DEF Sends, Batcher, Batching
<1>3. PICK x : x = net[c].wire \o [i \in 1 .. Len(th[t].batch) |-> th[t].batch[i][2]]
  OBVIOUS
<1>4. net' = [net EXCEPT ![c].wire = x]
  BY <1>3 DEF Sends
<1>5. net \in [Ids -> ConnType] /\ c \in Ids /\ Conns \subseteq Ids
  BY <1>2, ConstantTypes DEF TypeOK
<1> QED
  BY <1>2, <1>3, <1>4, <1>5 DEF ConnType

\* The client is sent the replies after those it was sent before, and none too early.
LEMMA SendsReplies ==
  ASSUME AccountsInv, Echoes, Served, NEW t \in Threads, NEW s \in Slots,
         NEW c \in Conns, Sends(t, s, c)
  PROVE  /\ net'[c].wire = [i \in 1 .. Len(net'[c].wire) |-> i - 1]
         /\ Len(net'[c].wire) > Len(net[c].wire)
         /\ SentUpTo(s, c)
<1>1. Callers = {}
  BY DEF Echoes
<1>2. TypeOK /\ InUse(s) /\ Busy(s) /\ c = Session[s].SessionID /\ Batcher(t, s)
  BY <1>1, SendsOn, Parts
<1>3. Ordered(s)
  BY <1>2 DEF Sends, Served, Answers, Open
<1>4. PICK m \in Nat : m <= net[c].asked + 1 /\ Outgoing(s, m) /\ Incoming(s, m)
  BY <1>2, <1>3 DEF Ordered
<1>5. PICK b \in Seq(Packets), q \in Seq(Packets), w \in Seq(Nat) :
        b = th[t].batch /\ q = Session[s].SendQ /\ w = net[c].wire
  BY <1>2, ThreadFields, SessionFields, ConnFields, ConstantTypes DEF TypeOK
<1>6. /\ net'[c].wire = w \o [i \in 1 .. Len(b) |-> b[i][2]]
      /\ \A d \in Conns \ {c} : net'[d] = net[d]
      /\ net'[c].index = net[c].index /\ net'[c].joins = net[c].joins
      /\ net'[c].leaves = net[c].leaves /\ net'[c].asked = net[c].asked
      /\ net'[c].sock = net[c].sock /\ net'[c].inbound = net[c].inbound
  BY <1>1, <1>5, SendsOn
<1>7. b # <<>>
  BY <1>5 DEF Sends, Served, Buffers, Buffer
<1>8. Len(q) \in Nat /\ Len(b) \in Nat /\ Len(b) > 0 /\ Len(w) \in Nat
  BY <1>5, <1>7
<1>9. PICK d \in Int : d = m - Len(q)
  <2>1. m - Len(q) \in Int
    BY <1>4, <1>8
  <2> QED
    BY <2>1
<1>10. Row(b, q, d, c, Len(w))
  BY <1>2, <1>4, <1>5, <1>9, BatcherRow
<1>11. Numbered(w)
  BY <1>2, <1>5 DEF Served, Wires, Numbered
<1>12. net'[c].wire = [i \in 1 .. Len(net'[c].wire) |-> i - 1] /\ Len(net'[c].wire) = d
  <2>1. Numbered(w \o Numbers(b)) /\ Len(w \o Numbers(b)) = d
    BY <1>5, <1>9, <1>10, <1>11, RowSent
  <2>2. net'[c].wire = w \o Numbers(b)
    BY <1>6 DEF Numbers
  <2> QED
    BY <2>1, <2>2 DEF Numbered
<1>13. Len(net[c].wire) = d - Len(b)
  BY <1>5, <1>10 DEF Row
<1>14. d > d - Len(b)
  BY ONLY d \in Int, <1>8
<1>15. net[c].asked \in Nat
  BY <1>2, ConnFields, ConstantTypes DEF TypeOK
<1>16. d <= net[c].asked + 1
  BY ONLY m \in Nat, d \in Int, <1>4, <1>8, <1>9, <1>15
<1>17. Touches(c)
  BY <1>6, <1>12, <1>16 DEF Touches
<1> QED
  BY <1>4, <1>5, <1>6, <1>9, <1>12, <1>13, <1>14, <1>17 DEF SentUpTo

LEMMA ServedWSASend ==
  ASSUME AccountsInv, Callers = {}, Served, NEW t \in Threads, WSASend(t)
  PROVE  Served'
<1>1. PICK s, c : Sends(t, s, c) \/ Fails(t, s, c)
  BY SendsOrFails
<1>2. /\ th[t].pc = "WSASend" /\ UNCHANGED emptySession /\ th[t].pc \in Serving
      /\ {"EndPost", "EndCall", "EndEvent"} \subseteq Serving
  BY DEF WSASend, At, pool, Serving, Labels, Owning, Releasing
<1>3. /\ s \in Slots /\ c \in Conns /\ c = Session[s].SessionID /\ InUse(s) /\ Busy(s)
      /\ TypeOK /\ s = th[t].slot
  BY <1>1, <1>2, AtSession DEF Sends, Fails
<1>4. Session \in [Slots -> SessionType] /\ th \in [Threads -> ThreadType]
  BY <1>3 DEF TypeOK
<1>5. Batcher(t, s)
  BY <1>2, <1>3 DEF Batcher, Batching
<1>6. CASE Fails(t, s, c)
  <2>1. Stays(t, "EndPost") /\ th'[t].held = th[t].held /\ th'[t].batch = <<>>
    BY <1>4, <1>6 DEF Fails, ThreadType, Stays, Alone
  <2>2. SessionAlike(s)
    BY <1>3, <1>6, SessionKeeps DEF Fails
  <2>3. Touches(c) /\ net'[c].sock # "open"
    BY <1>3, <1>6, TouchesConn DEF Fails
  <2>4. Reading(t)' => Reading(t)
    BY <2>1 DEF Reading, Stays
  <2>5. OwnCall(t)'
    BY <2>1 DEF Stays, OwnCall, Handling
  <2> QED
    BY <1>2, <1>3, <2>1, <2>2, <2>3, <2>4, <2>5, ReadsAlone, ServingStep
       DEF Stays, SessionAlike
<1>7. CASE Sends(t, s, c)
  <2>1. PICK k \in {"EndCall", "EndEvent"} :
          /\ Stays(t, k) /\ th'[t].held = th[t].held \ {"post"} /\ th'[t].batch = <<>>
    <3>1. PICK k \in {"EndCall", "EndEvent"} : k = AfterPost(t)
      BY DEF AfterPost
    <3>2. th' = [th EXCEPT ![t].batch = <<>>, ![t].held = @ \ {"post"}, ![t].pc = k]
      BY <1>7, <3>1 DEF Sends
    <3> QED
      BY <1>4, <3>2 DEF ThreadType, Stays, Alone
  <2>2. SessionAlike(s)
    <3> DEFINE e == Append(Session[s].SendOver, [sock |-> c, buf |-> th[t].batch])
    <3>1. Session' = [Session EXCEPT ![s].SendOver = e]
      BY <1>7 DEF Sends
    <3> HIDE DEF e
    <3> QED
      BY <1>3, <3>1, SessionKeeps
  <2>3. Touches(c) /\ net'[c].inbound = net[c].inbound
    <3>1. CASE Echoes
      BY <1>3, <1>7, <3>1, SendsReplies, Zenon DEF SentUpTo
    <3>2. CASE ~Echoes
      BY <1>3, <1>7, <3>2, SendsOn DEF Touches
    <3> QED
      BY <3>1, <3>2
  <2>4. Reading(t)' => Reading(t)
    BY <2>1 DEF Reading, Stays
  <2>5. OwnCall(t)'
    BY <2>1 DEF Stays, OwnCall, Handling
  <2>6. ASSUME Echoes PROVE Ordered(s)'
    <3>1. PICK m \in Nat : /\ m <= net[c].asked + 1 /\ Outgoing(s, m) /\ Incoming(s, m)
                           /\ Len(net'[c].wire) = m - Len(Session[s].SendQ)
      <4>1. SentUpTo(s, c)
        BY <1>3, <1>7, <2>6, SendsReplies, Zenon
      <4> QED
        BY ONLY <4>1 DEF SentUpTo
    <3>2. Alone(t) /\ ~Batcher(t, s)' /\ ~Handler(t, s) /\ ~Handler(t, s)'
      BY <1>2, <2>1 DEF Stays, Batcher, Batching, Handler, Handling
    <3>3. /\ Session'[s].SendQ = Session[s].SendQ /\ Session'[s].SessionID = c
          /\ Session'[s].RecvQ = Session[s].RecvQ
      BY <1>3, <2>2 DEF SessionAlike, QueuesSame, IdsSame
    <3>4. net'[c].asked = net[c].asked
      BY <2>3 DEF Touches
    <3>5. Incoming(s, m)'
      BY <1>3, <2>3, <3>1, <3>2, <3>3, <3>4, IncomingKept
    <3>6. \A u \in Threads : ~Batcher(u, s)'
      <4>1. \A u \in Threads : Batcher(u, s) <=> u = t
        BY <1>3, <1>5, OnlyBatcher
      <4> QED
        BY <3>2, <4>1 DEF Alone, Batcher
    <3>7. PICK d : d = m - Len(Session[s].SendQ)
      OBVIOUS
    <3>8. \A i \in 1 .. Len(Session[s].SendQ) : Session[s].SendQ[i] = <<c, d + i - 1>>
      <4>1. Placed(s, d, c, Session[s].SendQ, Len(net[c].wire))
        BY ONLY <1>3, <3>1, <3>7, OutgoingPlaced
      <4> QED
        BY ONLY <4>1 DEF Placed
    <3>9. Placed(s, d, c, Session[s].SendQ, Len(net[c].wire))'
      BY <3>1, <3>3, <3>6, <3>7, <3>8 DEF Placed
    <3>10. Outgoing(s, m)'
      BY <1>3, <3>1, <3>3, <3>7, <3>9, PlacedOutgoing
    <3> QED
      BY <3>1, <3>3, <3>4, <3>5, <3>10 DEF Ordered
  <2>7. /\ Alone(t) /\ th'[t].slot = s /\ th'[t].pc = k /\ k \in Serving /\ k # "WSASend"
        /\ OnlyAt(s) /\ IdsSame /\ SocksSame /\ Session'[s].RecvOver = Session[s].RecvOver
    BY <1>2, <1>3, <2>1, <2>2 DEF Stays, SessionAlike
  <2>8. /\ Reading(t)' => Session'[s].RecvOver = <<>> /\ NoneReads(t, s)
        /\ Len(Session'[s].RecvOver) <= 1
        /\ \A i \in DOMAIN Session'[s].RecvOver : Session'[s].RecvOver[i] = c
    BY <1>3, <2>4, <2>7, ReadsAlone
  <2> QED
    BY <1>2, <1>3, <2>1, <2>3, <2>5, <2>6, <2>7, <2>8, ServingStep
<1> QED
  BY <1>1, <1>6, <1>7

LEMMA ServedWSARecv ==
  ASSUME AccountsInv, Callers = {}, Served, NEW t \in Threads, WSARecv(t)
  PROVE  Served'
<1>1. /\ th[t].pc = "WSARecv" /\ UNCHANGED emptySession /\ th[t].pc \in Serving
      /\ {"EndPost", "EndEvent"} \subseteq Serving
  BY DEF WSARecv, At, pool, Serving, Labels, Owning, Releasing
<1>2. PICK s \in Slots : s = th[t].slot
  BY <1>1, AtSession
<1>3. PICK c \in Conns : c = Session[s].SessionID
  BY <1>1, <1>2, AtSession
<1>4. /\ TypeOK /\ Session[s].sock = c
      /\ Session \in [Slots -> SessionType] /\ th \in [Threads -> ThreadType]
  BY <1>1, <1>2, <1>3, AtSession DEF TypeOK
<1>5. NoneReads(t, s) /\ Session[s].RecvOver = <<>> /\ "call" \notin th[t].held
  <2>1. Reading(t)
    BY <1>1 DEF Reading
  <2>2. "call" \notin th[t].held
    BY <1>1, AtWork DEF Calling, Sending
  <2> QED
    BY <1>2, <2>1, <2>2, ReadsAlone
<1>6. th[t].batch = <<>>
  BY <1>1 DEF Served, Buffers, Buffer, Batching
<1>7. PICK k \in {"EndPost", "EndEvent"} :
        /\ Stays(t, k) /\ th'[t].held \subseteq th[t].held
        /\ th'[t].batch = th[t].batch /\ th'[t].msg = th[t].msg
        /\ \/ /\ Session' = [Session EXCEPT ![s].RecvOver = Append(@, c)]
              /\ UNCHANGED net
           \/ ShutDown(c) /\ UNCHANGED Session
  <2>1. CASE /\ Session' = [Session EXCEPT ![s].RecvOver = Append(@, c)]
             /\ th' = [th EXCEPT ![t].held = @ \ {"post"}, ![t].pc = "EndEvent"]
             /\ UNCHANGED net
    <3>1. Turns(t, "EndEvent", th[t].held \ {"post"})
      BY <1>4, <2>1, ThreadTurns
    <3> QED
      BY <2>1, <3>1 DEF Turns
  <2>2. CASE ShutDown(c) /\ Goto(t, "EndPost") /\ UNCHANGED Session
    <3>1. Turns(t, "EndPost", th[t].held)
      BY <1>4, <2>2, ThreadTurns
    <3> QED
      BY <2>2, <3>1 DEF Turns
  <2> QED
    BY <1>2, <1>4, <2>1, <2>2 DEF WSARecv
<1>8. /\ OnlyAt(s) /\ QueuesSame(s) /\ IdsSame /\ SocksSame
      /\ Session'[s].RecvOver \in {<<>>, <<c>>}
  <2>1. CASE UNCHANGED Session
    BY <1>4, <1>5, <2>1, SessionKeeps DEF SessionAlike
  <2>2. CASE Session' = [Session EXCEPT ![s].RecvOver = Append(@, c)]
    <3>1. Session' = [Session EXCEPT ![s].RecvOver = <<c>>]
      BY <1>5, <2>2
    <3> QED
      BY <1>4, <3>1 DEF SessionType, OnlyAt, QueuesSame, IdsSame, SocksSame
  <2> QED
    BY <1>7, <2>1, <2>2
<1>9. ~Reading(t)'
  BY <1>5, <1>7 DEF Reading, Stays
<1>10. OwnCall(t)'
  BY <1>7 DEF Stays, OwnCall, Handling
<1>11. /\ Touches(c)
       /\ net'[c].sock = "open" => UNCHANGED net
  BY <1>1, <1>2, <1>3, <1>7, AtSession
<1>12. ASSUME net'[c].sock = "open", Ordered(s) PROVE Ordered(s)'
  <2>1. UNCHANGED net
    BY <1>11, <1>12
  <2>2. /\ Alone(t) /\ ~Batcher(t, s) /\ ~Batcher(t, s)' /\ ~Handler(t, s) /\ ~Handler(t, s)'
    BY <1>1, <1>7 DEF Stays, Batcher, Batching, Handler, Handling
  <2> QED
    BY <1>3, <1>8, <1>12, <2>1, <2>2, OrderedKept DEF IdsSame, ConnSame
<1>13. /\ Len(Session'[s].RecvOver) <= 1
       /\ \A i \in DOMAIN Session'[s].RecvOver : Session'[s].RecvOver[i] = c
  <2>1. CASE Session'[s].RecvOver = <<>>
    BY <2>1
  <2>2. CASE Session'[s].RecvOver = <<c>>
    BY <2>2
  <2> QED
    BY <1>8, <2>1, <2>2
<1> QED
  BY <1>1, <1>2, <1>3, <1>5, <1>6, <1>7, <1>8, <1>9, <1>10, <1>11, <1>12, <1>13, ServingStep
     DEF Stays

-----------------------------------------------------------------------------
(* Completions *)

LEMMA Begun ==
  ASSUME AccountsInv, Served, NEW w \in Threads, NEW s \in Slots, NEW l, Begin(w, s, l)
  PROVE  /\ th[w].pc = "idle" /\ Alone(w) /\ th'[w].pc = l /\ th'[w].slot = s
         /\ th'[w].held = {"event"} /\ th'[w].batch = <<>>
<1>1. th[w].pc = "idle" /\ th' = [th EXCEPT ![w].slot = s, ![w].held = {"event"}, ![w].pc = l]
  BY DEF Begin, At
<1>2. th \in [Threads -> ThreadType]
  BY Parts DEF TypeOK
<1>3. th[w].batch = <<>>
  BY <1>1 DEF Served, Buffers, Buffer, Batching
<1> QED
  BY <1>1, <1>2, <1>3 DEF ThreadType, Alone

\* The receive of a session that completes was its only one.
LEMMA RecvTaken ==
  ASSUME AccountsInv, Served, NEW s \in Slots, NEW i \in DOMAIN Session[s].RecvOver,
         NEW w \in Threads
  PROVE  /\ RemoveAt(Session[s].RecvOver, i) = <<>>
         /\ Session[s].RecvOver[i] = Session[s].SessionID
         /\ ~Quiet(s) /\ NoneReads(w, s)
<1>1. PICK q \in Seq(Ids) : q = Session[s].RecvOver
  BY Parts, SessionFields DEF TypeOK
<1>2. Len(q) <= 1 /\ i \in DOMAIN q
  BY <1>1, ReadsAlone
<1>3. q # <<>>
  BY <1>2
<1>4. RemoveAt(q, i) \in Seq(Ids) /\ Len(RemoveAt(q, i)) = Len(q) - 1
  BY <1>2, RemoveAtType, RemoveAtLength
<1>5. RemoveAt(q, i) = <<>>
  <2>1. PICK r \in Seq(Ids) : r = RemoveAt(q, i)
    BY <1>4
  <2>2. Len(r) = 0
    BY <1>2, <1>4, <2>1
  <2> QED
    BY <2>1, <2>2
<1>6. NoneReads(w, s) /\ Session[s].RecvOver[i] = Session[s].SessionID
  BY <1>1, <1>3, ReadsAlone
<1> QED
  BY <1>1, <1>3, <1>5, <1>6 DEF Quiet

LEMMA ServedCompletion ==
  ASSUME AccountsInv, Callers = {}, Served, NEW w \in Workers, SendDone(w) \/ ZeroDone(w)
  PROVE  Served'
<1>1. PICK s \in Slots, k \in {"FreeSent", "Zero"} :
        /\ Begin(w, s, k)
        /\ \/ \E i \in DOMAIN Session[s].RecvOver :
                Session' = [Session EXCEPT ![s].RecvOver = RemoveAt(@, i)]
           \/ \E i \in DOMAIN Session[s].SendOver :
                Session' = [Session EXCEPT ![s].SendOver = RemoveAt(@, i)]
  BY DEF SendDone, ZeroDone
<1>2. w \in Threads /\ UNCHANGED <<emptySession, net>> /\ k \in Serving
  BY DEF SendDone, ZeroDone, pool, Threads, Serving, Labels, Owning, Releasing
<1>3. /\ th[w].pc = "idle" /\ Alone(w) /\ th'[w].pc = k /\ th'[w].slot = s
      /\ th'[w].held = {"event"} /\ th'[w].batch = <<>>
  BY <1>1, <1>2, Begun
<1>4. TypeOK /\ Session \in [Slots -> SessionType]
  BY Parts DEF TypeOK
<1>5. /\ OnlyAt(s) /\ QueuesSame(s) /\ IdsSame /\ SocksSame /\ ~Quiet(s)
      /\ \/ Session'[s].RecvOver = Session[s].RecvOver
         \/ Session'[s].RecvOver = <<>> /\ NoneReads(w, s)
  <2>1. CASE \E i \in DOMAIN Session[s].RecvOver :
               Session' = [Session EXCEPT ![s].RecvOver = RemoveAt(@, i)]
    <3>1. PICK i \in DOMAIN Session[s].RecvOver :
               Session' = [Session EXCEPT ![s].RecvOver = RemoveAt(@, i)]
      BY <2>1
    <3>2. RemoveAt(Session[s].RecvOver, i) = <<>> /\ ~Quiet(s) /\ NoneReads(w, s)
      BY <1>2, RecvTaken
    <3>3. Session' = [Session EXCEPT ![s].RecvOver = <<>>]
      BY <3>1, <3>2
    <3> QED
      BY <1>4, <3>2, <3>3 DEF SessionType, OnlyAt, QueuesSame, IdsSame, SocksSame
  <2>2. CASE \E i \in DOMAIN Session[s].SendOver :
               Session' = [Session EXCEPT ![s].SendOver = RemoveAt(@, i)]
    <3>1. PICK x : Session' = [Session EXCEPT ![s].SendOver = x]
      BY <2>2
    <3>2. SessionAlike(s)
      BY <1>4, <3>1, SessionKeeps
    <3>3. ~Quiet(s)
      <4>1. DOMAIN Session[s].SendOver # {}
        BY <2>2
      <4> QED
        BY <4>1 DEF Quiet
    <3> QED
      BY <3>2, <3>3 DEF SessionAlike
  <2> QED
    BY <1>1, <2>1, <2>2
<1>6. PICK c : c = Session[s].SessionID
  OBVIOUS
<1>7. Touches(c) /\ c \in Conns
  BY <1>2, <1>5, <1>6, QuietNot, TouchesConn
<1>8. OwnCall(w)' /\ ~Reading(w)' /\ k \notin Batching
  BY <1>3 DEF OwnCall, Reading, Handling, Batching
<1>9. ASSUME Ordered(s) PROVE Ordered(s)'
  <2>1. ~Batcher(w, s) /\ ~Batcher(w, s)' /\ ~Handler(w, s) /\ ~Handler(w, s)'
    BY <1>3 DEF Batcher, Batching, Handler, Handling
  <2> QED
    BY <1>2, <1>3, <1>5, <1>9, <2>1, OrderedKept DEF IdsSame, ConnSame
<1>10. /\ Session'[s].RecvOver = Session[s].RecvOver \/ NoneReads(w, s)
       /\ Len(Session'[s].RecvOver) <= 1
       /\ \A i \in DOMAIN Session'[s].RecvOver : Session'[s].RecvOver[i] = c
  <2>1. CASE Session'[s].RecvOver = Session[s].RecvOver
    BY <1>2, <1>6, <2>1, ReadsAlone
  <2>2. CASE Session'[s].RecvOver = <<>> /\ NoneReads(w, s)
    BY <2>2
  <2> QED
    BY <1>5, <2>1, <2>2
<1> QED
  BY <1>2, <1>3, <1>5, <1>6, <1>7, <1>8, <1>9, <1>10, ServingStep

LEMMA UnitsJoined ==
  ASSUME NEW q \in Seq(Units), NEW a \in Seq(Units)
  PROVE  /\ q \o a \in Seq(Units) /\ Len(q \o a) = Len(q) + Len(a)
         /\ \A i \in 1 .. Len(q) + Len(a) :
              (q \o a)[i] = IF i <= Len(q) THEN q[i] ELSE a[i - Len(q)]
OBVIOUS

LEMMA UnitsAssociative ==
  ASSUME NEW q \in Seq(Units), NEW a \in Seq(Units), NEW b \in Seq(Units)
  PROVE  (q \o a) \o b = q \o (a \o b)
<1>1. Len(q) \in Nat /\ Len(a) \in Nat /\ Len(b) \in Nat
  OBVIOUS
<1>2. PICK x \in Seq(Units) :
        /\ x = q \o a /\ Len(x) = Len(q) + Len(a)
        /\ \A i \in 1 .. Len(q) + Len(a) : x[i] = IF i <= Len(q) THEN q[i] ELSE a[i - Len(q)]
  BY UnitsJoined
<1>3. PICK y \in Seq(Units) :
        /\ y = a \o b /\ Len(y) = Len(a) + Len(b)
        /\ \A i \in 1 .. Len(a) + Len(b) : y[i] = IF i <= Len(a) THEN a[i] ELSE b[i - Len(a)]
  BY UnitsJoined
<1>4. PICK v \in Seq(Units) :
        /\ v = x \o b /\ Len(v) = Len(x) + Len(b)
        /\ \A i \in 1 .. Len(x) + Len(b) : v[i] = IF i <= Len(x) THEN x[i] ELSE b[i - Len(x)]
  BY UnitsJoined
<1>5. PICK z \in Seq(Units) :
        /\ z = q \o y /\ Len(z) = Len(q) + Len(y)
        /\ \A i \in 1 .. Len(q) + Len(y) : z[i] = IF i <= Len(q) THEN q[i] ELSE y[i - Len(q)]
  BY UnitsJoined
<1>6. Len(v) = Len(z) /\ Len(v) \in Nat
  BY <1>1, <1>2, <1>3, <1>4, <1>5
<1>7. ASSUME NEW i \in 1 .. Len(v) PROVE v[i] = z[i]
  <2>1. CASE i <= Len(q)
    <3>1. v[i] = x[i] /\ x[i] = q[i]
      BY <1>1, <1>2, <1>4, <2>1
    <3>2. z[i] = q[i]
      BY <1>1, <1>5, <1>6, <2>1
    <3> QED
      BY <3>1, <3>2
  <2>2. CASE ~(i <= Len(q)) /\ i <= Len(q) + Len(a)
    <3>1. v[i] = a[i - Len(q)]
      BY <1>1, <1>2, <1>4, <1>6, <2>2
    <3>2. i - Len(q) \in 1 .. Len(a) + Len(b) /\ i - Len(q) <= Len(a)
      BY <1>1, <2>2
    <3>3. z[i] = y[i - Len(q)]
      BY <1>1, <1>3, <1>5, <1>6, <2>2
    <3> QED
      BY <1>3, <3>1, <3>2, <3>3
  <2>3. CASE ~(i <= Len(q) + Len(a))
    <3>1. v[i] = b[i - (Len(q) + Len(a))]
      BY <1>1, <1>2, <1>4, <1>6, <2>3
    <3>2. i - Len(q) \in 1 .. Len(a) + Len(b) /\ ~(i - Len(q) <= Len(a))
      BY <1>1, <1>2, <1>4, <2>3
    <3>3. z[i] = y[i - Len(q)]
      BY <1>1, <1>3, <1>5, <1>6, <2>3
    <3>4. y[i - Len(q)] = b[(i - Len(q)) - Len(a)]
      BY <1>3, <3>2
    <3>5. (i - Len(q)) - Len(a) = i - (Len(q) + Len(a))
      BY <1>1
    <3> QED
      BY <3>1, <3>3, <3>4, <3>5
  <2> QED
    BY <2>1, <2>2, <2>3
<1>8. v = [i \in 1 .. Len(v) |-> v[i]] /\ z = [i \in 1 .. Len(z) |-> z[i]]
  <2>1. v \in Seq(Units) /\ z \in Seq(Units)
    BY <1>4, <1>5
  <2> QED
    BY ONLY <2>1
<1>9. v = z
  BY <1>6, <1>7, <1>8
<1> QED
  BY <1>2, <1>3, <1>4, <1>5, <1>9

\* What is received moves from the connection to RecvQ.
LEMMA ReceivedJoins ==
  ASSUME NEW q \in Seq(Units), NEW r \in Seq(Units), NEW n \in 1 .. Len(r)
  PROVE  /\ (q \o SubSeq(r, 1, n)) \o SubSeq(r, n + 1, Len(r)) = q \o r
<1>1. Len(r) \in Nat
  OBVIOUS
<1>2. 1 \in 1 .. Len(r) + 1 /\ n \in 1 - 1 .. Len(r) /\ Len(r) \in n .. Len(r)
  BY <1>1
<1>3. SubSeq(r, 1, n) \in Seq(Units) /\ SubSeq(r, n + 1, Len(r)) \in Seq(Units)
  BY <1>1
<1>4. SubSeq(r, 1, n) \o SubSeq(r, n + 1, Len(r)) = SubSeq(r, 1, Len(r))
  BY <1>2, ConcatAdjacentSubSeq
<1>5. SubSeq(r, 1, Len(r)) = r
  BY <1>1
<1>6. (q \o SubSeq(r, 1, n)) \o SubSeq(r, n + 1, Len(r))
        = q \o (SubSeq(r, 1, n) \o SubSeq(r, n + 1, Len(r)))
  <2>1. PICK a \in Seq(Units), b \in Seq(Units) :
          a = SubSeq(r, 1, n) /\ b = SubSeq(r, n + 1, Len(r))
    BY <1>3
  <2>2. (q \o a) \o b = q \o (a \o b)
    BY UnitsAssociative
  <2> QED
    BY <2>1, <2>2
<1> QED
  BY <1>4, <1>5, <1>6

\* n units of what is under way on the connection c of slot s arrive in RecvQ, and worker w
\* goes on to read them.
Receives(w, s, c, q, r, n) ==
  /\ Begin(w, s, "Parse") /\ ~Quiet(s) /\ NoneReads(w, s) /\ InUse(s) /\ Busy(s)
  /\ c = Session[s].SessionID /\ q = Session[s].RecvQ /\ r = net[c].inbound /\ n \in 1 .. Len(r)
  /\ OnlyAt(s) /\ IdsSame /\ SocksSame /\ Session'[s].RecvOver = <<>>
  /\ Session'[s].SendQ = Session[s].SendQ /\ Session'[s].SendPack = Session[s].SendPack
  /\ Session'[s].SendFlag = Session[s].SendFlag /\ Session'[s].SendOver = Session[s].SendOver
  /\ Session'[s].RecvQ = q \o SubSeq(r, 1, n)
  /\ \A d \in Conns \ {c} : net'[d] = net[d]
  /\ net'[c].index = net[c].index /\ net'[c].joins = net[c].joins
  /\ net'[c].leaves = net[c].leaves /\ net'[c].asked = net[c].asked
  /\ net'[c].sock = net[c].sock /\ net'[c].wire = net[c].wire
  /\ net'[c].inbound = SubSeq(r, n + 1, Len(r))

LEMMA RecvDoneReceives ==
  ASSUME AccountsInv, Callers = {}, Served, NEW w \in Workers, RecvDone(w)
  PROVE  \E s \in Slots, c \in Conns, q \in Seq(Units), r \in Seq(Units), n \in Nat :
           Receives(w, s, c, q, r, n)
<1>1. PICK s \in Slots : \E i \in DOMAIN Session[s].RecvOver : \E n \in 1 .. RecvMax :
        LET c == Session[s].RecvOver[i] IN
        /\ Begin(w, s, "Parse")
        /\ n <= Len(net[c].inbound)
        /\ Session' = [Session EXCEPT ![s].RecvOver = RemoveAt(@, i),
                                      ![s].RecvQ = @ \o SubSeq(net[c].inbound, 1, n)]
        /\ net' = [net EXCEPT ![c].inbound = SubSeq(@, n + 1, Len(@))]
  BY Zenon DEF RecvDone
<1>2. PICK i \in DOMAIN Session[s].RecvOver : \E n \in 1 .. RecvMax :
        LET c == Session[s].RecvOver[i] IN
        /\ Begin(w, s, "Parse")
        /\ n <= Len(net[c].inbound)
        /\ Session' = [Session EXCEPT ![s].RecvOver = RemoveAt(@, i),
                                      ![s].RecvQ = @ \o SubSeq(net[c].inbound, 1, n)]
        /\ net' = [net EXCEPT ![c].inbound = SubSeq(@, n + 1, Len(@))]
  BY <1>1
<1>3. PICK n \in 1 .. RecvMax :
        LET c == Session[s].RecvOver[i] IN
        /\ Begin(w, s, "Parse")
        /\ n <= Len(net[c].inbound)
        /\ Session' = [Session EXCEPT ![s].RecvOver = RemoveAt(@, i),
                                      ![s].RecvQ = @ \o SubSeq(net[c].inbound, 1, n)]
        /\ net' = [net EXCEPT ![c].inbound = SubSeq(@, n + 1, Len(@))]
  BY <1>2
<1>4. w \in Threads
  BY DEF Threads
<1>6. /\ TypeOK /\ Session \in [Slots -> SessionType] /\ net \in [Ids -> ConnType]
      /\ Conns \subseteq Ids
  BY Parts, ConstantTypes DEF TypeOK
<1>7. /\ RemoveAt(Session[s].RecvOver, i) = <<>>
      /\ Session[s].RecvOver[i] = Session[s].SessionID
      /\ ~Quiet(s) /\ NoneReads(w, s)
  BY <1>4, RecvTaken
<1>8. InUse(s) /\ Busy(s)
  BY <1>7, QuietNot
<1>9. PICK c \in Conns : c = Session[s].SessionID
  BY <1>8, TouchesConn
<1>10. PICK q \in Seq(Units), r \in Seq(Units) : q = Session[s].RecvQ /\ r = net[c].inbound
  BY <1>6, SessionFields, ConnFields
<1>11. /\ n \in 1 .. Len(r)
       /\ Session' = [Session EXCEPT ![s].RecvOver = <<>>, ![s].RecvQ = q \o SubSeq(r, 1, n)]
       /\ net' = [net EXCEPT ![c].inbound = SubSeq(r, n + 1, Len(r))]
  BY <1>3, <1>7, <1>9, <1>10
<1>12. /\ OnlyAt(s) /\ IdsSame /\ SocksSame /\ Session'[s].RecvOver = <<>>
       /\ Session'[s].SendQ = Session[s].SendQ /\ Session'[s].SendPack = Session[s].SendPack
       /\ Session'[s].SendFlag = Session[s].SendFlag /\ Session'[s].SendOver = Session[s].SendOver
       /\ Session'[s].RecvQ = q \o SubSeq(r, 1, n)
  <2> DEFINE x == q \o SubSeq(r, 1, n)
  <2>1. Session' = [Session EXCEPT ![s].RecvOver = <<>>, ![s].RecvQ = x]
    BY <1>11
  <2> HIDE DEF x
  <2>2. /\ OnlyAt(s) /\ IdsSame /\ SocksSame /\ Session'[s].RecvOver = <<>>
        /\ Session'[s].SendQ = Session[s].SendQ /\ Session'[s].SendPack = Session[s].SendPack
        /\ Session'[s].SendFlag = Session[s].SendFlag
        /\ Session'[s].SendOver = Session[s].SendOver /\ Session'[s].RecvQ = x
    BY <1>6, <2>1 DEF SessionType, OnlyAt, IdsSame, SocksSame
  <2> QED
    BY <2>2 DEF x
<1>13. /\ \A d \in Conns \ {c} : net'[d] = net[d]
       /\ net'[c].index = net[c].index /\ net'[c].joins = net[c].joins
       /\ net'[c].leaves = net[c].leaves /\ net'[c].asked = net[c].asked
       /\ net'[c].sock = net[c].sock /\ net'[c].wire = net[c].wire
       /\ net'[c].inbound = SubSeq(r, n + 1, Len(r))
  <2> DEFINE x == SubSeq(r, n + 1, Len(r))
  <2>1. net' = [net EXCEPT ![c].inbound = x]
    BY <1>11
  <2> HIDE DEF x
  <2>2. /\ \A d \in Conns \ {c} : net'[d] = net[d]
        /\ net'[c].index = net[c].index /\ net'[c].joins = net[c].joins
        /\ net'[c].leaves = net[c].leaves /\ net'[c].asked = net[c].asked
        /\ net'[c].sock = net[c].sock /\ net'[c].wire = net[c].wire
        /\ net'[c].inbound = x
    BY <1>6, <2>1 DEF ConnType
  <2> QED
    BY <2>2 DEF x
<1>14. Begin(w, s, "Parse") /\ n \in Nat
  BY <1>3
<1> QED
  BY <1>7, <1>8, <1>9, <1>10, <1>11, <1>12, <1>13, <1>14 DEF Receives

LEMMA ServedRecvDone ==
  ASSUME AccountsInv, Callers = {}, Served, NEW w \in Workers, RecvDone(w)
  PROVE  Served'
<1>1. PICK s \in Slots, c \in Conns, q \in Seq(Units), r \in Seq(Units), n \in Nat :
        Receives(w, s, c, q, r, n)
  BY RecvDoneReceives
<1>4. w \in Threads /\ UNCHANGED emptySession /\ "Parse" \in Serving
  BY DEF RecvDone, pool, Threads, Serving, Labels, Owning, Releasing
<1>5. /\ th[w].pc = "idle" /\ Alone(w) /\ th'[w].pc = "Parse" /\ th'[w].slot = s
      /\ th'[w].held = {"event"} /\ th'[w].batch = <<>>
  BY <1>1, <1>4, Begun DEF Receives
<1>7. ~Quiet(s) /\ NoneReads(w, s)
  BY <1>1 DEF Receives
<1>9. c = Session[s].SessionID
  BY <1>1 DEF Receives
<1>10. q = Session[s].RecvQ /\ r = net[c].inbound
  BY <1>1 DEF Receives
<1>11. n \in 1 .. Len(r)
  BY <1>1 DEF Receives
<1>12. /\ OnlyAt(s) /\ IdsSame /\ SocksSame /\ Session'[s].RecvOver = <<>>
       /\ Session'[s].SendQ = Session[s].SendQ /\ Session'[s].RecvQ = q \o SubSeq(r, 1, n)
  BY <1>1 DEF Receives
<1>13. /\ \A d \in Conns \ {c} : net'[d] = net[d]
       /\ net'[c].index = net[c].index /\ net'[c].joins = net[c].joins
       /\ net'[c].leaves = net[c].leaves /\ net'[c].asked = net[c].asked
       /\ net'[c].sock = net[c].sock /\ net'[c].wire = net[c].wire
       /\ net'[c].inbound = SubSeq(r, n + 1, Len(r))
  BY <1>1 DEF Receives
<1>14. Touches(c)
  BY <1>9, <1>13 DEF Touches, Served, Wires
<1>15. OwnCall(w)'
  BY <1>5 DEF OwnCall, Handling
<1>16. ASSUME Ordered(s) PROVE Ordered(s)'
  <2>1. PICK m \in Nat : m <= net[c].asked + 1 /\ Outgoing(s, m) /\ Incoming(s, m)
    BY <1>9, <1>16 DEF Ordered
  <2>2. /\ ~Batcher(w, s) /\ ~Batcher(w, s)' /\ ~Handler(w, s) /\ ~Handler(w, s)'
        /\ Session'[s].SessionID = c
    BY <1>5, <1>9, <1>12 DEF Batcher, Batching, Handler, Handling, IdsSame
  <2>3. Outgoing(s, m)'
    BY <1>4, <1>5, <1>9, <1>12, <1>13, <2>1, <2>2, OutgoingKept
  <2>4. Session'[s].RecvQ \o net'[c].inbound = Session[s].RecvQ \o net[c].inbound
    <3>1. (q \o SubSeq(r, 1, n)) \o SubSeq(r, n + 1, Len(r)) = q \o r
      BY <1>11, ReceivedJoins
    <3> QED
      BY <1>10, <1>12, <1>13, <3>1
  <2>5. Incoming(s, m)'
    BY <1>4, <1>5, <1>9, <1>13, <2>1, <2>2, <2>4, IncomingKept
  <2> QED
    BY <1>13, <2>1, <2>2, <2>3, <2>5 DEF Ordered
<1>17. /\ Len(Session'[s].RecvOver) <= 1
       /\ \A j \in DOMAIN Session'[s].RecvOver : Session'[s].RecvOver[j] = c
  BY <1>12
<1> QED
  BY <1>4, <1>5, <1>7, <1>9, <1>12, <1>14, <1>15, <1>16, <1>17, ServingStep

\* A request is the first two units.
LEMMA UnitsLeft ==
  ASSUME NEW q \in Seq(Units), Len(q) >= 2
  PROVE  \E x \in Seq(Units) : /\ x = SubSeq(q, 3, Len(q)) /\ Len(x) = Len(q) - 2
                               /\ \A i \in 1 .. Len(q) - 2 : x[i] = q[i + 2]
<1> DEFINE p == SubSeq(q, 3, Len(q))
           a == Len(q)
<1>1. 3 \in Int /\ a \in Nat /\ a >= 2 /\ \A i \in 3 .. a : q[i] \in Units
  BY UnitNumbers
<1>2. /\ p \in Seq(Units) /\ Len(p) = (IF 3 <= a THEN a - 3 + 1 ELSE 0)
      /\ \A i \in 1 .. a - 3 + 1 : p[i] = q[3 + i - 1]
  BY <1>1, SubSeqProperties
<1> HIDE DEF p, a
<1>3. p \in Seq(Units) /\ Len(p) = a - 2 /\ \A i \in 1 .. a - 2 : p[i] = q[i + 2]
  BY <1>1, <1>2
<1> QED
  BY <1>3 DEF p, a

\* The packet loop takes a request out of the units received and under way.
LEMMA UnitsTaken ==
  ASSUME NEW q \in Seq(Units), NEW r \in Seq(Units), Len(q) >= 2
  PROVE  /\ q \o r \in Seq(Units) /\ Len(q \o r) >= 2
         /\ (q \o r)[1] = q[1] /\ (q \o r)[2] = q[2]
         /\ SubSeq(q, 3, Len(q)) \o r = SubSeq(q \o r, 3, Len(q \o r))
<1>1. Len(q) \in Nat /\ Len(r) \in Nat
  OBVIOUS
<1>2. PICK y \in Seq(Units) :
        /\ y = q \o r /\ Len(y) = Len(q) + Len(r)
        /\ \A i \in 1 .. Len(q) + Len(r) : y[i] = IF i <= Len(q) THEN q[i] ELSE r[i - Len(q)]
  BY UnitsJoined
<1>3. PICK x \in Seq(Units) :
        /\ x = SubSeq(q, 3, Len(q)) /\ Len(x) = Len(q) - 2
        /\ \A i \in 1 .. Len(q) - 2 : x[i] = q[i + 2]
  BY UnitsLeft
<1>4. PICK v \in Seq(Units) :
        /\ v = x \o r /\ Len(v) = Len(x) + Len(r)
        /\ \A i \in 1 .. Len(x) + Len(r) : v[i] = IF i <= Len(x) THEN x[i] ELSE r[i - Len(x)]
  BY UnitsJoined
<1>5. Len(y) >= 2 /\ y[1] = q[1] /\ y[2] = q[2]
  BY <1>1, <1>2
<1>6. PICK z \in Seq(Units) :
        /\ z = SubSeq(y, 3, Len(y)) /\ Len(z) = Len(y) - 2
        /\ \A i \in 1 .. Len(y) - 2 : z[i] = y[i + 2]
  BY <1>5, UnitsLeft
<1>7. Len(v) = Len(z) /\ Len(v) \in Nat
  BY <1>1, <1>2, <1>3, <1>4, <1>6
<1>8. ASSUME NEW i \in 1 .. Len(v) PROVE v[i] = z[i]
  <2>1. z[i] = y[i + 2]
    BY <1>1, <1>2, <1>6, <1>7
  <2>2. CASE i <= Len(q) - 2
    <3>1. v[i] = q[i + 2]
      BY <1>1, <1>3, <1>4, <2>2
    <3>2. y[i + 2] = q[i + 2]
      BY <1>1, <1>2, <2>2
    <3> QED
      BY <2>1, <3>1, <3>2
  <2>3. CASE ~(i <= Len(q) - 2)
    <3>1. v[i] = r[i - (Len(q) - 2)]
      BY <1>1, <1>3, <1>4, <2>3
    <3>2. y[i + 2] = r[(i + 2) - Len(q)]
      BY <1>1, <1>2, <1>3, <1>4, <2>3
    <3>3. (i + 2) - Len(q) = i - (Len(q) - 2)
      BY <1>1
    <3> QED
      BY <2>1, <3>1, <3>2, <3>3
  <2> QED
    BY <2>2, <2>3
<1>9. v = [i \in 1 .. Len(v) |-> v[i]] /\ z = [i \in 1 .. Len(z) |-> z[i]]
  <2>1. v \in Seq(Units) /\ z \in Seq(Units)
    BY <1>4, <1>6
  <2> QED
    BY ONLY <2>1
<1>10. v = z
  BY <1>7, <1>8, <1>9
<1> QED
  BY <1>2, <1>3, <1>4, <1>5, <1>6, <1>10

\* A request is taken out of RecvQ and handed to OnRecv, which calls with p.
Takes(w, s, c, p) ==
  /\ th[w].pc = "Parse" /\ s = th[w].slot /\ c = Session[s].SessionID
  /\ Len(Session[s].RecvQ) >= 2 /\ Session[s].RecvQ[1].kind = "head"
  /\ Session' = [Session EXCEPT ![s].RecvQ = SubSeq(@, 3, Len(@))]
  /\ th' = [th EXCEPT ![w].pc = "Find", ![w].arg = c, ![w].msg = p]
  /\ p = NoPack \/ p = <<c, Session[s].RecvQ[2].n>>
  /\ UNCHANGED <<net, emptySession>>

\* The packet loop has nothing to take and goes on to the next receive.
Waits(w) ==
  /\ th[w].pc = "Parse" /\ Goto(w, "PostRecv")
  /\ UNCHANGED net \/ ShutDown(Session[th[w].slot].sock)
  /\ UNCHANGED <<Session, emptySession>>

\* A request is taken out of RecvQ and OnRecv makes no call.
Skips(w, s) ==
  /\ th[w].pc = "Parse" /\ s = th[w].slot /\ Len(Session[s].RecvQ) >= 2
  /\ Session' = [Session EXCEPT ![s].RecvQ = SubSeq(@, 3, Len(@))]
  /\ UNCHANGED <<th, net, emptySession>>

LEMMA ParseKinds ==
  ASSUME NEW w, Parse(w)
  PROVE  \/ Waits(w)
         \/ \E s, c, p : Takes(w, s, c, p)
         \/ ~Echoes /\ \E s : Skips(w, s)
<1>1. th[w].pc = "Parse" /\ UNCHANGED emptySession
  BY DEF Parse, At, pool
<1>2. PICK s, c : s = th[w].slot /\ c = Session[s].SessionID
  OBVIOUS
<1>3. CASE ~(Len(Session[s].RecvQ) >= 2 /\ Session[s].RecvQ[1].kind = "head")
  BY <1>1, <1>2, <1>3 DEF Parse, Waits
<1>4. CASE Len(Session[s].RecvQ) >= 2 /\ Session[s].RecvQ[1].kind = "head"
  <2>1. /\ Session' = [Session EXCEPT ![s].RecvQ = SubSeq(@, 3, Len(@))]
        /\ UNCHANGED net
        /\ \/ Call(w, c, <<c, Session[s].RecvQ[2].n>>)
           \/ Call(w, c, NoPack)
           \/ "ignore" \in OnRecv /\ UNCHANGED th
    BY <1>2, <1>4 DEF Parse
  <2>2. CASE "ignore" \in OnRecv /\ UNCHANGED th
    BY <1>1, <1>2, <1>4, <2>1, <2>2 DEF Skips, Echoes
  <2>3. CASE Call(w, c, <<c, Session[s].RecvQ[2].n>>) \/ Call(w, c, NoPack)
    <3>1. PICK p : /\ th' = [th EXCEPT ![w].pc = "Find", ![w].arg = c, ![w].msg = p]
                   /\ p = NoPack \/ p = <<c, Session[s].RecvQ[2].n>>
      BY <2>3 DEF Call
    <3>2. Takes(w, s, c, p)
      BY <1>1, <1>2, <1>4, <2>1, <3>1 DEF Takes
    <3> QED
      BY <3>2
  <2> QED
    BY <2>1, <2>2, <2>3
<1> QED
  BY <1>3, <1>4

LEMMA ServedWaits ==
  ASSUME AccountsInv, Callers = {}, Served, NEW w \in Threads, Waits(w)
  PROVE  Served'
<1>1. TypeOK /\ th[w].slot \in Slots /\ Session[th[w].slot].sock \in Ids
  BY Parts, Typed, SessionFields
<1>2. Turns(w, "PostRecv", th[w].held)
  BY <1>1, ThreadTurns DEF Waits
<1>3. SessionAlike(th[w].slot)
  BY <1>1, SessionKeeps DEF Waits
<1>4. NetAlike
  BY <1>1, NetKeeps DEF Waits
<1> QED
  BY <1>2, <1>3, <1>4, OrdinaryTurn DEF Waits, Ordinary, ReadingAt

LEMMA ServedTakes ==
  ASSUME AccountsInv, Callers = {}, Served, NEW w \in Threads, NEW s, NEW c, NEW p,
         Takes(w, s, c, p)
  PROVE  Served'
<1>1. /\ th[w].pc = "Parse" /\ s = th[w].slot /\ c = Session[s].SessionID
      /\ UNCHANGED <<net, emptySession>> /\ th[w].pc \in Serving /\ "Find" \in Serving
  BY DEF Takes, Serving, Labels, Owning, Releasing
<1>2. TypeOK /\ s \in Slots /\ c \in Conns /\ Touches(c)
  BY <1>1, AtSession
<1>3. Session \in [Slots -> SessionType] /\ th \in [Threads -> ThreadType]
  BY <1>2 DEF TypeOK
<1>4. Stays(w, "Find") /\ th'[w].held = th[w].held /\ th'[w].batch = th[w].batch
      /\ th'[w].arg = c /\ th'[w].msg = p
  BY <1>3 DEF Takes, ThreadType, Stays, Alone
<1>5. PICK q \in Seq(Units), r \in Seq(Units) : q = Session[s].RecvQ /\ r = net[c].inbound
  BY <1>2, SessionFields, ConnFields, ConstantTypes DEF TypeOK
<1>6. /\ OnlyAt(s) /\ IdsSame /\ SocksSame /\ Session'[s].RecvOver = Session[s].RecvOver
      /\ Session'[s].SendQ = Session[s].SendQ /\ Session'[s].RecvQ = SubSeq(q, 3, Len(q))
  <2> DEFINE x == SubSeq(q, 3, Len(q))
  <2>1. Session' = [Session EXCEPT ![s].RecvQ = x]
    BY <1>5 DEF Takes
  <2> HIDE DEF x
  <2>2. /\ OnlyAt(s) /\ IdsSame /\ SocksSame /\ Session'[s].RecvOver = Session[s].RecvOver
        /\ Session'[s].SendQ = Session[s].SendQ /\ Session'[s].RecvQ = x
    BY <1>2, <1>3, <2>1 DEF SessionType, OnlyAt, IdsSame, SocksSame
  <2> QED
    BY <2>2 DEF x
<1>7. Reading(w) /\ NoneReads(w, s) /\ Session[s].RecvOver = <<>>
  <2>1. Reading(w)
    BY <1>1 DEF Reading
  <2> QED
    BY <1>1, <1>2, <2>1, ReadsAlone
<1>8. p # NoPack => p[1] = c
  BY DEF Takes
<1>9. OwnCall(w)'
  BY <1>1, <1>2, <1>4, <1>6, <1>8 DEF OwnCall, Stays, IdsSame
<1>10. th[w].batch = <<>>
  BY <1>1 DEF Served, Buffers, Buffer, Batching
<1>11. ASSUME Ordered(s) PROVE Ordered(s)'
  <2>1. PICK m \in Nat : m <= net[c].asked + 1 /\ Outgoing(s, m) /\ Incoming(s, m)
    BY <1>1, <1>11 DEF Ordered
  <2>2. /\ ~Batcher(w, s) /\ ~Batcher(w, s)' /\ Alone(w) /\ Handler(w, s)'
        /\ Session'[s].SessionID = c
    BY <1>1, <1>2, <1>4, <1>6 DEF Stays, Batcher, Batching, Handler, Handling, IdsSame
  <2>3. Outgoing(s, m)'
    BY <1>1, <1>2, <1>6, <2>1, <2>2, OutgoingKept
  <2>4. \A u \in Threads : ~Handler(u, s)
    <3>1. ASSUME NEW u \in Threads, Handler(u, s) PROVE FALSE
      <4>1. Reading(u) /\ th[u].slot = s
        BY <3>1, AtWork DEF Handler
      <4>2. u = w
        BY <1>7, <4>1 DEF NoneReads
      <4> QED
        BY <1>1, <3>1, <4>2 DEF Handler, Handling
    <3> QED
      BY <3>1
  <2>5. PICK k \in Nat : k = net[c].asked
    BY <1>2, ConnFields, ConstantTypes DEF TypeOK
  <2>6. Stream(q \o r, m, k)
    BY <1>1, <1>5, <2>1, <2>4, <2>5 DEF Incoming
  <2>7. Len(q) >= 2 /\ q[1].kind = "head" /\ (p = NoPack \/ p = <<c, q[2].n>>)
    BY <1>5 DEF Takes
  <2>8. PICK y : y = q \o r
    OBVIOUS
  <2>9. /\ y \in Seq(Units) /\ Len(y) >= 2 /\ y[1] = q[1] /\ y[2] = q[2]
        /\ SubSeq(q, 3, Len(q)) \o r = SubSeq(y, 3, Len(y))
    BY ONLY <2>7, <2>8, q \in Seq(Units), r \in Seq(Units), UnitsTaken
  <2>10. q[2].n = m /\ m <= k /\ Stream(SubSeq(q, 3, Len(q)) \o r, m + 1, k)
    <3>1. Stream(y, m, k) /\ y[1].kind = "head"
      BY <2>6, <2>7, <2>8, <2>9
    <3>2. y[2].n = m /\ m <= k /\ Stream(SubSeq(y, 3, Len(y)), m + 1, k)
      BY ONLY <2>9, <3>1, m \in Nat, k \in Nat, StreamTaken
    <3> QED
      BY <2>9, <3>2
  <2>11. Session'[s].RecvQ \o net'[c].inbound = SubSeq(q, 3, Len(q)) \o r
         /\ net'[c].asked = k
    BY <1>1, <1>5, <1>6, <2>5
  <2>12. \A u \in Threads : Handler(u, s)' => u = w
    BY <2>2, <2>4 DEF Alone, Handler
  <2>13. p # NoPack => p = <<c, m>>
    BY <2>7, <2>10
  <2>14. Incoming(s, m)'
    BY <1>4, <2>2, <2>10, <2>11, <2>12, <2>13, Zenon DEF Incoming
  <2> QED
    BY <1>1, <2>1, <2>2, <2>3, <2>14 DEF Ordered
<1> QED
  BY <1>1, <1>2, <1>4, <1>6, <1>7, <1>9, <1>10, <1>11, ReadsAlone, ServingStep
     DEF Stays

LEMMA ServedSkips ==
  ASSUME AccountsInv, Callers = {}, ~Echoes, Served, NEW w \in Threads, NEW s, Skips(w, s)
  PROVE  Served'
<1>1. /\ th[w].pc = "Parse" /\ s = th[w].slot /\ th[w].pc \in Serving
      /\ UNCHANGED <<th, net, emptySession>>
  BY DEF Skips, Serving, Labels, Owning, Releasing
<1>2. PICK c \in Conns : c = Session[s].SessionID
  BY <1>1, AtSession
<1>3. TypeOK /\ s \in Slots /\ Touches(c) /\ Session \in [Slots -> SessionType]
  BY <1>1, <1>2, AtSession DEF TypeOK
<1>4. /\ OnlyAt(s) /\ IdsSame /\ SocksSame /\ Session'[s].RecvOver = Session[s].RecvOver
  <2> DEFINE x == SubSeq(Session[s].RecvQ, 3, Len(Session[s].RecvQ))
  <2>1. Session' = [Session EXCEPT ![s].RecvQ = x]
    BY DEF Skips
  <2> HIDE DEF x
  <2> QED
    BY <1>3, <2>1 DEF SessionType, OnlyAt, IdsSame, SocksSame
<1>5. Reading(w) /\ NoneReads(w, s) /\ Session[s].RecvOver = <<>>
  <2>1. Reading(w)
    BY <1>1 DEF Reading
  <2> QED
    BY <1>1, <1>3, <2>1, ReadsAlone
<1>6. OwnCall(w)'
  BY <1>1 DEF OwnCall, Handling
<1>7. th[w].batch = <<>>
  BY <1>1 DEF Served, Buffers, Buffer, Batching
<1>8. Alone(w) /\ th'[w].slot = s /\ th'[w].pc = "Parse"
  BY <1>1 DEF Alone
<1> QED
  BY <1>1, <1>2, <1>3, <1>4, <1>5, <1>6, <1>7, <1>8, ServingStep

LEMMA ServedParse ==
  ASSUME AccountsInv, Callers = {}, Served, NEW w \in Workers, Parse(w)
  PROVE  Served'
<1>1. w \in Threads
  BY DEF Threads
<1> QED
  BY <1>1, ParseKinds, ServedWaits, ServedTakes, ServedSkips

-----------------------------------------------------------------------------
(* SessionRelease *)

\* A thread has a slot for itself: no other thread is at work in it.
LEMMA Owned ==
  ASSUME AccountsInv, Callers = {}, Served, NEW t \in Threads, th[t].pc \in Owning,
         NEW s, s = th[t].slot
  PROVE  /\ TypeOK /\ s \in Slots /\ Quiet(s) /\ s \notin ToSet(emptySession)
         /\ \A u \in Threads \ {t} : th[u].slot = s => th[u].pc \in {"idle", "done"}
         /\ ~Reading(t) /\ NoneReads(t, s) /\ th[t].batch = <<>>
         /\ \A u \in Threads : ~Handler(u, s) /\ ~Batcher(u, s)
         /\ \A u \in Threads \ {t} : ~Occupies(u, s)
<1>1. TypeOK /\ s \in Slots /\ Works(t, s)
  BY Parts, Typed DEF Works
<1>2. Quiet(s) /\ s \notin ToSet(emptySession) /\ \A u \in Threads \ {t} : ~Works(u, s)
  BY <1>1, Parts DEF Parted, OwnedSlots, FreeSlots, Lone
<1>3. \A u \in Threads \ {t} : th[u].slot = s => th[u].pc \in {"idle", "done"}
  BY <1>2, AtWork
<1>4. ~Reading(t)
  BY AtWork
<1>5. NoneReads(t, s)
  <2>1. ASSUME NEW u \in Threads, Reading(u) PROVE th[u].pc \notin {"idle", "done"}
    BY <2>1, AtWork
  <2> QED
    BY <1>3, <2>1 DEF NoneReads
<1>6. th[t].pc \notin Handling \cup Batching
  BY DEF Owning, Releasing, Handling, Batching
<1>7. th[t].batch = <<>>
  BY <1>6 DEF Served, Buffers, Buffer
<1>8. \A u \in Threads : ~Handler(u, s) /\ ~Batcher(u, s)
  BY <1>3, <1>6 DEF Handler, Batcher, Handling, Batching
<1>9. \A u \in Threads \ {t} : ~Occupies(u, s)
  BY <1>3 DEF Occupies, Fill, Ided, Emptying
<1> QED
  BY <1>1, <1>2, <1>3, <1>4, <1>5, <1>7, <1>8, <1>9

LEMMA BusyElsewhere ==
  ASSUME NEW t \in Threads, Alone(t), NEW s, ToSet(emptySession)' \ {s} = ToSet(emptySession) \ {s},
         th[t].slot = s \/ th[t].pc \notin Fill \cup Emptying,
         th'[t].slot = s \/ th'[t].pc \notin Fill \cup Emptying,
         NEW x, x # s
  PROVE  Busy(x)' <=> Busy(x)
<1>1. \A u \in Threads : Occupies(u, x)' <=> Occupies(u, x)
  BY DEF Occupies, Alone
<1>2. x \in ToSet(emptySession)' <=> x \in ToSet(emptySession)
  OBVIOUS
<1> QED
  BY <1>1, <1>2 DEF Busy

\* A step in slot s on connection e.
LEMMA StagesAt ==
  ASSUME TypeOK, Stages, NEW s \in Slots, NEW e,
         \A x \in Slots \ {s} : /\ Session'[x].SessionID = Session[x].SessionID
                                /\ Busy(x)' <=> Busy(x),
         \A d \in Conns \ {e} : /\ net'[d].index = net[d].index /\ net'[d].joins = net[d].joins
                                /\ net'[d].leaves = net[d].leaves
                                /\ Session'[s].SessionID = d /\ Busy(s)'
                                     <=> Session[s].SessionID = d /\ Busy(s),
         e \in Conns =>
           /\ net'[e].index = s
           /\ net'[e].joins \in {0, 1} /\ net'[e].leaves \in 0 .. net'[e].joins
           /\ net'[e].joins = 1 /\ net'[e].leaves = 0 <=> Session'[s].SessionID = e /\ Busy(s)',
         th'[Acceptor].pc \in Fill =>
           th'[Acceptor].arg \in Conns /\ net'[th'[Acceptor].arg].joins = 0,
         th'[Acceptor].pc \in Ided =>
           Session'[th'[Acceptor].slot].SessionID = th'[Acceptor].arg
  PROVE  Stages'
<1>1. ASSUME NEW d \in Conns
      PROVE  /\ net'[d].joins \in {0, 1} /\ net'[d].leaves \in 0 .. net'[d].joins
             /\ net'[d].joins = 1 /\ net'[d].leaves = 0
                  <=> Session'[net'[d].index].SessionID = d /\ Busy(net[d].index)'
  <2>1. CASE d = e
    <3>1. Busy(net[d].index)' <=> Busy(s)'
      BY <2>1
    <3> QED
      BY <2>1, <3>1
  <2>2. CASE d # e
    <3>1. PICK x \in Slots : x = net[d].index
      BY ConnFields, ConstantTypes DEF TypeOK
    <3>2. /\ net'[d].index = x /\ net'[d].joins = net[d].joins
          /\ net'[d].leaves = net[d].leaves
      BY <2>2, <3>1
    <3>3. /\ net[d].joins \in {0, 1} /\ net[d].leaves \in 0 .. net[d].joins
          /\ net[d].joins = 1 /\ net[d].leaves = 0 <=> Session[x].SessionID = d /\ Busy(x)
      BY <3>1 DEF Stages
    <3>4. Busy(net[d].index)' <=> Busy(x)'
      BY <3>2
    <3>5. Session'[x].SessionID = d /\ Busy(x)' <=> Session[x].SessionID = d /\ Busy(x)
      BY <2>2
    <3> QED
      BY <3>2, <3>3, <3>4, <3>5
  <2> QED
    BY <2>1, <2>2
<1> QED
  BY <1>1 DEF Stages

LEMMA ServedLeave ==
  ASSUME AccountsInv, Callers = {}, Served, NEW t \in Threads, Leave(t)
  PROVE  Served'
<1>1. /\ th[t].pc = "Leave" /\ th[t].pc \in Owning /\ UNCHANGED <<Session, emptySession>>
      /\ th' = [th EXCEPT ![t].pc = "Close"]
  BY DEF Leave, Step, At, Goto, pool, Owning, Releasing
<1>2. PICK s : s = th[t].slot
  OBVIOUS
<1>3. /\ TypeOK /\ s \in Slots /\ Quiet(s) /\ s \notin ToSet(emptySession)
      /\ ~Reading(t) /\ NoneReads(t, s) /\ th[t].batch = <<>>
      /\ \A u \in Threads : ~Handler(u, s) /\ ~Batcher(u, s)
      /\ \A u \in Threads \ {t} : ~Occupies(u, s)
  BY <1>1, <1>2, Owned
<1>4. th \in [Threads -> ThreadType] /\ Session \in [Slots -> SessionType]
  BY <1>3 DEF TypeOK
<1>5. Turns(t, "Close", th[t].held)
  BY <1>1, <1>3, ThreadTurns DEF Goto
<1>6. SessionAlike(s)
  BY <1>1, <1>3, SessionKeeps
<1>7. InUse(s) /\ Busy(s)
  <2>1. InUse(s)
    BY <1>1, <1>2, Parts DEF Parted, ClosingSlots, Releasing
  <2>2. ~Occupies(t, s)
    BY <1>1 DEF Occupies, Fill, Ided, Emptying
  <2> QED
    BY <1>3, <2>1, <2>2 DEF Busy
<1>8. PICK c \in Conns : c = Session[s].SessionID
  BY <1>3, <1>7, SessionConn
<1>9. /\ net[c].index = s /\ net[c].joins = 1 /\ net[c].leaves = 0
  BY <1>3, <1>7, <1>8, SessionConn, Present DEF Served
<1>10. /\ \A d \in Conns \ {c} : net'[d] = net[d]
       /\ net'[c].index = s /\ net'[c].joins = 1 /\ net'[c].leaves = 1
       /\ ConnSame(c) /\ net'[c].sock = net[c].sock
  <2>1. net' = [net EXCEPT ![c].leaves = 1]
    <3>1. net' = [net EXCEPT ![c].leaves = @ + 1]
      BY <1>2, <1>8 DEF Leave
    <3> QED
      BY <1>9, <3>1
  <2>2. net \in [Ids -> ConnType] /\ c \in Ids /\ Conns \subseteq Ids
    BY <1>3, ConstantTypes DEF TypeOK
  <2> QED
    BY <1>9, <2>1, <2>2 DEF ConnType, ConnSame
<1>11. ~Busy(s)'
  BY <1>2, <1>5 DEF Busy, Occupies, Turns, Stays, Emptying
<1>12. Stages'
  <2>1. \A x \in Slots \ {s} : /\ Session'[x].SessionID = Session[x].SessionID
                               /\ Busy(x)' <=> Busy(x)
    BY <1>1, <1>2, <1>5, BusyElsewhere DEF Turns, Stays
  <2>2. \A d \in Conns \ {c} : /\ net'[d].index = net[d].index /\ net'[d].joins = net[d].joins
                               /\ net'[d].leaves = net[d].leaves
                               /\ Session'[s].SessionID = d /\ Busy(s)'
                                     <=> Session[s].SessionID = d /\ Busy(s)
    BY <1>1, <1>8, <1>10
  <2>3. th'[Acceptor].pc \in Fill => t # Acceptor /\ th'[Acceptor] = th[Acceptor]
    BY <1>5, ConstantTypes DEF Turns, Stays, Alone, Fill, Ided
  <2>4. \A d \in Conns : net'[d].joins = net[d].joins
    BY <1>9, <1>10
  <2>5. th'[Acceptor].pc \in Fill =>
          th'[Acceptor].arg \in Conns /\ net'[th'[Acceptor].arg].joins = 0
    BY <2>3, <2>4 DEF Served, Stages
  <2>6. th'[Acceptor].pc \in Ided => Session'[th'[Acceptor].slot].SessionID = th'[Acceptor].arg
    BY <1>1, <2>3 DEF Served, Stages, Fill
  <2> QED
    BY <1>3, <1>10, <1>11, <2>1, <2>2, <2>5, <2>6, StagesAt DEF Served
<1>13. Sockets'
  <2>1. \A x \in Slots : \A i \in DOMAIN Session'[x].RecvOver :
          Session'[x].RecvOver[i] = Session[x].SessionID
    BY <1>1 DEF Served, Sockets
  <2> QED
    BY <1>1, <1>3, <1>5, <1>6, <2>1, SocketsStep DEF Served, SessionAlike, Turns, Stays
<1>14. OneReader'
  <2>1. ~Reading(t)'
    BY <1>3, <1>5 DEF Reading, Turns, Stays
  <2> QED
    BY <1>3, <1>5, <1>6, <2>1, ReadsAlone, OneReaderStep DEF Served, SessionAlike, Turns, Stays
<1>15. OwnCalls'
  <2>1. OwnCall(t)'
    BY <1>5 DEF OwnCall, Turns, Stays, Handling
  <2> QED
    BY <1>3, <1>5, <1>6, <2>1, OwnCallsStep DEF Served, SessionAlike, Turns, Stays
<1>16. Buffers'
  <2>1. Buffer(t)'
    BY <1>3, <1>5 DEF Buffer, Turns, Stays, Fill, Ided, Emptied
  <2> QED
    BY <1>1, <1>3, <1>5, <1>6, <2>1, Parts, BuffersStep DEF Served, SessionAlike, Turns, Stays
<1>17. Wires'
  BY <1>9, <1>10 DEF Served, Wires, ConnSame
<1>18. Answers'
  <2>1. ElsewhereSame(s)
    BY <1>8, <1>10 DEF ElsewhereSame, ConnSame
  <2> QED
    BY <1>1, <1>2, <1>3, <1>5, <1>6, <1>11, <2>1, AnswersStep
       DEF Served, Open, SessionAlike, Turns, Stays
<1> QED
  BY <1>12, <1>13, <1>14, <1>15, <1>16, <1>17, <1>18 DEF Served

\* A thread goes on emptying its slot.
LEMMA EmptyingStep ==
  ASSUME AccountsInv, Callers = {}, Served, NEW t \in Threads, NEW s, s = th[t].slot,
         th[t].pc \in {"Close", "DrainQ"}, NEW k \in {"DrainQ", "DrainPack"},
         Turns(t, k, th[t].held), OnlyAt(s), IdsSame, SocksSame, UNCHANGED emptySession,
         Session'[s].RecvOver = Session[s].RecvOver, Session'[s].RecvQ = <<>>,
         k = "DrainPack" => Session'[s].SendQ = <<>>,
         CallbacksSame, \A c \in Conns : ConnSame(c),
         \A c \in Conns : net'[c].sock = "open" => net[c].sock = "open"
  PROVE  Served'
<1>1. /\ th[t].pc \in Owning /\ th[t].pc \in Emptying /\ k \in Emptying
      /\ Works(t, s)
  BY DEF Owning, Releasing, Emptying, Works
<1>2. /\ TypeOK /\ s \in Slots /\ Quiet(s) /\ s \notin ToSet(emptySession)
      /\ ~Reading(t) /\ NoneReads(t, s) /\ th[t].batch = <<>>
  BY <1>1, Owned
<1>3. /\ Alone(t) /\ th'[t].slot = s /\ th'[t].pc = k /\ th'[t].held = th[t].held
      /\ th'[t].batch = <<>>
  BY <1>2 DEF Turns, Stays
<1>4. Occupies(t, s) /\ Occupies(t, s)' /\ ~Open(s)'
  BY <1>1, <1>3 DEF Occupies, Open, Busy
<1>5. /\ th'[t].pc \notin Fill
      /\ th'[t].pc \notin Ided /\ th[t].pc # "SetID" /\ th'[t].pc # "SetID"
  BY <1>3 DEF Fill, Ided
<1>6. ~Reading(t)'
  BY <1>2, <1>3 DEF Reading
<1>7. OwnCall(t)'
  BY <1>3 DEF OwnCall, Handling
<1>8. Buffer(t)'
  BY <1>3, <1>5 DEF Buffer, Emptied
<1>9. Wires'
  BY DEF Served, Wires, ConnSame, CallbacksSame
<1>10. ElsewhereSame(s)
  BY DEF ElsewhereSame
<1>11. /\ Len(Session'[s].RecvOver) <= 1
       /\ \A i \in DOMAIN Session'[s].RecvOver :
            Session'[s].RecvOver[i] = Session[s].SessionID
  BY <1>2, ReadsAlone
<1>12. ToSet(emptySession)' = ToSet(emptySession)
  BY DEF ToSet
<1> QED
  BY <1>1, <1>2, <1>3, <1>4, <1>5, <1>6, <1>7, <1>8, <1>9, <1>10, <1>11, <1>12, WorkStep

LEMMA ServedClose ==
  ASSUME AccountsInv, Callers = {}, Served, NEW t \in Threads, Close(t)
  PROVE  Served'
<1>1. /\ th[t].pc = "Close" /\ th[t].pc \in Owning /\ Goto(t, "DrainQ")
      /\ UNCHANGED emptySession
  BY DEF Close, Step, At, pool, Owning, Releasing
<1>2. PICK s : s = th[t].slot
  OBVIOUS
<1>3. TypeOK /\ s \in Slots /\ Session[s].sock \in Ids
  BY <1>1, <1>2, Owned, SessionFields DEF TypeOK
<1>4. Session \in [Slots -> SessionType] /\ net \in [Ids -> ConnType] /\ Conns \subseteq Ids
  BY <1>3, ConstantTypes DEF TypeOK
<1>5. Turns(t, "DrainQ", th[t].held)
  BY <1>1, <1>3, ThreadTurns
<1>6. /\ OnlyAt(s) /\ IdsSame /\ SocksSame /\ Session'[s].RecvOver = Session[s].RecvOver
      /\ Session'[s].RecvQ = <<>>
  <2>1. Session' = [Session EXCEPT ![s].RecvQ = <<>>]
    BY <1>2 DEF Close
  <2> QED
    BY <1>3, <1>4, <2>1 DEF SessionType, OnlyAt, IdsSame, SocksSame
<1>7. /\ CallbacksSame /\ \A c \in Conns : ConnSame(c)
      /\ \A c \in Conns : net'[c].sock = "open" => net[c].sock = "open"
  <2>1. PICK e \in Ids : net' = [net EXCEPT ![e].sock = "closed"]
    BY <1>2, <1>3 DEF Close
  <2> QED
    BY <1>4, <2>1 DEF ConnType, CallbacksSame, ConnSame
<1> QED
  BY <1>1, <1>2, <1>5, <1>6, <1>7, EmptyingStep

LEMMA ServedDrainQ ==
  ASSUME AccountsInv, Callers = {}, Served, NEW t \in Threads, DrainQ(t)
  PROVE  Served'
<1>1. /\ th[t].pc = "DrainQ" /\ th[t].pc \in Owning
      /\ UNCHANGED <<emptySession, net>>
  BY DEF DrainQ, Step, At, pool, Owning, Releasing
<1>2. PICK s : s = th[t].slot
  OBVIOUS
<1>3. TypeOK /\ s \in Slots
  BY <1>1, <1>2, Owned
<1>4. Session \in [Slots -> SessionType]
  BY <1>3 DEF TypeOK
<1>5. Session[s].RecvQ = <<>>
  BY <1>1, <1>2 DEF Served, Buffers, Buffer
<1>6. CallbacksSame /\ \A c \in Conns : ConnSame(c)
  BY <1>1 DEF CallbacksSame, ConnSame
<1>7. CASE Session[s].SendQ = <<>> /\ Goto(t, "DrainPack") /\ UNCHANGED Session
  <2>1. Turns(t, "DrainPack", th[t].held)
    BY <1>3, <1>7, ThreadTurns
  <2>2. SessionAlike(s)
    BY <1>3, <1>7, SessionKeeps
  <2>3. Session'[s].RecvQ = <<>> /\ Session'[s].SendQ = <<>>
    BY <1>5, <1>7
  <2> QED
    BY <1>1, <1>2, <1>6, <2>1, <2>2, <2>3, EmptyingStep DEF SessionAlike
<1>8. CASE Session' = [Session EXCEPT ![s].SendQ = Tail(@)] /\ UNCHANGED th
  <2>1. Turns(t, "DrainQ", th[t].held)
    BY <1>1, <1>3, <1>8, ThreadTurns
  <2>2. /\ OnlyAt(s) /\ IdsSame /\ SocksSame /\ Session'[s].RecvOver = Session[s].RecvOver
        /\ Session'[s].RecvQ = Session[s].RecvQ
    <3> DEFINE x == Tail(Session[s].SendQ)
    <3>1. Session' = [Session EXCEPT ![s].SendQ = x]
      BY <1>8
    <3> HIDE DEF x
    <3> QED
      BY <1>3, <1>4, <3>1 DEF SessionType, OnlyAt, IdsSame, SocksSame
  <2> QED
    BY <1>1, <1>2, <1>5, <1>6, <2>1, <2>2, EmptyingStep
<1>9. \/ Session[s].SendQ = <<>> /\ Goto(t, "DrainPack") /\ UNCHANGED Session
      \/ Session' = [Session EXCEPT ![s].SendQ = Tail(@)] /\ UNCHANGED th
  BY <1>2 DEF DrainQ, Step
<1> QED
  BY <1>7, <1>8, <1>9

LEMMA ServedPushSlot ==
  ASSUME AccountsInv, Callers = {}, Served, NEW t \in Threads, PushSlot(t)
  PROVE  Served'
<1>1. /\ th[t].pc = "PushSlot" /\ th[t].pc \in Owning /\ UNCHANGED <<Session, net>>
      /\ Goto(t, th[t].back)
  BY DEF PushSlot, Step, At, Owning, Releasing
<1>2. PICK s : s = th[t].slot
  OBVIOUS
<1>3. /\ TypeOK /\ s \in Slots /\ Quiet(s)
      /\ ~Reading(t) /\ NoneReads(t, s) /\ th[t].batch = <<>>
  BY <1>1, <1>2, Owned
<1>4. th[t].back = "idle" /\ InUse(s)
  BY <1>1, <1>2, Parts DEF Parted, ClosingSlots, Releasing
<1>5. Turns(t, "idle", th[t].held)
  BY <1>1, <1>3, <1>4, ThreadTurns
<1>6. SessionAlike(s)
  BY <1>1, <1>3, SessionKeeps
<1>7. emptySession' = Append(emptySession, s) /\ emptySession \in Seq(Slots)
  BY <1>2, <1>3, <1>4, SessionConn DEF PushSlot, TypeOK
<1>8. ToSet(emptySession)' = ToSet(emptySession) \cup {s}
  BY <1>3, <1>7 DEF ToSet
<1>9. ~Busy(s) /\ ~Busy(s)'
  BY <1>1, <1>2, <1>8 DEF Busy, Occupies, Emptying
<1>10. Stages'
  <2>1. \A x \in Slots \ {s} : /\ Session'[x].SessionID = Session[x].SessionID
                               /\ Busy(x)' <=> Busy(x)
    <3>1. ToSet(emptySession)' \ {s} = ToSet(emptySession) \ {s}
      BY <1>8
    <3> QED
      BY <1>1, <1>2, <1>5, <3>1, BusyElsewhere DEF Turns, Stays
  <2>2. \A d \in Conns \ {NoConn} :
          /\ net'[d].index = net[d].index /\ net'[d].joins = net[d].joins
          /\ net'[d].leaves = net[d].leaves
          /\ Session'[s].SessionID = d /\ Busy(s)' <=> Session[s].SessionID = d /\ Busy(s)
    BY <1>1, <1>9
  <2>3. th'[Acceptor].pc \in Fill => t # Acceptor /\ th'[Acceptor] = th[Acceptor]
    BY <1>5, ConstantTypes DEF Turns, Stays, Alone, Fill, Ided
  <2>4. th'[Acceptor].pc \in Fill =>
          th'[Acceptor].arg \in Conns /\ net'[th'[Acceptor].arg].joins = 0
    BY <1>1, <2>3 DEF Served, Stages
  <2>5. th'[Acceptor].pc \in Ided => Session'[th'[Acceptor].slot].SessionID = th'[Acceptor].arg
    BY <1>1, <2>3 DEF Served, Stages, Fill
  <2>6. NoConn \notin Conns
    BY DEF Conns, NoConn
  <2> QED
    BY <1>3, <2>1, <2>2, <2>4, <2>5, <2>6, StagesAt DEF Served
<1>11. Sockets'
  <2>1. \A x \in Slots : \A i \in DOMAIN Session'[x].RecvOver :
          Session'[x].RecvOver[i] = Session[x].SessionID
    BY <1>1 DEF Served, Sockets
  <2> QED
    BY <1>1, <1>3, <1>5, <1>6, <2>1, SocketsStep
       DEF Served, SessionAlike, Turns, Stays
<1>12. OneReader'
  <2>1. ~Reading(t)'
    BY <1>3, <1>5 DEF Reading, Turns, Stays
  <2> QED
    BY <1>3, <1>5, <1>6, <2>1, ReadsAlone, OneReaderStep DEF Served, SessionAlike, Turns, Stays
<1>13. OwnCalls'
  <2>1. OwnCall(t)'
    BY <1>5 DEF OwnCall, Turns, Stays, Handling
  <2> QED
    BY <1>3, <1>5, <1>6, <2>1, OwnCallsStep DEF Served, SessionAlike, Turns, Stays
<1>14. Buffers'
  <2>1. Buffer(t)'
    BY <1>3, <1>5 DEF Buffer, Turns, Stays, Fill, Ided, Emptied
  <2>2. ASSUME NEW u \in Threads PROVE Buffer(u)'
    <3>1. CASE u = t
      BY <2>1, <3>1
    <3>2. CASE u # t
      <4>1. Buffer(u) /\ th'[u] = th[u]
        BY <1>5, <3>2 DEF Served, Buffers, Turns, Stays, Alone
      <4> QED
        BY <1>1, <4>1 DEF Buffer
    <3> QED
      BY <3>1, <3>2
  <2>3. Session[s].RecvQ = <<>> /\ Session[s].SendQ = <<>>
    BY <1>1, <1>2 DEF Served, Buffers, Buffer, Emptied
  <2> QED
    BY <1>1, <1>8, <2>2, <2>3 DEF Served, Buffers
<1>15. Wires'
  BY <1>1 DEF Served, Wires
<1>16. Answers'
  <2>1. ElsewhereSame(s)
    BY <1>1 DEF ElsewhereSame, ConnSame
  <2>2. ToSet(emptySession) \ {s} \subseteq ToSet(emptySession)'
    BY <1>8
  <2> QED
    BY <1>2, <1>3, <1>5, <1>6, <1>9, <2>1, <2>2, AnswersStep
       DEF Served, Open, SessionAlike, Turns, Stays
<1> QED
  BY <1>10, <1>11, <1>12, <1>13, <1>14, <1>15, <1>16 DEF Served

-----------------------------------------------------------------------------
(* AcceptThread *)

\* No slot is free: the socket of connection c is closed.
AcceptsNone(c) ==
  /\ th[Acceptor].pc = "idle" /\ net[c].sock = "none"
  /\ net' = [net EXCEPT ![c].sock = "closed"] /\ Goto(Acceptor, "done")
  /\ UNCHANGED <<Session, emptySession>>

\* Connection c is accepted into slot s.
AcceptsInto(c, s) ==
  /\ th[Acceptor].pc = "idle" /\ net[c].sock = "none"
  /\ emptySession # <<>> /\ s = Last(emptySession) /\ emptySession' = Front(emptySession)
  /\ net' = [net EXCEPT ![c].sock = "open", ![c].index = s]
  /\ th' = [th EXCEPT ![Acceptor].slot = s, ![Acceptor].arg = c, ![Acceptor].pc = "TakeSlot"]
  /\ UNCHANGED Session

LEMMA AcceptsOr ==
  ASSUME Accept
  PROVE  \E c \in Conns : AcceptsNone(c) \/ \E s : AcceptsInto(c, s)
<1>1. /\ th[Acceptor].pc = "idle" /\ UNCHANGED Session
  BY DEF Accept, At
<1>2. PICK c \in Conns :
        /\ net[c].sock = "none"
        /\ \/ /\ net' = [net EXCEPT ![c].sock = "closed"]
              /\ Goto(Acceptor, "done")
              /\ UNCHANGED emptySession
           \/ /\ emptySession # <<>>
              /\ net' = [net EXCEPT ![c].sock = "open", ![c].index = Last(emptySession)]
              /\ emptySession' = Front(emptySession)
              /\ th' = [th EXCEPT ![Acceptor].slot = Last(emptySession),
                                  ![Acceptor].arg = c, ![Acceptor].pc = "TakeSlot"]
  BY DEF Accept
<1> QED
  BY <1>1, <1>2 DEF AcceptsNone, AcceptsInto

LEMMA ServedAcceptsNone ==
  ASSUME AccountsInv, Callers = {}, Served, NEW c \in Conns, AcceptsNone(c)
  PROVE  Served'
<1>1. PICK t \in Threads : t = Acceptor
  BY ConstantTypes
<1>2. PICK s \in Slots : s = th[t].slot
  BY Parts, Typed
<1>3. /\ TypeOK /\ th[t].pc = "idle" /\ net[c].sock = "none"
      /\ UNCHANGED <<Session, emptySession>>
  BY <1>1, Parts DEF AcceptsNone
<1>4. Turns(t, "done", th[t].held)
  BY <1>1, <1>3, ThreadTurns DEF AcceptsNone
<1>5. SessionAlike(s)
  BY <1>3, SessionKeeps
<1>6. /\ \A d \in Conns \ {c} : net'[d] = net[d]
      /\ net'[c].index = net[c].index /\ net'[c].joins = net[c].joins
      /\ net'[c].leaves = net[c].leaves /\ ConnSame(c)
  <2>1. net \in [Ids -> ConnType] /\ c \in Ids /\ Conns \subseteq Ids
    BY <1>3, ConstantTypes DEF TypeOK
  <2> QED
    BY <2>1 DEF AcceptsNone, ConnType, ConnSame
<1>7. CallbacksSame /\ \A d \in Conns : ConnSame(d)
  BY <1>6 DEF CallbacksSame, ConnSame
<1>8. Wires'
  BY <1>7 DEF Served, Wires, CallbacksSame, ConnSame
<1>9. ElsewhereSame(s)
  BY <1>3, <1>6, <1>7 DEF ElsewhereSame
<1>10. ~Handler(t, s) /\ ~Batcher(t, s) /\ ~Handler(t, s)' /\ ~Batcher(t, s)'
  BY <1>3, <1>4 DEF Handler, Batcher, Handling, Batching, Turns, Stays
<1>11. ~Occupies(t, s) /\ ~Occupies(t, s)'
  BY <1>3, <1>4 DEF Occupies, Fill, Ided, Emptying, Turns, Stays
<1>12. Open(s)' => Ordered(s)'
  <2>1. Busy(s)' <=> Busy(s)
    <3>1. \A u \in Threads : Occupies(u, s)' <=> Occupies(u, s)
      BY <1>4, <1>11 DEF Occupies, Turns, Stays, Alone
    <3> QED
      BY <1>3, <3>1 DEF Busy
  <2>2. InUse(s)' <=> InUse(s)
    BY <1>3 DEF InUse
  <2>3. InUse(s) => Session[s].SessionID \in Conns /\ Session[s].SessionID # c
    BY <1>3, SessionConn
  <2>4. Open(s)' => Open(s)
    BY <1>3, <1>6, <2>1, <2>2, <2>3 DEF Open
  <2>5. Open(s) => Ordered(s)
    BY DEF Served, Answers
  <2>6. Open(s) => Session[s].SessionID \in Conns
    BY <2>3 DEF Open
  <2> QED
    BY <1>3, <1>4, <1>5, <1>7, <1>10, <2>4, <2>5, <2>6, OrderedKept
       DEF SessionAlike, IdsSame, Turns, Stays
<1>13. ~Reading(t)'
  <2>1. ~Reading(t)
    BY <1>3, AtWork
  <2> QED
    BY <1>4, <2>1 DEF Reading, Turns, Stays
<1>14. OwnCall(t)' /\ Buffer(t)'
  <2>1. th[t].batch = <<>>
    BY <1>3 DEF Served, Buffers, Buffer, Batching
  <2> QED
    BY <1>4, <2>1 DEF OwnCall, Buffer, Handling, Fill, Ided, Emptied, Turns, Stays
<1>15. /\ th'[t].pc \notin Fill /\ th'[t].pc \notin Ided /\ th[t].pc # "SetID"
       /\ th'[t].pc # "SetID"
  BY <1>3, <1>4 DEF Fill, Ided, Turns, Stays
<1>16. ToSet(emptySession)' = ToSet(emptySession)
  BY <1>3 DEF ToSet
<1> QED
  BY <1>2, <1>3, <1>4, <1>5, <1>7, <1>8, <1>9, <1>11, <1>12, <1>13, <1>14, <1>15, <1>16,
     ReadsAlone, WorkStep DEF SessionAlike, Turns, Stays

\* A step of the accept thread that does not touch what has been asked and answered.
LEMMA FillingStep ==
  ASSUME AccountsInv, Callers = {}, Served, NEW s \in Slots, NEW l \in Fill \cup {"idle"},
         th[Acceptor].pc = l, l # "idle" => s = th[Acceptor].slot,
         NEW k \in Fill, th'[Acceptor].slot = s, th'[Acceptor].pc = k,
         th'[Acceptor].batch = th[Acceptor].batch, Alone(Acceptor),
         OnlyAt(s), QueuesSame(s), Session'[s].RecvOver = Session[s].RecvOver,
         Session[s].RecvQ = <<>>, Session[s].SendQ = <<>>, Quiet(s),
         Stages', Sockets', "call" \notin th'[Acceptor].held,
         \A c \in Conns : ConnSame(c) /\ net'[c].joins = net[c].joins,
         ToSet(emptySession)' \subseteq ToSet(emptySession),
         ToSet(emptySession) \ {s} \subseteq ToSet(emptySession)', ElsewhereSame(s),
         \A u \in Threads \ {Acceptor} : ~Handler(u, s),
         \A x \in Slots \ {s} : Session'[x].SessionID = Session[x].SessionID
  PROVE  Served'
<1>1. PICK t \in Threads : t = Acceptor
  BY ConstantTypes
<1>2. TypeOK /\ Alone(t) /\ th'[t].pc \in Fill
  BY <1>1, Parts
<1>3. ~Reading(t)'
  BY <1>1 DEF Reading, Fill, Ided
<1>4. OneReader'
  BY <1>1, <1>2, <1>3, ReadsAlone, OneReaderStep DEF Served
<1>5. OwnCalls'
  <2>1. ASSUME NEW u \in Threads PROVE OwnCall(u)'
    <3>1. CASE u = t
      BY <1>1, <3>1 DEF OwnCall, Fill, Ided, Handling
    <3>2. CASE u # t
      <4>1. OwnCall(u) /\ th'[u] = th[u] /\ th[u].slot \in Slots
        BY <1>2, <3>2, Typed DEF Served, OwnCalls, Alone
      <4>2. th[u].pc \in Handling => th[u].slot # s
        BY <1>1, <3>2 DEF Handler
      <4> QED
        BY <4>1, <4>2 DEF OwnCall, Handling
    <3> QED
      BY <3>1, <3>2
  <2> QED
    BY <2>1 DEF OwnCalls
<1>6. Buffers'
  <2>1. th[t].batch = <<>>
    BY <1>1 DEF Served, Buffers, Buffer, Batching, Fill, Ided
  <2>2. Buffer(t)'
    BY <1>1, <2>1 DEF Buffer, QueuesSame, Fill, Ided, Emptied
  <2> QED
    BY <1>2, <2>2, Parts, BuffersStep DEF Served
<1>7. Wires'
  BY DEF Served, Wires, ConnSame
<1>8. ~Open(s)'
  BY <1>1 DEF Open, Busy, Occupies
<1>9. Answers'
  BY <1>1, <1>2, <1>8, AnswersStep DEF Served
<1> QED
  BY <1>4, <1>5, <1>6, <1>7, <1>9 DEF Served

LEMMA ServedAcceptsInto ==
  ASSUME AccountsInv, Callers = {}, Served, NEW c \in Conns, NEW s, AcceptsInto(c, s)
  PROVE  Served'
<1>1. /\ TypeOK /\ th[Acceptor].pc = "idle" /\ net[c].sock = "none" /\ UNCHANGED Session
      /\ Acceptor \in Threads
  BY Parts, ConstantTypes DEF AcceptsInto
<1>2. /\ s \in Slots /\ s \in ToSet(emptySession)
      /\ ToSet(emptySession)' = ToSet(emptySession) \ {s}
  BY <1>1, Parts, SlotPopped DEF AcceptsInto, Parted, FreeSlots, TypeOK
<1>3. /\ Quiet(s) /\ \A u \in Threads : ~Works(u, s)
      /\ Session[s].RecvQ = <<>> /\ Session[s].SendQ = <<>>
  BY <1>2, Parts DEF Parted, FreeSlots, Served, Buffers
<1>4. /\ Alone(Acceptor) /\ th'[Acceptor].slot = s /\ th'[Acceptor].pc = "TakeSlot"
      /\ th'[Acceptor].arg = c /\ th'[Acceptor].batch = th[Acceptor].batch
      /\ th'[Acceptor].held = th[Acceptor].held
  <2>1. th \in [Threads -> ThreadType]
    BY <1>1 DEF TypeOK
  <2> QED
    BY <1>1, <2>1 DEF AcceptsInto, ThreadType, Alone
<1>5. SessionAlike(s)
  BY <1>1, <1>2, SessionKeeps
<1>6. /\ \A d \in Conns \ {c} : net'[d] = net[d]
      /\ net'[c].index = s /\ net'[c].joins = net[c].joins
      /\ net'[c].leaves = net[c].leaves /\ ConnSame(c)
  <2>1. net \in [Ids -> ConnType] /\ c \in Ids /\ Conns \subseteq Ids
    BY <1>1, ConstantTypes DEF TypeOK
  <2> QED
    BY <2>1 DEF AcceptsInto, ConnType, ConnSame
<1>7. \A d \in Conns : ConnSame(d) /\ net'[d].joins = net[d].joins
  BY <1>6 DEF ConnSame
<1>8. ElsewhereSame(s)
  BY <1>1, <1>6, <1>7 DEF ElsewhereSame
<1>9. net[c].joins = 0 /\ net[c].leaves = 0
  <2>1. ~(net[c].joins > 0)
    BY <1>1, Parts DEF Naming
  <2>2. net[c].joins \in {0, 1} /\ net[c].leaves \in 0 .. net[c].joins
    BY DEF Served, Stages
  <2> QED
    BY <2>1, <2>2
<1>10. ~Busy(s) /\ ~Busy(s)'
  BY <1>1, <1>2, <1>4 DEF Busy, Occupies, Fill
<1>11. Stages'
  <2>1. \A x \in Slots \ {s} : /\ Session'[x].SessionID = Session[x].SessionID
                               /\ Busy(x)' <=> Busy(x)
    <3>1. ToSet(emptySession)' \ {s} = ToSet(emptySession) \ {s}
      BY <1>2
    <3>2. th[Acceptor].pc \notin Fill \cup Emptying
      BY <1>1 DEF Fill, Ided, Emptying
    <3> QED
      BY <1>1, <1>4, <3>1, <3>2, BusyElsewhere
  <2>2. \A d \in Conns \ {c} :
          /\ net'[d].index = net[d].index /\ net'[d].joins = net[d].joins
          /\ net'[d].leaves = net[d].leaves
          /\ Session'[s].SessionID = d /\ Busy(s)' <=> Session[s].SessionID = d /\ Busy(s)
    BY <1>6, <1>10
  <2>3. th'[Acceptor].arg \in Conns /\ net'[th'[Acceptor].arg].joins = 0
    BY <1>4, <1>6, <1>9
  <2>4. th'[Acceptor].pc \notin Ided
    BY <1>4 DEF Ided
  <2> QED
    BY <1>1, <1>2, <1>6, <1>9, <1>10, <2>1, <2>2, <2>3, <2>4, StagesAt DEF Served
<1>12. Sockets'
  <2>1. \A x \in Slots : \A i \in DOMAIN Session'[x].RecvOver :
          Session'[x].RecvOver[i] = Session[x].SessionID
    BY <1>1 DEF Served, Sockets
  <2> QED
    BY <1>1, <1>4, <1>5, <2>1, SocketsStep DEF Served, SessionAlike
<1>13. "call" \notin th'[Acceptor].held
  BY <1>1, <1>4, AtWork DEF Calling, Sending
<1>14. \A u \in Threads : ~Handler(u, s)
  BY <1>3, AtWork DEF Handler, Handling
<1>15. "idle" \in Fill \cup {"idle"} /\ "TakeSlot" \in Fill
  BY DEF Fill
<1> QED
  BY <1>1, <1>2, <1>3, <1>4, <1>5, <1>7, <1>8, <1>11, <1>12, <1>13, <1>14, <1>15, FillingStep
     DEF SessionAlike, IdsSame

LEMMA ServedAccept ==
  ASSUME AccountsInv, Callers = {}, Served, Accept
  PROVE  Served'
BY AcceptsOr, ServedAcceptsNone, ServedAcceptsInto

\* The accept thread has the slot it fills in for itself.
LEMMA FillsAlone ==
  ASSUME AccountsInv, Callers = {}, Served, th[Acceptor].pc \in Fill,
         NEW s, s = th[Acceptor].slot
  PROVE  /\ TypeOK /\ s \in Slots /\ Acceptor \in Threads
         /\ Quiet(s) /\ s \notin ToSet(emptySession)
         /\ Session[s].RecvQ = <<>> /\ Session[s].SendQ = <<>>
         /\ ~Reading(Acceptor) /\ NoneReads(Acceptor, s) /\ th[Acceptor].batch = <<>>
         /\ "call" \notin th[Acceptor].held /\ ~Busy(s)
         /\ \A u \in Threads : ~Handler(u, s) /\ ~Batcher(u, s)
         /\ \A u \in Threads \ {Acceptor} : ~Occupies(u, s)
<1>1. Acceptor \in Threads /\ th[Acceptor].pc \in Owning
  BY ConstantTypes DEF Fill, Ided, Owning
<1>2. /\ TypeOK /\ s \in Slots /\ Quiet(s) /\ s \notin ToSet(emptySession)
      /\ ~Reading(Acceptor) /\ NoneReads(Acceptor, s) /\ th[Acceptor].batch = <<>>
      /\ \A u \in Threads : ~Handler(u, s) /\ ~Batcher(u, s)
      /\ \A u \in Threads \ {Acceptor} : ~Occupies(u, s)
  BY <1>1, Owned
<1>3. Session[s].RecvQ = <<>> /\ Session[s].SendQ = <<>>
  BY <1>1 DEF Served, Buffers, Buffer
<1>4. "call" \notin th[Acceptor].held
  BY <1>2 DEF Reading
<1>5. ~Busy(s)
  BY <1>1 DEF Busy, Occupies
<1> QED
  BY <1>1, <1>2, <1>3, <1>4, <1>5

LEMMA ServedSetSock ==
  ASSUME AccountsInv, Callers = {}, Served, SetSock
  PROVE  Served'
<1>1. /\ th[Acceptor].pc = "SetSock" /\ Goto(Acceptor, "SetID")
      /\ UNCHANGED <<emptySession, net>> /\ "SetSock" \in Fill /\ "SetID" \in Fill
  BY DEF SetSock, Step, At, pool, Fill
<1>2. PICK s : s = th[Acceptor].slot
  OBVIOUS
<1>3. /\ TypeOK /\ s \in Slots /\ Acceptor \in Threads
      /\ Quiet(s) /\ s \notin ToSet(emptySession)
      /\ Session[s].RecvQ = <<>> /\ Session[s].SendQ = <<>>
      /\ "call" \notin th[Acceptor].held /\ ~Busy(s)
      /\ \A u \in Threads : ~Handler(u, s)
  BY <1>1, <1>2, FillsAlone
<1>4. Turns(Acceptor, "SetID", th[Acceptor].held)
  BY <1>1, <1>3, ThreadTurns
<1>5. PICK c : c = th[Acceptor].arg
  OBVIOUS
<1>6. /\ OnlyAt(s) /\ QueuesSame(s) /\ IdsSame /\ Session'[s].RecvOver = Session[s].RecvOver
      /\ Session'[s].sock = c
  <2>1. Session \in [Slots -> SessionType]
    BY <1>3 DEF TypeOK
  <2>2. Session' = [Session EXCEPT ![s].sock = c]
    BY <1>2, <1>5 DEF SetSock
  <2> QED
    BY <1>3, <2>1, <2>2 DEF SessionType, OnlyAt, QueuesSame, IdsSame
<1>7. Stages'
  <2>1. \A x \in Slots : Occupies(Acceptor, x)' <=> Occupies(Acceptor, x)
    BY <1>1, <1>4 DEF Occupies, Turns, Stays
  <2>2. th'[Acceptor].pc \notin Ided /\ th'[Acceptor].arg = th[Acceptor].arg
    BY <1>4 DEF Ided, Turns, Stays
  <2>3. ToSet(emptySession)' = ToSet(emptySession)
    BY <1>1 DEF ToSet
  <2>4. CallbacksSame
    BY <1>1 DEF CallbacksSame
  <2> QED
    BY <1>1, <1>3, <1>4, <1>6, <2>1, <2>2, <2>3, <2>4, StagesStep DEF Served, Turns, Stays
<1>8. Sockets'
  <2>1. th'[Acceptor].pc = "SetID" /\ th'[Acceptor].slot = s /\ th'[Acceptor].arg = c
    BY <1>2, <1>4, <1>5 DEF Turns, Stays
  <2>2. ASSUME NEW x \in Slots
        PROVE  /\ \/ Session'[x].sock = Session'[x].SessionID
                  \/ th'[Acceptor].pc = "SetID" /\ th'[Acceptor].slot = x
               /\ \A i \in DOMAIN Session'[x].RecvOver :
                    Session'[x].RecvOver[i] = Session'[x].SessionID
    <3>1. \A i \in DOMAIN Session[x].RecvOver : Session[x].RecvOver[i] = Session[x].SessionID
      BY DEF Served, Sockets
    <3>2. \/ Session[x].sock = Session[x].SessionID
      BY <1>1 DEF Served, Sockets
    <3>3. CASE x = s
      BY <1>6, <2>1, <3>1, <3>3 DEF IdsSame
    <3>4. CASE x # s
      BY <1>6, <3>1, <3>2, <3>4 DEF OnlyAt
    <3> QED
      BY <3>3, <3>4
  <2> QED
    BY <1>6, <2>1, <2>2 DEF Sockets
<1>9. /\ \A d \in Conns : ConnSame(d) /\ net'[d].joins = net[d].joins
      /\ ElsewhereSame(s)
  BY <1>1 DEF ConnSame, ElsewhereSame
<1>10. ToSet(emptySession)' = ToSet(emptySession)
  BY <1>1 DEF ToSet
<1> QED
  BY <1>1, <1>2, <1>3, <1>4, <1>6, <1>7, <1>8, <1>9, <1>10, FillingStep
     DEF Turns, Stays, IdsSame

LEMMA ServedSetID ==
  ASSUME AccountsInv, Callers = {}, Served, SetID
  PROVE  Served'
<1>1. /\ th[Acceptor].pc = "SetID" /\ Goto(Acceptor, "SetUse")
      /\ UNCHANGED <<emptySession, net>> /\ "SetID" \in Fill /\ "SetUse" \in Fill
  BY DEF SetID, Step, At, pool, Fill, Ided
<1>2. PICK s : s = th[Acceptor].slot
  OBVIOUS
<1>3. /\ TypeOK /\ s \in Slots /\ Acceptor \in Threads
      /\ Quiet(s) /\ s \notin ToSet(emptySession)
      /\ Session[s].RecvQ = <<>> /\ Session[s].SendQ = <<>>
      /\ "call" \notin th[Acceptor].held /\ ~Busy(s)
      /\ \A u \in Threads : ~Handler(u, s)
  BY <1>1, <1>2, FillsAlone
<1>4. Turns(Acceptor, "SetUse", th[Acceptor].held)
  BY <1>1, <1>3, ThreadTurns
<1>5. PICK c : c = th[Acceptor].arg
  OBVIOUS
<1>6. c \in Conns /\ net[c].joins = 0 /\ net[c].leaves = 0 /\ net[c].index = s
  <2>1. c \in Conns /\ net[c].joins = 0
    BY <1>1, <1>5 DEF Served, Stages
  <2>2. net[c].leaves \in 0 .. net[c].joins
    BY <2>1 DEF Served, Stages
  <2>3. net[c].index = s
    BY <1>1, <1>2, <1>5, Parts DEF Naming, Named
  <2> QED
    BY <2>1, <2>2, <2>3
<1>7. /\ OnlyAt(s) /\ QueuesSame(s) /\ Session'[s].RecvOver = Session[s].RecvOver
      /\ Session'[s].sock = Session[s].sock /\ Session'[s].SessionID = c
  <2>1. Session \in [Slots -> SessionType]
    BY <1>3 DEF TypeOK
  <2>2. Session' = [Session EXCEPT ![s].SessionID = c]
    BY <1>2, <1>5 DEF SetID
  <2> QED
    BY <1>3, <2>1, <2>2 DEF SessionType, OnlyAt, QueuesSame
<1>8. ~Busy(s)'
  BY <1>1, <1>2, <1>3, <1>4 DEF Busy, Occupies, Turns, Stays
<1>9. Stages'
  <2>1. \A x \in Slots \ {s} : /\ Session'[x].SessionID = Session[x].SessionID
                               /\ Busy(x)' <=> Busy(x)
    <3>1. ToSet(emptySession)' \ {s} = ToSet(emptySession) \ {s}
      BY <1>1
    <3> QED
      BY <1>2, <1>3, <1>4, <1>7, <3>1, BusyElsewhere DEF Turns, Stays, OnlyAt
  <2>2. \A d \in Conns \ {c} :
          /\ net'[d].index = net[d].index /\ net'[d].joins = net[d].joins
          /\ net'[d].leaves = net[d].leaves
          /\ Session'[s].SessionID = d /\ Busy(s)' <=> Session[s].SessionID = d /\ Busy(s)
    BY <1>1, <1>3, <1>8
  <2>3. /\ th'[Acceptor].arg = c /\ th'[Acceptor].slot = s
    BY <1>2, <1>4, <1>5 DEF Turns, Stays
  <2> QED
    BY <1>1, <1>3, <1>6, <1>7, <1>8, <2>1, <2>2, <2>3, StagesAt DEF Served
<1>10. Sockets'
  <2>1. th'[Acceptor].pc # "SetID" /\ Session[s].sock = c
    BY <1>1, <1>2, <1>4, <1>5 DEF Turns, Stays, Served, Sockets
  <2>2. ASSUME NEW x \in Slots
        PROVE  /\ Session'[x].sock = Session'[x].SessionID
               /\ \A i \in DOMAIN Session'[x].RecvOver :
                    Session'[x].RecvOver[i] = Session'[x].SessionID
    <3>1. CASE x = s
      <4>1. Session'[s].RecvOver = <<>>
        BY <1>3, <1>7 DEF Quiet
      <4> QED
        BY <1>7, <2>1, <3>1, <4>1
    <3>2. CASE x # s
      <4>1. Session'[x] = Session[x] /\ th[Acceptor].slot # x
        BY <1>2, <1>7, <3>2 DEF OnlyAt
      <4> QED
        BY <4>1 DEF Served, Sockets
    <3> QED
      BY <3>1, <3>2
  <2> QED
    BY <2>1, <2>2 DEF Sockets
<1>11. /\ \A d \in Conns : ConnSame(d) /\ net'[d].joins = net[d].joins
       /\ ElsewhereSame(s)
  BY <1>1 DEF ConnSame, ElsewhereSame
<1>12. ToSet(emptySession)' = ToSet(emptySession)
  BY <1>1 DEF ToSet
<1> QED
  BY <1>1, <1>2, <1>3, <1>4, <1>7, <1>9, <1>10, <1>11, <1>12, FillingStep
     DEF Turns, Stays, OnlyAt

\* Connection c in slot s joins: it is not present, nor is another in s.
Joining(s, c) ==
  /\ s = th[Acceptor].slot /\ c = Session[s].SessionID /\ th[Acceptor].pc = "Join"
  /\ net[c].index = s /\ net[c].joins = 0 /\ net[c].leaves = 0 /\ ~Busy(s)
  /\ net' = [net EXCEPT ![c].joins = 1]
  /\ UNCHANGED <<Session, emptySession>>

\* It is greeted, or the accept thread goes on to the first receive.
Greeting(s, c)  == Joining(s, c) /\ Call(Acceptor, c, <<c, 0>>)
Accepting(s, c) == Joining(s, c) /\ Goto(Acceptor, "PostRecv")

LEMMA Joins ==
  ASSUME AccountsInv, Admits, Served, Join
  PROVE  \E s \in Slots, c \in Conns : Greeting(s, c) \/ (~Echoes /\ Accepting(s, c))
<1>1. /\ th[Acceptor].pc = "Join" /\ UNCHANGED <<Session, emptySession>>
      /\ "Join" \in Fill /\ "Join" \in Ided
  BY DEF Join, At, pool, Fill, Ided
<1>2. PICK s : s = th[Acceptor].slot
  OBVIOUS
<1>3. s \in Slots /\ ~Busy(s)
  BY <1>1, <1>2, FillsAlone DEF Admits
<1>4. PICK c : c = Session[s].SessionID
  OBVIOUS
<1>5. c = th[Acceptor].arg /\ c \in Conns /\ net[c].joins = 0
  BY <1>1, <1>2, <1>4 DEF Served, Stages
<1>6. net[c].leaves = 0
  <2>1. net[c].leaves \in 0 .. net[c].joins
    BY <1>5 DEF Served, Stages
  <2> QED
    BY <1>5, <2>1
<1>7. net[c].index = s
  <2>1. InUse(s)
    BY <1>4, <1>5 DEF InUse, Conns, NoConn
  <2> QED
    BY <1>3, <1>4, <2>1, SessionConn
<1>8. /\ net' = [net EXCEPT ![c].joins = @ + 1]
      /\ \/ Call(Acceptor, c, <<c, 0>>)
         \/ "accept" \in OnJoin /\ Goto(Acceptor, "PostRecv")
  <2>1. \/ net' = [net EXCEPT ![c].joins = @ + 1] /\ Call(Acceptor, c, <<c, 0>>)
        \/ /\ net' = [net EXCEPT ![c].joins = @ + 1]
           /\ "accept" \in OnJoin /\ Goto(Acceptor, "PostRecv")
        \/ "reject" \in OnJoin
    BY <1>2, <1>4, Zenon DEF Join
  <2> QED
    BY <2>1 DEF Admits
<1>9. net' = [net EXCEPT ![c].joins = 1]
  BY <1>5, <1>8
<1>10. Joining(s, c)
  BY <1>1, <1>2, <1>3, <1>4, <1>5, <1>6, <1>7, <1>9 DEF Joining
<1>11. Greeting(s, c) \/ (~Echoes /\ Accepting(s, c))
  BY <1>8, <1>10 DEF Greeting, Accepting, Echoes
<1> QED
  BY <1>3, <1>5, <1>11

LEMMA Greets ==
  ASSUME AccountsInv, Echoes, Served, Join
  PROVE  \E s \in Slots, c \in Conns : Greeting(s, c)
BY EchoAdmits, Joins

LEMMA ServedJoin ==
  ASSUME AccountsInv, Admits, Served, Join
  PROVE  Served'
<1>1. Callers = {} /\ "Join" \in Fill
  BY DEF Admits, Fill, Ided
<1>0. PICK s \in Slots, c \in Conns : Greeting(s, c) \/ (~Echoes /\ Accepting(s, c))
  BY Joins
<1>2. /\ s = th[Acceptor].slot /\ c = Session[s].SessionID /\ th[Acceptor].pc = "Join"
      /\ net[c].index = s /\ net[c].joins = 0 /\ net[c].leaves = 0 /\ ~Busy(s)
      /\ net' = [net EXCEPT ![c].joins = 1]
      /\ UNCHANGED <<Session, emptySession>>
  BY <1>0 DEF Greeting, Accepting, Joining
<1>3. PICK t \in Threads : t = Acceptor
  BY ConstantTypes
<1>4. /\ TypeOK /\ Quiet(s) /\ s \notin ToSet(emptySession)
      /\ Session[s].RecvQ = <<>> /\ Session[s].SendQ = <<>>
      /\ NoneReads(t, s) /\ th[t].batch = <<>> /\ "call" \notin th[t].held
      /\ \A u \in Threads : ~Handler(u, s) /\ ~Batcher(u, s)
      /\ \A u \in Threads \ {t} : ~Occupies(u, s)
  BY <1>1, <1>2, <1>3, FillsAlone
<1>5. PICK l \in {"Find", "PostRecv"} :
        /\ Stays(t, l) /\ th'[t].batch = <<>> /\ "call" \notin th'[t].held
        /\ l = "Find" => th'[t].arg = c /\ th'[t].msg = <<c, 0>>
        /\ Echoes => l = "Find"
  <2>1. th \in [Threads -> ThreadType]
    BY <1>4 DEF TypeOK
  <2>2. CASE Greeting(s, c)
    BY <1>2, <1>3, <1>4, <2>1, <2>2 DEF Greeting, Call, ThreadType, Stays, Alone
  <2>3. CASE ~Echoes /\ Accepting(s, c)
    BY <1>2, <1>3, <1>4, <2>1, <2>3 DEF Accepting, Goto, ThreadType, Stays, Alone
  <2> QED
    BY <1>0, <2>2, <2>3
<1>6. /\ \A d \in Conns \ {c} : net'[d] = net[d]
      /\ net'[c].index = s /\ net'[c].joins = 1 /\ net'[c].leaves = 0
      /\ ConnSame(c) /\ net'[c].sock = net[c].sock
  <2>1. net \in [Ids -> ConnType] /\ c \in Ids /\ Conns \subseteq Ids
    BY <1>4, ConstantTypes DEF TypeOK
  <2>2. net' = [net EXCEPT ![c].joins = 1] /\ net[c].index = s /\ net[c].leaves = 0
    BY <1>2
  <2> QED
    BY ONLY <2>1, <2>2 DEF ConnType, ConnSame
<1>7. Busy(s)'
  <2>1. \A u \in Threads : ~Occupies(u, s)'
    BY <1>4, <1>5 DEF Occupies, Stays, Alone, Fill, Ided, Emptying
  <2> QED
    BY <1>2, <1>4, <2>1 DEF Busy
<1>8. /\ th'[Acceptor].pc \notin Fill /\ th'[Acceptor].pc \notin Ided
      /\ th'[Acceptor].pc \notin Fill \cup Emptying
  BY <1>3, <1>5 DEF Stays, Fill, Ided, Emptying
<1>9. Stages'
  <2>1. \A x \in Slots \ {s} : /\ Session'[x].SessionID = Session[x].SessionID
                               /\ Busy(x)' <=> Busy(x)
    <3>1. ToSet(emptySession)' \ {s} = ToSet(emptySession) \ {s}
      BY <1>2
    <3> QED
      BY <1>2, <1>3, <1>5, <3>1, BusyElsewhere DEF Stays
  <2>2. \A d \in Conns \ {c} :
          /\ net'[d].index = net[d].index /\ net'[d].joins = net[d].joins
          /\ net'[d].leaves = net[d].leaves
          /\ Session'[s].SessionID = d /\ Busy(s)' <=> Session[s].SessionID = d /\ Busy(s)
    BY <1>2, <1>6
  <2>3. /\ net'[c].index = s
        /\ net'[c].joins \in {0, 1} /\ net'[c].leaves \in 0 .. net'[c].joins
        /\ net'[c].joins = 1 /\ net'[c].leaves = 0 <=> Session'[s].SessionID = c /\ Busy(s)'
    <3>1. Session'[s].SessionID = c
      BY <1>2
    <3>2. net'[c].index = s /\ net'[c].joins = 1 /\ net'[c].leaves = 0
      BY <1>6
    <3> QED
      BY ONLY <1>7, <3>1, <3>2
  <2>4. Stages
    BY DEF Served
  <2> QED
    BY <1>4, <1>8, <2>1, <2>2, <2>3, <2>4, StagesAt
<1>10. SessionAlike(s)
  BY <1>2, <1>4, SessionKeeps
<1>11. Sockets'
  <2>1. \A x \in Slots : \A i \in DOMAIN Session'[x].RecvOver :
          Session'[x].RecvOver[i] = Session[x].SessionID
    BY <1>2 DEF Served, Sockets
  <2> QED
    BY <1>2, <1>3, <1>4, <1>5, <1>10, <2>1, SocketsStep DEF Served, SessionAlike, Stays
<1>12. OneReader'
  <2>1. th'[t].slot = s /\ Session'[s].RecvOver = <<>>
    BY <1>2, <1>3, <1>4, <1>5 DEF Stays, Quiet
  <2> QED
    BY <1>4, <1>5, <1>10, <2>1, OneReaderStep DEF Served, SessionAlike, Stays
<1>13. OwnCalls'
  <2>1. OwnCall(t)'
    BY <1>2, <1>3, <1>5 DEF OwnCall, Stays, Handling
  <2> QED
    BY <1>4, <1>5, <1>10, <2>1, OwnCallsStep DEF Served, SessionAlike, Stays
<1>14. Buffers'
  <2>1. Buffer(t)'
    BY <1>5 DEF Buffer, Stays, Fill, Ided, Emptied
  <2> QED
    BY <1>2, <1>4, <1>5, <1>10, <2>1, Parts, BuffersStep DEF Served, SessionAlike, Stays
<1>15. Wires'
  BY <1>6 DEF Served, Wires, ConnSame
<1>16. ASSUME Echoes PROVE Ordered(s)'
  <2>1. net[c].wire = <<>> /\ Stream(net[c].inbound, 1, net[c].asked)
    BY <1>2 DEF Served, Wires
  <2>2. PICK k \in Nat, r \in Seq(Units) : k = net[c].asked /\ r = net[c].inbound
    BY <1>4, ConnFields, ConstantTypes DEF TypeOK
  <2>3. /\ Session'[s].SessionID = c /\ Session'[s].SendQ = <<>> /\ Session'[s].RecvQ = <<>>
        /\ net'[c].wire = <<>> /\ net'[c].asked = k /\ net'[c].inbound = r
    BY <1>2, <1>4, <1>6, <2>1, <2>2 DEF ConnSame
  <2>4. /\ \A u \in Threads : ~Batcher(u, s)'
        /\ \A u \in Threads : Handler(u, s)' => u = t
        /\ Handler(t, s)'
    BY <1>2, <1>3, <1>4, <1>5, <1>16 DEF Batcher, Batching, Handler, Handling, Stays, Alone
  <2>5. Outgoing(s, 0)'
    <3>1. Placed(s, 0, c, Session[s].SendQ, Len(net[c].wire))'
      BY <2>3, <2>4 DEF Placed
    <3>2. 0 = 0 - Len(Session'[s].SendQ)
      <4>1. Len(Session'[s].SendQ) = 0
        BY <2>3
      <4> QED
        BY ONLY <4>1
    <3> QED
      BY <2>3, <3>1, <3>2, PlacedOutgoing
  <2>6. Incoming(s, 0)'
    <3>1. <<>> \o r = r
      OBVIOUS
    <3>2. 0 <= k /\ Stream(r, 1, k) /\ 0 + 1 = 1
      BY <2>1, <2>2
    <3>3. \A u \in Threads : Handler(u, s)' => th'[u].msg = <<c, 0>>
      BY <1>5, <1>16, <2>4
    <3> QED
      BY <2>3, <2>4, <3>1, <3>2, <3>3, Zenon DEF Incoming
  <2>7. 0 \in Nat /\ 0 <= k + 1
    BY <2>2
  <2> QED
    BY <2>3, <2>5, <2>6, <2>7 DEF Ordered
<1>17. Answers'
  <2>1. ElsewhereSame(s)
    BY <1>6 DEF ElsewhereSame, ConnSame
  <2> QED
    BY <1>2, <1>3, <1>5, <1>10, <1>16, <2>1, AnswersStep DEF Served, SessionAlike, Stays, Open
<1> QED
  BY <1>9, <1>11, <1>12, <1>13, <1>14, <1>15, <1>17 DEF Served

-----------------------------------------------------------------------------
(* The invariant *)

LEMMA ServedCommon ==
  ASSUME AccountsInv, Admits, Served, NEW t \in Threads, Common(t)
  PROVE  Served'
<1>1. Callers = {}
  BY DEF Admits
<1>2. CASE EndPost(t) \/ EndPostEmpty(t) \/ EndCall(t) \/ EndEvent(t)
  BY <1>1, <1>2, ServedDecrements
<1>3. CASE SessionRelease(t)
  <2>1. CASE Release(t)
    BY <1>1, <2>1, ServedOrdinary
  <2>2. CASE Leave(t)
    BY <1>1, <2>2, ServedLeave
  <2>3. CASE Close(t)
    BY <1>1, <2>3, ServedClose
  <2>4. CASE DrainQ(t)
    BY <1>1, <2>4, ServedDrainQ
  <2>5. CASE DrainPack(t)
    BY <1>1, <2>5, ServedSetting
  <2>6. CASE PushSlot(t)
    BY <1>1, <2>6, ServedPushSlot
  <2> QED
    BY <1>3, <2>1, <2>2, <2>3, <2>4, <2>5, <2>6 DEF SessionRelease
<1>4. CASE Find(t) \/ FindUse(t) \/ FindID(t)
  BY <1>1, <1>4, ServedFind
<1>5. CASE Disconnect(t)
  BY <1>1, <1>5, ServedDisconnect
<1>6. CASE Enqueue(t)
  BY <1>1, <1>6, ServedEnqueue
<1>7. CASE FreeMsg(t)
  BY <1>1, <1>7, ServedFreeMsg
<1>8. CASE PostSend(t) \/ ClearFlag(t) \/ PostRecv(t)
  BY <1>1, <1>8, ServedOrdinary
<1>9. CASE SetFlag(t)
  BY <1>1, <1>9, ServedSetFlag
<1>10. CASE Dequeue(t)
  BY <1>1, <1>10, ServedDequeue
<1>11. CASE WSASend(t)
  BY <1>1, <1>11, ServedWSASend
<1>12. CASE WSARecv(t)
  BY <1>1, <1>12, ServedWSARecv
<1> QED
  BY <1>2, <1>3, <1>4, <1>5, <1>6, <1>7, <1>8, <1>9, <1>10, <1>11, <1>12 DEF Common

LEMMA ServedAcceptThread ==
  ASSUME AccountsInv, Admits, Served, AcceptThread
  PROVE  Served'
<1>1. Callers = {} /\ Acceptor \in Threads
  BY ConstantTypes DEF Admits
<1>2. CASE Accept
  BY <1>1, <1>2, ServedAccept
<1>3. CASE AcceptEnd
  BY <1>1, <1>3, ServedOrdinary
<1>4. CASE TakeSlot \/ SetUse \/ ResetFlag
  BY <1>1, <1>4, ServedSetting
<1>5. CASE SetSock
  BY <1>1, <1>5, ServedSetSock
<1>6. CASE SetID
  BY <1>1, <1>6, ServedSetID
<1>7. CASE Join
  BY <1>7, ServedJoin
<1> QED
  BY <1>2, <1>3, <1>4, <1>5, <1>6, <1>7 DEF AcceptThread

LEMMA ServedWorkerThread ==
  ASSUME AccountsInv, Admits, Served, NEW w \in Workers, WorkerThread(w)
  PROVE  Served'
<1>1. Callers = {} /\ w \in Threads
  BY DEF Admits, Threads
<1>2. CASE RecvDone(w)
  BY <1>1, <1>2, ServedRecvDone
<1>3. CASE SendDone(w) \/ ZeroDone(w)
  BY <1>1, <1>3, ServedCompletion
<1>4. CASE Zero(w) \/ Quit(w) \/ FreeSent(w) \/ Recheck(w)
  BY <1>1, <1>4, ServedOrdinary
<1>5. CASE Parse(w)
  BY <1>1, <1>5, ServedParse
<1> QED
  BY <1>2, <1>3, <1>4, <1>5 DEF WorkerThread

LEMMA StepService ==
  ASSUME Admits, ServiceInv, [Next]_vars
  PROVE  ServiceInv'
<1>1. AccountsInv /\ Served /\ Callers = {} /\ "reject" \notin OnJoin
  BY DEF ServiceInv, Admits
<1>2. AccountsInv'
  BY <1>1, StepAccounts
<1>3. Served'
  <2>1. CASE \E t \in Threads : Common(t)
    BY <1>1, <2>1, ServedCommon
  <2>2. CASE AcceptThread
    BY <1>1, <2>2, ServedAcceptThread
  <2>3. CASE \E w \in Workers : WorkerThread(w)
    BY <1>1, <2>3, ServedWorkerThread
  <2>4. CASE \E c \in Conns : Client(c)
    BY <1>1, <2>4, ServedPeerSend, ServedOutside DEF Client
  <2>5. CASE Stop \/ UNCHANGED vars
    BY <1>1, <2>5, ServedOutside
  <2>6. ~\E t \in Callers : AppCall(t)
    BY <1>1
  <2> QED
    BY <2>1, <2>2, <2>3, <2>4, <2>5, <2>6 DEF Next
<1> QED
  BY <1>2, <1>3 DEF ServiceInv

LEMMA InitService == Init => ServiceInv
<1> SUFFICES ASSUME Init PROVE ServiceInv
  OBVIOUS
<1>1. AccountsInv /\ TypeOK
  BY InitAccounts, Parts
<1>2. \A s \in Slots : Session[s] = NewSession
  BY DEF Init
<1>3. \A t \in Threads : th[t] = NewThread
  BY DEF Init
<1>4. Conns \subseteq Ids /\ Acceptor \in Threads
  BY ConstantTypes
<1>5. \A c \in Conns : net[c] = NewConn
  BY <1>4 DEF Init
<1>6. th[Acceptor].pc = "idle"
  BY <1>3, <1>4 DEF NewThread
<1>7. \A c \in Conns : c # NoConn
  BY DEF Conns, NoConn
<1>8. Stages
  <2>1. \A c \in Conns :
          /\ net[c].joins = 0 /\ net[c].leaves = 0
          /\ Session[net[c].index].SessionID # c
    BY <1>2, <1>5, <1>7, ConstantTypes DEF NewConn, NewSession
  <2> QED
    BY <1>6, <2>1 DEF Stages, Fill, Ided
<1>9. Sockets
  BY <1>2, <1>6 DEF Sockets, NewSession
<1>10. OneReader
  BY <1>2, <1>3 DEF OneReader, Reading, NewSession, NewThread
<1>11. OwnCalls
  BY <1>3 DEF OwnCalls, OwnCall, Handling, NewThread
<1>12. Buffers
  <2>1. \A s \in Slots : Session[s].RecvQ = <<>> /\ Session[s].SendQ = <<>>
    BY <1>2 DEF NewSession
  <2>2. ToSet(emptySession) \subseteq Slots
    BY <1>1 DEF TypeOK, ToSet
  <2> QED
    BY <1>3, <2>1, <2>2 DEF Buffers, Buffer, NewThread, Fill, Ided, Emptied, Batching
<1>13. Wires
  <2>1. \A c \in Conns : /\ net[c].wire = <<>> /\ net[c].asked = 0
                         /\ net[c].inbound = <<>>
    BY <1>5 DEF NewConn
  <2>2. Stream(<<>>, 1, 0)
    BY DEF Stream
  <2>3. <<>> = [i \in 1 .. 0 |-> i - 1] /\ Len(<<>>) = 0
    OBVIOUS
  <2>4. 0 <= MaxMsgs
    BY SizesAssumption
  <2> QED
    BY <2>1, <2>2, <2>3, <2>4 DEF Wires
<1>14. Answers
  BY <1>2 DEF Answers, Open, InUse, NewSession
<1> QED
  BY <1>1, <1>8, <1>9, <1>10, <1>11, <1>12, <1>13, <1>14 DEF ServiceInv, Served

-----------------------------------------------------------------------------
(* The refinement *)

\* What the service shows of the connections, and of one.
ShownSame(c) == /\ net'[c].joins = net[c].joins /\ net'[c].leaves = net[c].leaves
                /\ net'[c].asked = net[c].asked /\ net'[c].wire = net[c].wire
Unseen == \A c \in Conns : ShownSame(c)

\* net[c] gets another socket state, slot, peer or bytes under way.
LEMMA UnseenNet ==
  ASSUME TypeOK,
         \/ UNCHANGED net
         \/ \E c, x : \/ net' = [net EXCEPT ![c].sock = x]
                      \/ net' = [net EXCEPT ![c].peer = x]
                      \/ net' = [net EXCEPT ![c].inbound = x]
         \/ \E c, x, y : net' = [net EXCEPT ![c].sock = x, ![c].index = y]
  PROVE  Unseen
<1>1. net \in [Ids -> ConnType] /\ Conns \subseteq Ids
  BY ConstantTypes DEF TypeOK
<1>2. CASE UNCHANGED net
  BY <1>2 DEF Unseen, ShownSame
<1>3. ASSUME NEW c, NEW x, net' = [net EXCEPT ![c].sock = x]
      PROVE  Unseen
  BY <1>1, <1>3 DEF Unseen, ShownSame, ConnType
<1>4. ASSUME NEW c, NEW x, net' = [net EXCEPT ![c].peer = x]
      PROVE  Unseen
  BY <1>1, <1>4 DEF Unseen, ShownSame, ConnType
<1>5. ASSUME NEW c, NEW x, net' = [net EXCEPT ![c].inbound = x]
      PROVE  Unseen
  BY <1>1, <1>5 DEF Unseen, ShownSame, ConnType
<1>6. ASSUME NEW c, NEW x, NEW y, net' = [net EXCEPT ![c].sock = x, ![c].index = y]
      PROVE  Unseen
  BY <1>1, <1>6 DEF Unseen, ShownSame, ConnType
<1> QED
  BY <1>2, <1>3, <1>4, <1>5, <1>6

LEMMA UnseenShutDown ==
  ASSUME TypeOK, NEW c, ShutDown(c)
  PROVE  Unseen
<1>1. PICK x : x = IF net[c].sock = "open" THEN "shut" ELSE net[c].sock
  OBVIOUS
<1>2. net' = [net EXCEPT ![c].sock = x]
  BY <1>1 DEF ShutDown
<1> QED
  BY <1>2, UnseenNet

LEMMA UnseenCommon ==
  ASSUME TypeOK, NEW t \in Threads, Common(t), ~Leave(t), ~\E s, c : Sends(t, s, c)
  PROVE  Unseen
<1>1. CASE \/ EndPost(t) \/ EndPostEmpty(t) \/ EndCall(t) \/ EndEvent(t) \/ Release(t)
           \/ DrainQ(t) \/ DrainPack(t) \/ PushSlot(t)
  BY <1>1, UnseenNet
     DEF EndPost, EndPostEmpty, EndCall, EndEvent, IODecrement, Release, DrainQ, DrainPack,
         PushSlot
<1>2. CASE \/ Find(t) \/ FindUse(t) \/ FindID(t) \/ FreeMsg(t) \/ PostSend(t) \/ SetFlag(t)
           \/ Dequeue(t) \/ ClearFlag(t) \/ PostRecv(t)
  BY <1>2, UnseenNet
     DEF Find, FindUse, FindID, FreeMsg, PostSend, SetFlag, Dequeue, ClearFlag, PostRecv
<1>3. CASE Close(t)
  BY <1>3, UnseenNet DEF Close
<1>4. CASE Disconnect(t) \/ Enqueue(t) \/ WSARecv(t)
  BY <1>4, UnseenNet, UnseenShutDown DEF Disconnect, Enqueue, WSARecv
<1>5. CASE WSASend(t)
  <2>1. \E s, c : Fails(t, s, c)
    BY <1>5, SendsOrFails
  <2> QED
    BY <2>1, UnseenShutDown DEF Fails
<1> QED
  BY <1>1, <1>2, <1>3, <1>4, <1>5 DEF Common, SessionRelease

LEMMA UnseenAcceptThread ==
  ASSUME TypeOK, AcceptThread, ~Join
  PROVE  Unseen
<1>1. CASE Accept
  <2>1. PICK c \in Conns : AcceptsNone(c) \/ \E s : AcceptsInto(c, s)
    BY <1>1, AcceptsOr
  <2>2. CASE AcceptsNone(c)
    BY <2>2, UnseenNet DEF AcceptsNone
  <2>3. ASSUME NEW s, AcceptsInto(c, s)
        PROVE  Unseen
    <3>1. \E d, x, y : net' = [net EXCEPT ![d].sock = x, ![d].index = y]
      BY <2>3, Zenon DEF AcceptsInto
    <3> QED
      BY <3>1, UnseenNet, Zenon
  <2> QED
    BY <2>1, <2>2, <2>3
<1>2. CASE AcceptEnd \/ TakeSlot \/ SetSock \/ SetID \/ SetUse \/ ResetFlag
  BY <1>2, UnseenNet DEF AcceptEnd, TakeSlot, SetSock, SetID, SetUse, ResetFlag
<1> QED
  BY <1>1, <1>2 DEF AcceptThread

LEMMA UnseenWorkerThread ==
  ASSUME TypeOK, NEW w \in Workers, WorkerThread(w)
  PROVE  Unseen
<1>1. CASE RecvDone(w)
  <2>1. \E c, n : net' = [net EXCEPT ![c].inbound = SubSeq(@, n + 1, Len(@))]
    BY <1>1 DEF RecvDone
  <2>2. PICK c, n : net' = [net EXCEPT ![c].inbound = SubSeq(@, n + 1, Len(@))]
    BY <2>1
  <2>3. PICK x : x = SubSeq(net[c].inbound, n + 1, Len(net[c].inbound))
    OBVIOUS
  <2>4. net' = [net EXCEPT ![c].inbound = x]
    BY <2>2, <2>3
  <2> QED
    BY <2>4, UnseenNet
<1>2. CASE SendDone(w) \/ ZeroDone(w) \/ Quit(w) \/ FreeSent(w) \/ Recheck(w)
  BY <1>2, UnseenNet DEF SendDone, ZeroDone, Quit, FreeSent, Recheck
<1>3. CASE Zero(w) \/ Parse(w)
  BY <1>3, UnseenNet, UnseenShutDown DEF Zero, Parse
<1> QED
  BY <1>1, <1>2, <1>3 DEF WorkerThread

LEMMA UnseenOutside ==
  ASSUME TypeOK, Stop \/ UNCHANGED vars \/ \E c \in Conns : PeerClose(c)
  PROVE  Unseen
<1>1. CASE UNCHANGED net
  BY <1>1, UnseenNet
<1>2. CASE \E x : ShutDown(x)
  BY <1>2, UnseenShutDown
<1>3. CASE \E c \in Conns : PeerClose(c)
  BY <1>3, UnseenNet DEF PeerClose
<1> QED
  BY <1>1, <1>2, <1>3 DEF Stop, StopListen, StopShut, StopQuit, StopWait, vars

\* The connections present are in slots of their own.
LEMMA RoomToJoin ==
  ASSUME AccountsInv, Served, NEW s \in Slots, ~Busy(s)
  PROVE  Service!Cardinality(Service!Present) < SessionMax
<1> DEFINE P == {c \in Conns : net[c].joins > net[c].leaves}
           T == Slots \ {s}
           f == [c \in P |-> net[c].index]
<1>1. \A c \in P : /\ net[c].index \in T /\ c \in Conns
                   /\ Session[net[c].index].SessionID = c /\ Busy(net[c].index)
  <2> SUFFICES ASSUME NEW c \in P
               PROVE  /\ net[c].index \in T /\ c \in Conns
                      /\ Session[net[c].index].SessionID = c /\ Busy(net[c].index)
    OBVIOUS
  <2>1. net[c].joins \in {0, 1} /\ net[c].leaves \in 0 .. net[c].joins
    BY DEF Served, Stages
  <2>2. net[c].joins = 1 /\ net[c].leaves = 0
    BY <2>1
  <2>3. Session[net[c].index].SessionID = c /\ Busy(net[c].index)
    BY <2>2 DEF Served, Stages
  <2>4. net[c].index \in Slots
    BY Parts, ConnFields, ConstantTypes DEF TypeOK
  <2>5. net[c].index # s
    BY <2>3
  <2> QED
    BY <2>3, <2>4, <2>5
<1>2. f \in [P -> T] /\ \A c, d \in P : f[c] = f[d] => c = d
  BY <1>1
<1>3. /\ IsFiniteSet(T) /\ Cardinality(T) = SessionMax - 1
  <2>1. IsFiniteSet(Slots) /\ Cardinality(Slots) = SessionMax
    BY SizesAssumption, FS_Interval DEF Slots
  <2> QED
    BY <2>1, FS_RemoveElement
<1>4. IsFiniteSet(P) /\ Cardinality(P) \in Nat
  <2>1. IsFiniteSet(Conns)
    BY SizesAssumption, FS_Interval DEF Conns
  <2> QED
    BY <2>1, FS_Subset, FS_CardinalityType
<1>5. ~(Cardinality(T) < Cardinality(P))
  <2> HIDE DEF P, T, f
  <2> QED
    BY <1>2, <1>3, <1>4, FS_PigeonHole
<1>6. Cardinality(P) < SessionMax
  <2> HIDE DEF P, T, f
  <2> QED
    BY <1>3, <1>4, <1>5, SizesAssumption
<1>7. Service!Present = P
  BY DEF Service!Present
<1>8. Service!Cardinality(P) = Cardinality(P)
  BY Zenon DEF Service!Cardinality, Cardinality
<1> QED
  BY <1>6, <1>7, <1>8

LEMMA ShownJoin ==
  ASSUME AccountsInv, Served, NEW s \in Slots, NEW c \in Conns, Greeting(s, c)
  PROVE  Service!Join(c)
<1>1. TypeOK /\ ~Busy(s) /\ net[c].joins = 0 /\ net' = [net EXCEPT ![c].joins = 1]
  BY Parts DEF Greeting, Joining
<1>2. Service!Cardinality(Service!Present) < SessionMax
  BY <1>1, RoomToJoin
<1>3. net \in [Ids -> ConnType] /\ Conns \subseteq Ids
  BY <1>1, ConstantTypes DEF TypeOK
<1>4. \A d \in Conns :
        /\ net'[d].joins = IF d = c THEN 1 ELSE net[d].joins
        /\ net'[d].leaves = net[d].leaves /\ net'[d].asked = net[d].asked
        /\ net'[d].wire = net[d].wire
  BY <1>1, <1>3 DEF ConnType
<1>5. [d \in Conns |-> net[d].joins][c] = 0
  BY <1>1
<1>6. [d \in Conns |-> net'[d].joins] = [[d \in Conns |-> net[d].joins] EXCEPT ![c] = 1]
  BY <1>4
<1>7. /\ [d \in Conns |-> net'[d].leaves] = [d \in Conns |-> net[d].leaves]
      /\ [d \in Conns |-> net'[d].asked] = [d \in Conns |-> net[d].asked]
      /\ [d \in Conns |-> net'[d].wire] = [d \in Conns |-> net[d].wire]
  BY <1>4
<1> QED
  BY ONLY <1>2, <1>5, <1>6, <1>7, Zenon DEF Service!Join

LEMMA ShownLeave ==
  ASSUME AccountsInv, Callers = {}, Served, NEW t \in Threads, Leave(t)
  PROVE  \E c \in Conns : Service!Leave(c)
<1>1. th[t].pc = "Leave" /\ TypeOK
  BY Parts DEF Leave, Step, At
<1>2. PICK s \in Slots : s = th[t].slot
  BY <1>1, Typed
<1>3. InUse(s)
  BY <1>1, <1>2, Parts DEF Parted, ClosingSlots, Releasing
<1>4. Busy(s)
  <2>1. th[t].pc \in Owning
    BY <1>1 DEF Owning, Releasing
  <2>3. s \notin ToSet(emptySession) /\ \A u \in Threads \ {t} : ~Occupies(u, s)
    BY <1>2, <2>1, Owned
  <2>2. ~Occupies(t, s)
    BY <1>1 DEF Occupies, Fill, Ided, Emptying
  <2> QED
    BY <2>2, <2>3 DEF Busy
<1>5. PICK c \in Conns : c = Session[s].SessionID
  BY <1>3, SessionConn
<1>6. net[c].joins = 1 /\ net[c].leaves = 0
  BY <1>3, <1>4, <1>5, Present DEF Served
<1>7. net' = [net EXCEPT ![c].leaves = 1]
  <2>1. net' = [net EXCEPT ![c].leaves = @ + 1]
    BY <1>2, <1>5 DEF Leave
  <2> QED
    BY <1>6, <2>1
<1>8. net \in [Ids -> ConnType] /\ Conns \subseteq Ids
  BY <1>1, ConstantTypes DEF TypeOK
<1>9. \A d \in Conns :
        /\ net'[d].leaves = IF d = c THEN 1 ELSE net[d].leaves
        /\ net'[d].joins = net[d].joins /\ net'[d].asked = net[d].asked
        /\ net'[d].wire = net[d].wire
  BY <1>7, <1>8 DEF ConnType
<1>10. c \in Service!Present
  BY <1>6 DEF Service!Present
<1>11. Service!Leave(c)
  BY <1>9, <1>10 DEF Service!Leave
<1> QED
  BY <1>11

LEMMA ShownAsk ==
  ASSUME TypeOK, NEW c \in Conns, PeerSend(c)
  PROVE  Service!Ask(c)
<1>1. PICK r : net' = [net EXCEPT ![c].asked = net[c].asked + 1, ![c].inbound = @ \o r]
  BY DEF PeerSend
<1>2. net \in [Ids -> ConnType] /\ Conns \subseteq Ids
  BY ConstantTypes DEF TypeOK
<1>3. \A d \in Conns :
        /\ net'[d].asked = IF d = c THEN net[d].asked + 1 ELSE net[d].asked
        /\ net'[d].joins = net[d].joins /\ net'[d].leaves = net[d].leaves
        /\ net'[d].wire = net[d].wire
  BY <1>1, <1>2 DEF ConnType
<1> QED
  BY <1>3 DEF Service!Ask

LEMMA ShownReply ==
  ASSUME AccountsInv, Echoes, Served, Served', NEW t \in Threads, NEW s, NEW c,
         Sends(t, s, c)
  PROVE  c \in Conns /\ Service!Reply(c)
<1>1. th[t].pc \in Serving
  BY DEF Sends, Serving, Labels, Owning, Releasing
<1>2. TypeOK /\ s \in Slots /\ c \in Conns /\ c = Session[s].SessionID /\ InUse(s) /\ Busy(s)
  BY <1>1, AtSession DEF Sends, Echoes
<1>3. net[c].joins = 1 /\ net[c].leaves = 0
  BY <1>2, Present DEF Served
<1>4. /\ net'[c].wire = [i \in 1 .. Len(net'[c].wire) |-> i - 1]
      /\ Len(net'[c].wire) > Len(net[c].wire)
  BY <1>2, SendsReplies
<1>5. net \in [Ids -> ConnType] /\ Conns \subseteq Ids
  BY <1>2, ConstantTypes DEF TypeOK
<1>6. /\ \A d \in Conns :
           /\ net'[d].joins = net[d].joins /\ net'[d].leaves = net[d].leaves
           /\ net'[d].asked = net[d].asked
      /\ \A d \in Conns \ {c} : net'[d].wire = net[d].wire
  <2>1. PICK x : net' = [net EXCEPT ![c].wire = x]
    <3>1. PICK x : x = net[c].wire \o [i \in 1 .. Len(th[t].batch) |-> th[t].batch[i][2]]
      OBVIOUS
    <3>2. net' = [net EXCEPT ![c].wire = x]
      BY <3>1 DEF Sends
    <3> QED
      BY <3>2
  <2> QED
    BY <1>5, <2>1 DEF ConnType
<1>7. PICK n, m, a : n = Len(net'[c].wire) /\ m = Len(net[c].wire) /\ a = net[c].asked
  OBVIOUS
<1>8. m \in Nat /\ a \in Nat
  <2>1. net[c].wire \in Seq(Nat) /\ net[c].asked \in Nat
    BY <1>2, ConnFields, ConstantTypes DEF TypeOK
  <2> QED
    BY <1>7, <2>1
<1>9. n <= a + 1
  BY <1>2, <1>6, <1>7 DEF Served, Wires
<1>10. n > m /\ n \in Int
  BY <1>4, <1>7
<1>11. PICK k \in m .. a : k = n - 1
  BY <1>8, <1>9, <1>10
<1>12. net'[c].wire = [i \in 1 .. k + 1 |-> i - 1]
  <2>1. n = k + 1
    BY <1>10, <1>11
  <2> QED
    BY <1>4, <1>7, <2>1
<1>13. c \in Service!Present
  BY <1>2, <1>3 DEF Service!Present
<1>14. Service!Reply(c)
  <2>1. net'[c].wire = [i \in 1 .. k + 1 |-> i - 1] /\ k \in Len(net[c].wire) .. net[c].asked
    BY <1>7, <1>11, <1>12
  <2>2. [d \in Conns |-> net'[d].wire]
          = [[d \in Conns |-> net[d].wire] EXCEPT ![c] = [i \in 1 .. k + 1 |-> i - 1]]
    BY <1>2, <1>6, <2>1
  <2>3. /\ [d \in Conns |-> net'[d].joins] = [d \in Conns |-> net[d].joins]
        /\ [d \in Conns |-> net'[d].leaves] = [d \in Conns |-> net[d].leaves]
        /\ [d \in Conns |-> net'[d].asked] = [d \in Conns |-> net[d].asked]
    BY <1>6
  <2>4. k \in Len([d \in Conns |-> net[d].wire][c]) .. [d \in Conns |-> net[d].asked][c]
    BY <1>2, <2>1
  <2> QED
    BY ONLY <1>13, <2>2, <2>3, <2>4, Zenon DEF Service!Reply
<1> QED
  BY <1>2, <1>14

LEMMA UnseenStutters ==
  ASSUME Unseen PROVE UNCHANGED Service!vars
<1>1. /\ [c \in Conns |-> net'[c].joins] = [c \in Conns |-> net[c].joins]
      /\ [c \in Conns |-> net'[c].leaves] = [c \in Conns |-> net[c].leaves]
      /\ [c \in Conns |-> net'[c].asked] = [c \in Conns |-> net[c].asked]
      /\ [c \in Conns |-> net'[c].wire] = [c \in Conns |-> net[c].wire]
  BY DEF Unseen, ShownSame
<1> QED
  BY ONLY <1>1, Zenon DEF Service!vars

\* Every step of the server is a step of the service or one it does not show.
LEMMA StepShown ==
  ASSUME Echoes, ServiceInv, [Next]_vars
  PROVE  [Service!Next]_(Service!vars)
<1>1. AccountsInv /\ Served /\ Served' /\ Callers = {} /\ TypeOK
  BY EchoAdmits, StepService, Parts DEF ServiceInv, Echoes
<1>2. (\E c \in Conns : Service!Join(c) \/ Service!Leave(c) \/ Service!Ask(c) \/ Service!Reply(c))
      \/ Unseen
  <2>1. CASE \E t \in Threads : Common(t)
    <3>1. PICK t \in Threads : Common(t)
      BY <2>1
    <3>2. CASE Leave(t)
      BY <1>1, <3>2, ShownLeave
    <3>3. CASE \E s, c : Sends(t, s, c)
      <4>1. PICK s, c : Sends(t, s, c)
        BY <3>3
      <4> QED
        BY <1>1, <4>1, ShownReply
    <3> QED
      BY <1>1, <3>1, <3>2, <3>3, UnseenCommon
  <2>2. CASE AcceptThread
    <3>1. CASE Join
      BY <1>1, <3>1, Greets, ShownJoin
    <3> QED
      BY <1>1, <2>2, <3>1, UnseenAcceptThread
  <2>3. CASE \E w \in Workers : WorkerThread(w)
    BY <1>1, <2>3, UnseenWorkerThread
  <2>4. CASE \E c \in Conns : PeerSend(c)
    BY <1>1, <2>4, ShownAsk
  <2>5. CASE Stop \/ UNCHANGED vars \/ \E c \in Conns : PeerClose(c)
    BY <1>1, <2>5, UnseenOutside
  <2>6. ~\E t \in Callers : AppCall(t)
    BY <1>1
  <2> QED
    BY <2>1, <2>2, <2>3, <2>4, <2>5, <2>6 DEF Next, Client
<1>3. Service!Next \/ UNCHANGED Service!vars
  BY <1>2, UnseenStutters, Zenon DEF Service!Next
<1> QED
  BY <1>3

LEMMA InitShown == Init => Service!Init
<1> SUFFICES ASSUME Init PROVE Service!Init
  OBVIOUS
<1>1. \A c \in Conns : net[c] = NewConn
  BY ConstantTypes DEF Init
<1>2. \A c \in Conns : /\ net[c].joins = 0 /\ net[c].leaves = 0
                       /\ net[c].asked = 0 /\ net[c].wire = <<>>
  BY <1>1 DEF NewConn
<1> QED
  BY <1>2 DEF Service!Init

-----------------------------------------------------------------------------
(* The theorems *)

\* The invariant behind the refinement, which needs no bound on the requests: a session is
\* filled in, joins, works, leaves and is emptied, in this order.
THEOREM ServiceInvariant == ASSUME Admits PROVE Spec => []ServiceInv
<1>1. ServiceInv /\ [Next]_vars => ServiceInv'
  BY StepService
<1> QED
  BY <1>1, InitService, PTL DEF Spec

\* The server with the echo application is the service of EchoService: a connection joins
\* once and leaves once, at most Session_Max at a time are present, and a client gets the
\* answers to its requests in their order, none left out or sent twice.
THEOREM ServiceImplemented == ASSUME Echoes PROVE Spec => ImplementsService
<1>1. Echoes /\ Admits
  BY EchoAdmits
<1>2. ServiceInv /\ [Next]_vars => [Service!Next]_(Service!vars)
  BY <1>1, StepShown
<1>3. Spec => []ServiceInv
  BY <1>1, ServiceInvariant
<1> QED
  BY <1>2, <1>3, InitShown, PTL DEF Spec, ImplementsService, Service!Spec

\* OnClientLeave is called at most once for a connection, however many requests are made and
\* packets dropped, when only callbacks use the ids and no connection is refused.
THEOREM CallbacksLeaveOnce ==
  ASSUME Callers = {}, "reject" \notin OnJoin
  PROVE  Spec => []LeavesOnce
<1>1. Spec => []ServiceInv
  BY ServiceInvariant DEF Admits
<1>2. ServiceInv => LeavesOnce
  BY DEF ServiceInv, Served, Stages, LeavesOnce
<1> QED
  BY <1>1, <1>2, PTL
=============================================================================
