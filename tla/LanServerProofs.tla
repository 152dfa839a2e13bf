-------------------------- MODULE LanServerProofs --------------------------
(***************************************************************************)
(* Theorems about CLanServer for every number of slots, threads and        *)
(* connections: the types of its variables, and that IOCount covers every  *)
(* reference, so that the Crash() of IODecrement is out of reach.          *)
(***************************************************************************)
EXTENDS LanServerProps, TLAPS, FiniteSetTheorems, SequenceTheorems

-----------------------------------------------------------------------------
(* Types of the constants and of the parts of the state *)

LEMMA ConstantTypes ==
  /\ 0 \in Slots /\ NoConn \in Ids /\ NoPack \in Packets
  /\ Conns \subseteq Ids /\ Acceptor \in Threads
  /\ Workers \subseteq Threads /\ Callers \subseteq Threads
BY SizesAssumption DEF Slots, Ids, Conns, NoConn, NoPack, Packets, Threads

LEMMA SessionFields ==
  ASSUME NEW r \in SessionType
  PROVE  /\ r.IOCount \in Int /\ r.sock \in Ids /\ r.SessionID \in Ids
         /\ r.UseFlag \in BOOLEAN /\ r.SendFlag \in BOOLEAN
         /\ r.SendQ \in Seq(Packets) /\ r.SendPack \in Seq(Packets)
         /\ r.RecvQ \in Seq(Units) /\ r.RecvOver \in Seq(Ids)
         /\ r.SendOver \in Seq([sock : Ids, buf : Seq(Packets)])
         /\ \A x \in Int : [r EXCEPT !.IOCount = x] \in SessionType
         /\ \A x \in BOOLEAN : [r EXCEPT !.UseFlag = x] \in SessionType
         /\ \A x \in Ids : [r EXCEPT !.sock = x] \in SessionType
         /\ \A x \in Ids : [r EXCEPT !.SessionID = x] \in SessionType
         /\ \A x \in BOOLEAN : [r EXCEPT !.SendFlag = x] \in SessionType
         /\ \A x \in Seq(Packets) : [r EXCEPT !.SendQ = x] \in SessionType
         /\ \A x \in Seq(Packets) : [r EXCEPT !.SendPack = x] \in SessionType
         /\ \A x \in Seq(Units) : [r EXCEPT !.RecvQ = x] \in SessionType
         /\ \A x \in Seq(Ids) : [r EXCEPT !.RecvOver = x] \in SessionType
         /\ \A x \in Seq([sock : Ids, buf : Seq(Packets)]) :
              [r EXCEPT !.SendOver = x] \in SessionType
BY DEF SessionType

LEMMA ThreadFields ==
  ASSUME NEW r \in ThreadType
  PROVE  /\ r.pc \in Labels /\ r.back \in Labels /\ r.slot \in Slots
         /\ r.held \in SUBSET Kinds /\ r.arg \in Ids /\ r.msg \in Packets
         /\ r.batch \in Seq(Packets)
         /\ \A x \in Labels : [r EXCEPT !.pc = x] \in ThreadType
         /\ \A x \in Labels : [r EXCEPT !.back = x] \in ThreadType
         /\ \A x \in Slots : [r EXCEPT !.slot = x] \in ThreadType
         /\ \A x \in SUBSET Kinds : [r EXCEPT !.held = x] \in ThreadType
         /\ \A x \in Ids : [r EXCEPT !.arg = x] \in ThreadType
         /\ \A x \in Packets : [r EXCEPT !.msg = x] \in ThreadType
         /\ \A x \in Seq(Packets) : [r EXCEPT !.batch = x] \in ThreadType
BY DEF ThreadType

LEMMA ConnFields ==
  ASSUME NEW r \in ConnType
  PROVE  /\ r.sock \in {"none", "open", "shut", "closed"} /\ r.index \in Slots
         /\ r.peer \in {"up", "gone"} /\ r.asked \in Nat /\ r.inbound \in Seq(Units)
         /\ r.wire \in Seq(Nat) /\ r.joins \in Nat /\ r.leaves \in Nat
         /\ \A x \in {"none", "open", "shut", "closed"} : [r EXCEPT !.sock = x] \in ConnType
         /\ \A x \in Slots : [r EXCEPT !.index = x] \in ConnType
         /\ \A x \in {"up", "gone"} : [r EXCEPT !.peer = x] \in ConnType
         /\ \A x \in Nat : [r EXCEPT !.asked = x] \in ConnType
         /\ \A x \in Seq(Units) : [r EXCEPT !.inbound = x] \in ConnType
         /\ \A x \in Seq(Nat) : [r EXCEPT !.wire = x] \in ConnType
         /\ \A x \in Nat : [r EXCEPT !.joins = x] \in ConnType
         /\ \A x \in Nat : [r EXCEPT !.leaves = x] \in ConnType
BY DEF ConnType

LEMMA InitTypeOK == Init => TypeOK
<1> SUFFICES ASSUME Init PROVE TypeOK
  OBVIOUS
<1> USE ConstantTypes DEF Init
<1>1. NewSession \in SessionType
  BY DEF NewSession, SessionType
<1>2. NewThread \in ThreadType
  BY DEF NewThread, ThreadType, Labels, Kinds
<1>3. NewConn \in ConnType
  BY DEF NewConn, ConnType
<1>4. emptySession \in Seq(Slots)
  BY SizesAssumption DEF Slots
<1>5. sweep \in 0 .. SessionMax
  BY SizesAssumption
<1> QED
  <2>1. Session \in [Slots -> SessionType]
    BY <1>1
  <2>2. th \in [Threads -> ThreadType]
    BY <1>2
  <2>3. net \in [Ids -> ConnType] /\ refs \in [Packets -> Int]
    BY <1>3
  <2> QED
    BY <1>4, <1>5, <2>1, <2>2, <2>3 DEF TypeOK

-----------------------------------------------------------------------------
(* The updates the actions make *)

\* What the type invariant says of a thread and the session it works on.
LEMMA Typed ==
  ASSUME TypeOK, NEW t \in Threads
  PROVE  /\ th[t] \in ThreadType /\ th[t].slot \in Slots
         /\ Session[th[t].slot] \in SessionType
         /\ net[th[t].arg] \in ConnType
BY ThreadFields DEF TypeOK

LEMMA SessionUpdates ==
  ASSUME TypeOK, NEW s \in Slots
  PROVE  /\ \A x \in Int : [Session EXCEPT ![s].IOCount = x] \in [Slots -> SessionType]
         /\ \A x \in BOOLEAN : [Session EXCEPT ![s].UseFlag = x] \in [Slots -> SessionType]
         /\ \A x \in Ids : [Session EXCEPT ![s].sock = x] \in [Slots -> SessionType]
         /\ \A x \in Ids : [Session EXCEPT ![s].SessionID = x] \in [Slots -> SessionType]
         /\ \A x \in BOOLEAN : [Session EXCEPT ![s].SendFlag = x] \in [Slots -> SessionType]
         /\ \A x \in Seq(Packets) : [Session EXCEPT ![s].SendQ = x] \in [Slots -> SessionType]
         /\ \A x \in Seq(Packets) :
              [Session EXCEPT ![s].SendPack = x] \in [Slots -> SessionType]
         /\ \A x, y \in Seq(Packets) :
              [Session EXCEPT ![s].SendQ = x, ![s].SendPack = y] \in [Slots -> SessionType]
         /\ \A x \in Seq(Units) : [Session EXCEPT ![s].RecvQ = x] \in [Slots -> SessionType]
         /\ \A x \in Seq(Ids) : [Session EXCEPT ![s].RecvOver = x] \in [Slots -> SessionType]
         /\ \A x \in Seq(Ids), y \in Seq(Units) :
              [Session EXCEPT ![s].RecvOver = x, ![s].RecvQ = y] \in [Slots -> SessionType]
         /\ \A x \in Seq([sock : Ids, buf : Seq(Packets)]) :
              [Session EXCEPT ![s].SendOver = x] \in [Slots -> SessionType]
BY SessionFields DEF TypeOK

LEMMA ThreadUpdates ==
  ASSUME TypeOK, NEW t \in Threads, NEW l \in Labels
  PROVE  /\ [th EXCEPT ![t].pc = l] \in [Threads -> ThreadType]
         /\ \A h \in SUBSET Kinds :
              [th EXCEPT ![t].held = h, ![t].pc = l] \in [Threads -> ThreadType]
         /\ \A h \in SUBSET Kinds, b \in Labels :
              [th EXCEPT ![t].held = h, ![t].back = b, ![t].pc = l] \in [Threads -> ThreadType]
         /\ \A s \in Slots, h \in SUBSET Kinds :
              [th EXCEPT ![t].slot = s, ![t].held = h, ![t].pc = l] \in [Threads -> ThreadType]
         /\ \A s \in Slots, c \in Ids :
              [th EXCEPT ![t].slot = s, ![t].arg = c, ![t].pc = l] \in [Threads -> ThreadType]
         /\ \A c \in Ids, p \in Packets :
              [th EXCEPT ![t].pc = l, ![t].arg = c, ![t].msg = p] \in [Threads -> ThreadType]
         /\ \A c \in Ids, p \in Packets :
              [th EXCEPT ![t].msg = p, ![t].arg = c, ![t].pc = l] \in [Threads -> ThreadType]
         /\ \A b \in Seq(Packets) : [th EXCEPT ![t].batch = b] \in [Threads -> ThreadType]
         /\ \A b \in Seq(Packets) :
              [th EXCEPT ![t].batch = b, ![t].pc = l] \in [Threads -> ThreadType]
         /\ \A b \in Seq(Packets), h \in SUBSET Kinds :
              [th EXCEPT ![t].batch = b, ![t].held = h, ![t].pc = l] \in [Threads -> ThreadType]
BY ThreadFields DEF TypeOK

LEMMA ConnUpdates ==
  ASSUME TypeOK, NEW c \in Ids
  PROVE  /\ \A x \in {"none", "open", "shut", "closed"} :
              [net EXCEPT ![c].sock = x] \in [Ids -> ConnType]
         /\ \A x \in {"none", "open", "shut", "closed"}, s \in Slots :
              [net EXCEPT ![c].sock = x, ![c].index = s] \in [Ids -> ConnType]
         /\ \A x \in {"up", "gone"} : [net EXCEPT ![c].peer = x] \in [Ids -> ConnType]
         /\ \A x \in Nat, q \in Seq(Units) :
              [net EXCEPT ![c].asked = x, ![c].inbound = q] \in [Ids -> ConnType]
         /\ \A q \in Seq(Units) : [net EXCEPT ![c].inbound = q] \in [Ids -> ConnType]
         /\ \A q \in Seq(Nat) : [net EXCEPT ![c].wire = q] \in [Ids -> ConnType]
         /\ \A x \in Nat : [net EXCEPT ![c].joins = x] \in [Ids -> ConnType]
         /\ \A x \in Nat : [net EXCEPT ![c].leaves = x] \in [Ids -> ConnType]
BY ConnFields DEF TypeOK

LEMMA RefsUpdates ==
  ASSUME TypeOK, NEW p \in Packets
  PROVE  refs[p] \in Int /\ \A x \in Int : [refs EXCEPT ![p] = x] \in [Packets -> Int]
BY DEF TypeOK

LEMMA GotoType ==
  ASSUME TypeOK, NEW t \in Threads, NEW l \in Labels, Goto(t, l)
  PROVE  th' \in [Threads -> ThreadType]
BY ThreadUpdates DEF Goto

LEMMA ShutDownType ==
  ASSUME TypeOK, NEW c \in Ids, ShutDown(c)
  PROVE  net' \in [Ids -> ConnType]
<1>1. (IF net[c].sock = "open" THEN "shut" ELSE net[c].sock) \in {"none", "open", "shut", "closed"}
  BY ConnFields DEF TypeOK
<1> QED
  BY <1>1, ConnUpdates DEF ShutDown

LEMMA TakeType ==
  ASSUME TypeOK, NEW t \in Threads, NEW k \in Kinds, NEW l \in Labels, Take(t, k, l)
  PROVE  Session' \in [Slots -> SessionType] /\ th' \in [Threads -> ThreadType]
<1>1. Session[th[t].slot].IOCount + 1 \in Int
  BY Typed, SessionFields
<1>2. Session' \in [Slots -> SessionType]
  BY <1>1, Typed, SessionUpdates DEF Take
<1>3. th[t].held \cup {k} \in SUBSET Kinds
  BY Typed, ThreadFields
<1>4. th' \in [Threads -> ThreadType]
  BY <1>3, ThreadUpdates DEF Take
<1> QED
  BY <1>2, <1>4

LEMMA IODecrementType ==
  ASSUME TypeOK, NEW t \in Threads, NEW k \in Kinds, NEW l \in Labels, IODecrement(t, k, l)
  PROVE  TypeOK'
<1>1. Session[th[t].slot].IOCount - 1 \in Int
  BY Typed, SessionFields
<1>2. Session' \in [Slots -> SessionType]
  BY <1>1, Typed, SessionUpdates DEF IODecrement
<1>3. (IF Session[th[t].slot].IOCount = 1 THEN "Release" ELSE l) \in Labels
  BY DEF Labels
<1>4. th[t].held \ {k} \in SUBSET Kinds
  BY Typed, ThreadFields
<1>5. th' \in [Threads -> ThreadType]
  BY <1>3, <1>4, ThreadUpdates DEF IODecrement
<1> QED
  BY <1>2, <1>5 DEF TypeOK, IODecrement, pool

LEMMA CallType ==
  ASSUME TypeOK, NEW t \in Threads, NEW c \in Ids, NEW p \in Packets, Call(t, c, p)
  PROVE  th' \in [Threads -> ThreadType] /\ refs' \in [Packets -> Int]
<1> "Find" \in Labels
  BY DEF Labels
<1>1. th' \in [Threads -> ThreadType]
  BY ThreadUpdates DEF Call
<1>2. refs' \in [Packets -> Int]
  BY DEF Call, TypeOK
<1> QED
  BY <1>1, <1>2

LEMMA BeginType ==
  ASSUME TypeOK, NEW w \in Threads, NEW s \in Slots, NEW l \in Labels, Begin(w, s, l)
  PROVE  th' \in [Threads -> ThreadType]
<1>1. {"event"} \in SUBSET Kinds
  BY DEF Kinds
<1> QED
  BY <1>1, ThreadUpdates DEF Begin

-----------------------------------------------------------------------------
(* Every action keeps the types *)

LEMMA DecrementsType ==
  ASSUME TypeOK, NEW t \in Threads, EndPost(t) \/ EndPostEmpty(t) \/ EndCall(t) \/ EndEvent(t)
  PROVE  TypeOK'
<1>1. AfterPost(t) \in Labels
  BY DEF AfterPost, Labels
<1>2. /\ {"ClearFlag", "FreeMsg", "idle"} \subseteq Labels
      /\ {"post", "call", "event"} \subseteq Kinds
  BY DEF Labels, Kinds
<1>3. CASE EndPost(t)
  BY <1>1, <1>2, <1>3, IODecrementType DEF EndPost
<1>4. CASE EndPostEmpty(t)
  BY <1>2, <1>4, IODecrementType DEF EndPostEmpty
<1>5. CASE EndCall(t)
  BY <1>2, <1>5, IODecrementType DEF EndCall
<1>6. CASE EndEvent(t)
  BY <1>2, <1>6, IODecrementType DEF EndEvent
<1> QED
  BY <1>3, <1>4, <1>5, <1>6

LEMMA GotoOnlyType ==
  ASSUME TypeOK, NEW t \in Threads, NEW l \in Labels, Goto(t, l),
         UNCHANGED <<Session, pool, refs, net, rest>>
  PROVE  TypeOK'
BY GotoType DEF TypeOK, pool, rest

LEMMA PlainReadsType ==
  ASSUME TypeOK, NEW t \in Threads,
         Release(t) \/ FindUse(t) \/ FindID(t) \/ Recheck(t) \/ Quit(t)
  PROVE  TypeOK'
<1>1. {"Leave", "FindID", "EndCall", "Disconnect", "Enqueue", "PostSend", "EndEvent", "done"}
      \subseteq Labels
  BY DEF Labels
<1>2. th[t].back \in Labels
  BY Typed, ThreadFields
<1>3. CASE Release(t)
  BY <1>1, <1>2, <1>3, GotoOnlyType DEF Release, Step
<1>4. CASE FindUse(t)
  BY <1>1, <1>4, GotoOnlyType DEF FindUse, Step
<1>5. CASE FindID(t)
  BY <1>1, <1>5, GotoOnlyType DEF FindID, Step
<1>6. CASE Recheck(t)
  BY <1>1, <1>6, GotoOnlyType DEF Recheck, Step
<1>7. CASE Quit(t)
  BY <1>1, <1>7, GotoOnlyType DEF Quit, Step
<1> QED
  BY <1>3, <1>4, <1>5, <1>6, <1>7

LEMMA SessionReleaseType ==
  ASSUME TypeOK, NEW t \in Threads, SessionRelease(t)
  PROVE  TypeOK'
<1> DEFINE s == th[t].slot
<1>1. /\ s \in Slots /\ Session[s].sock \in Ids /\ Session[s].SessionID \in Ids
      /\ Session[s].SendQ \in Seq(Packets) /\ Session[s].SendPack \in Seq(Packets)
  BY Typed, SessionFields
<1>2. {"Close", "DrainQ", "DrainPack", "PushSlot"} \subseteq Labels /\ th[t].back \in Labels
  BY Typed, ThreadFields DEF Labels
<1>3. CASE Release(t)
  BY <1>3, PlainReadsType
<1>4. CASE Leave(t)
  <2>1. th' \in [Threads -> ThreadType]
    BY <1>2, <1>4, GotoType DEF Leave, Step
  <2>2. net[Session[s].SessionID] \in ConnType
    BY <1>1 DEF TypeOK
  <2>3. net[Session[s].SessionID].leaves \in Nat
    BY <2>2, ConnFields
  <2>4. net[Session[s].SessionID].leaves + 1 \in Nat
    BY <2>3
  <2>5. net' \in [Ids -> ConnType]
    BY <1>1, <1>4, <2>4, ConnUpdates DEF Leave
  <2> QED
    BY <1>4, <2>1, <2>5 DEF Leave, TypeOK, pool, rest
<1>5. CASE Close(t)
  <2>1. th' \in [Threads -> ThreadType]
    BY <1>2, <1>5, GotoType DEF Close, Step
  <2>2. net' \in [Ids -> ConnType]
    BY <1>1, <1>5, ConnUpdates DEF Close
  <2>3. << >> \in Seq(Units)
    OBVIOUS
  <2>4. Session' \in [Slots -> SessionType]
    BY <1>1, <1>5, <2>3, SessionUpdates DEF Close
  <2> QED
    BY <1>5, <2>1, <2>2, <2>4 DEF Close, TypeOK, pool, rest
<1>6. CASE DrainQ(t)
  <2>1. CASE Session[s].SendQ = <<>>
    <3>1. th' \in [Threads -> ThreadType] /\ UNCHANGED <<Session, refs>>
      BY <1>2, <1>6, <2>1, GotoType DEF DrainQ, Step
    <3> QED
      BY <1>6, <3>1 DEF DrainQ, TypeOK, pool, rest
  <2>2. CASE Session[s].SendQ # <<>>
    <3>1. Tail(Session[s].SendQ) \in Seq(Packets)
      BY <1>1, <2>2
    <3>2. Session' = [Session EXCEPT ![s].SendQ = Tail(Session[s].SendQ)]
      BY <1>6, <2>2 DEF DrainQ
    <3>3. Session' \in [Slots -> SessionType]
      BY <1>1, <3>1, <3>2, SessionUpdates
    <3>4. refs' \in [Packets -> Int] /\ UNCHANGED th
      BY <1>6, <2>2 DEF DrainQ, TypeOK
    <3> QED
      BY <1>6, <3>3, <3>4 DEF DrainQ, TypeOK, pool, rest
  <2> QED
    BY <2>1, <2>2
<1>7. CASE DrainPack(t)
  <2>1. CASE Session[s].SendPack = <<>>
    <3>1. th' \in [Threads -> ThreadType] /\ UNCHANGED <<Session, refs>>
      BY <1>2, <1>7, <2>1, GotoType DEF DrainPack, Step
    <3>2. UseSessionCnt' \in Int
      BY <1>7, <2>1 DEF DrainPack, TypeOK
    <3> QED
      BY <1>7, <3>1, <3>2 DEF DrainPack, TypeOK, rest
  <2>2. CASE Session[s].SendPack # <<>>
    <3>1. Front(Session[s].SendPack) \in Seq(Packets)
      BY <1>1, <2>2 DEF Front
    <3>2. Session' \in [Slots -> SessionType]
      BY <1>1, <1>7, <2>2, <3>1, SessionUpdates DEF DrainPack
    <3>3. refs' \in [Packets -> Int] /\ UNCHANGED <<th, UseSessionCnt>>
      BY <1>7, <2>2 DEF DrainPack, TypeOK
    <3> QED
      BY <1>7, <3>2, <3>3 DEF DrainPack, TypeOK, rest
  <2> QED
    BY <2>1, <2>2
<1>8. CASE PushSlot(t)
  <2>1. th' \in [Threads -> ThreadType]
    BY <1>2, <1>8, GotoType DEF PushSlot, Step
  <2>2. net[Session[s].SessionID].index \in Slots
    BY <1>1, ConnFields DEF TypeOK
  <2>3. emptySession' \in Seq(Slots)
    BY <1>8, <2>2 DEF PushSlot, TypeOK
  <2> QED
    BY <1>8, <2>1, <2>3 DEF PushSlot, TypeOK, rest
<1> QED
  BY <1>3, <1>4, <1>5, <1>6, <1>7, <1>8 DEF SessionRelease

LEMMA FindType ==
  ASSUME TypeOK, NEW t \in Threads, Find(t)
  PROVE  TypeOK'
<1> DEFINE s == net[th[t].arg].index
           l == IF Session[s].IOCount = 0 THEN "EndCall" ELSE "FindUse"
<1>1. s \in Slots
  BY Typed, ConnFields
<1>2. Session[s] \in SessionType
  BY <1>1 DEF TypeOK
<1>3. Session[s].IOCount \in Int
  BY <1>2, SessionFields
<1>4. Session[s].IOCount + 1 \in Int
  BY <1>3
<1>5. Session' \in [Slots -> SessionType]
  BY <1>1, <1>4, SessionUpdates DEF Find
<1>6. th[t].held \cup {"call"} \in SUBSET Kinds
  BY Typed, ThreadFields DEF Kinds
<1>7. l \in Labels
  BY DEF Labels
<1>8. th' = [th EXCEPT ![t].slot = s, ![t].held = @ \cup {"call"}, ![t].pc = l]
  BY DEF Find
<1>9. th' \in [Threads -> ThreadType]
  <2> HIDE DEF s, l
  <2> QED
    BY <1>1, <1>6, <1>7, <1>8, ThreadUpdates
<1> QED
  BY <1>5, <1>9 DEF Find, TypeOK, pool, rest

LEMMA SendPacketType ==
  ASSUME TypeOK, NEW t \in Threads, Disconnect(t) \/ Enqueue(t) \/ FreeMsg(t)
  PROVE  TypeOK'
<1> DEFINE s == th[t].slot
           p == th[t].msg
<1>1. /\ s \in Slots /\ Session[s].sock \in Ids /\ Session[s].SendQ \in Seq(Packets)
      /\ p \in Packets
  BY Typed, SessionFields, ThreadFields
<1>2. {"EndCall", "PostSend", "FreeMsg"} \subseteq Labels /\ AfterCall(t) \in Labels
  BY DEF Labels, AfterCall
<1>3. CASE Disconnect(t)
  <2>1. th' \in [Threads -> ThreadType]
    BY <1>2, <1>3, GotoType DEF Disconnect, Step
  <2>2. net' \in [Ids -> ConnType]
    BY <1>1, <1>3, ShutDownType DEF Disconnect
  <2> QED
    BY <1>3, <2>1, <2>2 DEF Disconnect, TypeOK, pool, rest
<1>4. CASE Enqueue(t)
  <2>1. refs' \in [Packets -> Int]
    <3>1. refs' = [refs EXCEPT ![p] = refs[p] + 1]
      BY <1>4 DEF Enqueue
    <3>2. refs[p] \in Int
      BY <1>1, RefsUpdates
    <3> QED
      BY <1>1, <3>1, <3>2, RefsUpdates
  <2>2. CASE Len(Session[s].SendQ) < QueueMax /\ Goto(t, "PostSend")
             /\ Session' = [Session EXCEPT ![s].SendQ = Append(Session[s].SendQ, p)]
             /\ UNCHANGED net
    <3>1. Append(Session[s].SendQ, p) \in Seq(Packets)
      BY <1>1
    <3>2. Session' \in [Slots -> SessionType]
      BY <1>1, <2>2, <3>1, SessionUpdates
    <3>3. th' \in [Threads -> ThreadType]
      BY <1>2, <2>2, GotoType
    <3> QED
      BY <1>4, <2>1, <2>2, <3>2, <3>3 DEF Enqueue, TypeOK, pool, rest
  <2>3. CASE ShutDown(Session[s].sock) /\ UNCHANGED Session
             /\ th' = [th EXCEPT ![t].held = @ \ {"call"}, ![t].pc = "FreeMsg"]
    <3>1. net' \in [Ids -> ConnType]
      BY <1>1, <2>3, ShutDownType
    <3>2. th[t].held \ {"call"} \in SUBSET Kinds
      BY Typed, ThreadFields
    <3>3. th' \in [Threads -> ThreadType]
      BY <1>2, <2>3, <3>2, ThreadUpdates
    <3> QED
      BY <1>4, <2>1, <2>3, <3>1, <3>3 DEF Enqueue, TypeOK, pool, rest
  <2> QED
    BY <1>4, <2>2, <2>3 DEF Enqueue
<1>5. CASE FreeMsg(t)
  <2>1. th' \in [Threads -> ThreadType]
    BY <1>2, <1>5, ConstantTypes, ThreadUpdates DEF FreeMsg
  <2>2. refs' \in [Packets -> Int]
    <3>1. refs' = refs \/ refs' = [refs EXCEPT ![p] = refs[p] - 1]
      BY <1>5 DEF FreeMsg
    <3>2. refs[p] \in Int
      BY <1>1, RefsUpdates
    <3> QED
      BY <1>1, <3>1, <3>2, RefsUpdates DEF TypeOK
  <2> QED
    BY <1>5, <2>1, <2>2 DEF FreeMsg, TypeOK, pool, rest
<1> QED
  BY <1>3, <1>4, <1>5

LEMMA PostSendType ==
  ASSUME TypeOK, NEW t \in Threads,
         PostSend(t) \/ SetFlag(t) \/ Dequeue(t) \/ ClearFlag(t)
  PROVE  TypeOK'
<1> DEFINE s == th[t].slot
           q == Session[s].SendQ
           n == Len(th[t].batch)
<1>1. /\ s \in Slots /\ q \in Seq(Packets) /\ Session[s].SendPack \in Seq(Packets)
      /\ th[t].batch \in Seq(Packets)
  BY Typed, SessionFields, ThreadFields
<1>2. /\ {"SetFlag", "EndPost", "Dequeue", "EndPostEmpty", "WSASend"} \subseteq Labels
      /\ AfterPost(t) \in Labels /\ "post" \in Kinds
  BY DEF Labels, AfterPost, Kinds
<1>3. CASE PostSend(t)
  BY <1>2, <1>3, TakeType DEF PostSend, TypeOK, pool, rest
<1>4. CASE SetFlag(t)
  <2>1. th' \in [Threads -> ThreadType]
    BY <1>2, <1>4, GotoType DEF SetFlag, Step
  <2>2. Session' \in [Slots -> SessionType]
    BY <1>1, <1>4, SessionUpdates DEF SetFlag
  <2> QED
    BY <1>4, <2>1, <2>2 DEF SetFlag, TypeOK, pool, rest
<1>5. CASE Dequeue(t)
  <2>1. CASE q = <<>>
    <3>1. th' \in [Threads -> ThreadType]
      BY <1>2, <1>5, <2>1, GotoType DEF Dequeue
    <3> QED
      BY <1>5, <2>1, <3>1 DEF Dequeue, TypeOK, pool, rest
  <2>2. CASE q # <<>> /\ n < SendbufMax
    <3>1. /\ Tail(q) \in Seq(Packets) /\ Append(th[t].batch, Head(q)) \in Seq(Packets)
          /\ Append(Session[s].SendPack, Head(q)) \in Seq(Packets)
      BY <1>1, <2>2
    <3>2. /\ th' = [th EXCEPT ![t].batch = Append(th[t].batch, Head(q))]
          /\ Session' = [Session EXCEPT ![s].SendQ = Tail(q),
                                        ![s].SendPack = Append(Session[s].SendPack, Head(q))]
      <4>1. n \in Nat /\ SendbufMax \in Nat
        BY <1>1, SizesAssumption
      <4>2. ~(n >= SendbufMax)
        BY <2>2, <4>1
      <4> QED
        BY <1>5, <2>2, <4>2 DEF Dequeue
    <3>3. th' \in [Threads -> ThreadType]
      BY <1>2, <3>1, <3>2, ThreadUpdates
    <3>4. Session' \in [Slots -> SessionType]
      BY <1>1, <3>1, <3>2, SessionUpdates
    <3> QED
      BY <1>5, <3>3, <3>4 DEF Dequeue, TypeOK, pool, rest
  <2>3. CASE q # <<>> /\ ~(n < SendbufMax)
    <3>1. Tail(q) \in Seq(Packets)
      BY <1>1, <2>3
    <3>2. Goto(t, "WSASend") /\ Session' = [Session EXCEPT ![s].SendQ = Tail(q)]
      BY <1>5, <2>3 DEF Dequeue
    <3>3. th' \in [Threads -> ThreadType] /\ Session' \in [Slots -> SessionType]
      BY <1>1, <1>2, <3>1, <3>2, GotoType, SessionUpdates
    <3> QED
      BY <1>5, <3>3 DEF Dequeue, TypeOK, pool, rest
  <2> QED
    BY <2>1, <2>2, <2>3
<1>6. CASE ClearFlag(t)
  <2>1. th' \in [Threads -> ThreadType]
    BY <1>2, <1>6, GotoType DEF ClearFlag, Step
  <2>2. Session' \in [Slots -> SessionType]
    BY <1>1, <1>6, SessionUpdates DEF ClearFlag
  <2> QED
    BY <1>6, <2>1, <2>2 DEF ClearFlag, TypeOK, pool, rest
<1> QED
  BY <1>3, <1>4, <1>5, <1>6

LEMMA WSASendType ==
  ASSUME TypeOK, NEW t \in Threads, WSASend(t)
  PROVE  TypeOK'
<1> DEFINE s == th[t].slot
           c == Session[s].sock
           b == th[t].batch
           sent == [i \in 1 .. Len(b) |-> b[i][2]]
<1>1. /\ s \in Slots /\ c \in Ids /\ b \in Seq(Packets)
      /\ Session[s].SendOver \in Seq([sock : Ids, buf : Seq(Packets)])
  BY Typed, SessionFields, ThreadFields
<1>2. AfterPost(t) \in Labels /\ "EndPost" \in Labels /\ <<>> \in Seq(Packets)
  BY DEF AfterPost, Labels
<1>3. CASE /\ Session' = [Session EXCEPT ![s].SendOver = Append(Session[s].SendOver, [sock |-> c, buf |-> b])]
           /\ net' = [net EXCEPT ![c].wire = net[c].wire \o sent]
           /\ th' = [th EXCEPT ![t].batch = <<>>, ![t].held = th[t].held \ {"post"},
                               ![t].pc = AfterPost(t)]
  <2>1. Append(Session[s].SendOver, [sock |-> c, buf |-> b])
          \in Seq([sock : Ids, buf : Seq(Packets)])
    BY <1>1
  <2>2. Session' \in [Slots -> SessionType]
    BY <1>1, <1>3, <2>1, SessionUpdates
  <2>3. \A i \in 1 .. Len(b) : b[i][2] \in Nat
    BY <1>1, SizesAssumption DEF Packets
  <2>4. sent \in Seq(Nat)
    BY <1>1, <2>3
  <2>5. net[c].wire \in Seq(Nat)
    BY <1>1, ConnFields DEF TypeOK
  <2>6. net[c].wire \o sent \in Seq(Nat)
    BY <2>4, <2>5
  <2>7. net' \in [Ids -> ConnType]
    BY <1>1, <1>3, <2>6, ConnUpdates
  <2>8. th[t].held \ {"post"} \in SUBSET Kinds
    BY Typed, ThreadFields
  <2>9. th' \in [Threads -> ThreadType]
    BY <1>2, <1>3, <2>8, ThreadUpdates
  <2> QED
    BY <2>2, <2>7, <2>9 DEF WSASend, TypeOK, pool, rest
<1>4. CASE ShutDown(c) /\ th' = [th EXCEPT ![t].batch = <<>>, ![t].pc = "EndPost"]
             /\ UNCHANGED Session
  <2>1. net' \in [Ids -> ConnType]
    BY <1>1, <1>4, ShutDownType
  <2>2. th' \in [Threads -> ThreadType]
    BY <1>2, <1>4, ThreadUpdates
  <2> QED
    BY <1>4, <2>1, <2>2 DEF WSASend, TypeOK, pool, rest
<1> QED
  BY <1>3, <1>4 DEF WSASend

LEMMA PostRecvType ==
  ASSUME TypeOK, NEW t \in Threads, PostRecv(t) \/ WSARecv(t)
  PROVE  TypeOK'
<1> DEFINE s == th[t].slot
           c == Session[s].sock
<1>1. s \in Slots /\ c \in Ids /\ Session[s].RecvOver \in Seq(Ids)
  BY Typed, SessionFields
<1>2. {"WSARecv", "EndEvent", "EndPost"} \subseteq Labels /\ "post" \in Kinds
  BY DEF Labels, Kinds
<1>3. CASE PostRecv(t)
  BY <1>2, <1>3, TakeType DEF PostRecv, TypeOK, pool, rest
<1>4. CASE WSARecv(t)
  <2>1. CASE /\ Session' = [Session EXCEPT ![s].RecvOver = Append(Session[s].RecvOver, c)]
             /\ th' = [th EXCEPT ![t].held = th[t].held \ {"post"}, ![t].pc = "EndEvent"]
             /\ UNCHANGED net
    <3>1. Append(Session[s].RecvOver, c) \in Seq(Ids)
      BY <1>1
    <3>2. Session' \in [Slots -> SessionType]
      BY <1>1, <2>1, <3>1, SessionUpdates
    <3>3. th[t].held \ {"post"} \in SUBSET Kinds
      BY Typed, ThreadFields
    <3>4. th' \in [Threads -> ThreadType]
      BY <1>2, <2>1, <3>3, ThreadUpdates
    <3> QED
      BY <1>4, <2>1, <3>2, <3>4 DEF WSARecv, TypeOK, pool, rest
  <2>2. CASE ShutDown(c) /\ Goto(t, "EndPost") /\ UNCHANGED Session
    <3>1. net' \in [Ids -> ConnType] /\ th' \in [Threads -> ThreadType]
      BY <1>1, <1>2, <2>2, ShutDownType, GotoType
    <3> QED
      BY <1>4, <2>2, <3>1 DEF WSARecv, TypeOK, pool, rest
  <2> QED
    BY <1>4, <2>1, <2>2 DEF WSARecv
<1> QED
  BY <1>3, <1>4

LEMMA AcceptType ==
  ASSUME TypeOK, Accept
  PROVE  TypeOK'
<1>1. {"done", "TakeSlot"} \subseteq Labels
  BY DEF Labels
<1>2. PICK c \in Conns :
        \/ /\ net' = [net EXCEPT ![c].sock = "closed"]
           /\ Goto(Acceptor, "done")
           /\ UNCHANGED emptySession
        \/ /\ emptySession # <<>>
           /\ net' = [net EXCEPT ![c].sock = "open", ![c].index = Last(emptySession)]
           /\ emptySession' = Front(emptySession)
           /\ th' = [th EXCEPT ![Acceptor].slot = Last(emptySession),
                               ![Acceptor].arg = c, ![Acceptor].pc = "TakeSlot"]
  BY DEF Accept
<1>3. c \in Ids /\ Acceptor \in Threads
  BY ConstantTypes
<1>4. CASE net' = [net EXCEPT ![c].sock = "closed"] /\ Goto(Acceptor, "done")
             /\ UNCHANGED emptySession
  <2>1. net' \in [Ids -> ConnType] /\ th' \in [Threads -> ThreadType]
    BY <1>1, <1>3, <1>4, ConnUpdates, GotoType
  <2> QED
    BY <1>4, <2>1 DEF Accept, TypeOK, rest
<1>5. CASE /\ emptySession # <<>>
           /\ net' = [net EXCEPT ![c].sock = "open", ![c].index = Last(emptySession)]
           /\ emptySession' = Front(emptySession)
           /\ th' = [th EXCEPT ![Acceptor].slot = Last(emptySession),
                               ![Acceptor].arg = c, ![Acceptor].pc = "TakeSlot"]
  <2>1. emptySession \in Seq(Slots)
    BY DEF TypeOK
  <2>2. Last(emptySession) \in Slots /\ Front(emptySession) \in Seq(Slots)
    BY <1>5, <2>1 DEF Last, Front
  <2>3. net' \in [Ids -> ConnType]
    BY <1>3, <1>5, <2>2, ConnUpdates
  <2>4. th' \in [Threads -> ThreadType]
    BY <1>1, <1>3, <1>5, <2>2, ThreadUpdates
  <2> QED
    BY <1>5, <2>2, <2>3, <2>4 DEF Accept, TypeOK, rest
<1> QED
  BY <1>2, <1>4, <1>5

LEMMA AcceptThreadType ==
  ASSUME TypeOK, AcceptThread
  PROVE  TypeOK'
<1> DEFINE s == th[Acceptor].slot
           c == Session[s].SessionID
<1>1. /\ Acceptor \in Threads /\ s \in Slots /\ th[Acceptor].arg \in Ids
      /\ c \in Ids
  BY ConstantTypes, Typed, ThreadFields, SessionFields
<1>2. /\ {"done", "SetSock", "SetID", "SetUse", "ResetFlag", "Join", "PostRecv", "idle",
          "Release"} \subseteq Labels
      /\ "event" \in Kinds /\ {} \in SUBSET Kinds
  BY DEF Labels, Kinds
<1>3. CASE Accept
  BY <1>3, AcceptType
<1>4. CASE AcceptEnd
  BY <1>1, <1>2, <1>4, GotoOnlyType DEF AcceptEnd, Step
<1>5. CASE TakeSlot
  BY <1>1, <1>2, <1>5, TakeType DEF TakeSlot, TypeOK, pool, rest
<1>6. CASE SetSock
  <2>1. th' \in [Threads -> ThreadType] /\ Session' \in [Slots -> SessionType]
    BY <1>1, <1>2, <1>6, GotoType, SessionUpdates DEF SetSock, Step
  <2> QED
    BY <1>6, <2>1 DEF SetSock, TypeOK, pool, rest
<1>7. CASE SetID
  <2>1. th' \in [Threads -> ThreadType] /\ Session' \in [Slots -> SessionType]
    BY <1>1, <1>2, <1>7, GotoType, SessionUpdates DEF SetID, Step
  <2> QED
    BY <1>7, <2>1 DEF SetID, TypeOK, pool, rest
<1>8. CASE SetUse
  <2>1. th' \in [Threads -> ThreadType] /\ Session' \in [Slots -> SessionType]
    BY <1>1, <1>2, <1>8, GotoType, SessionUpdates DEF SetUse, Step
  <2> QED
    BY <1>8, <2>1 DEF SetUse, TypeOK, pool, rest
<1>9. CASE ResetFlag
  <2>1. th' \in [Threads -> ThreadType] /\ Session' \in [Slots -> SessionType]
    BY <1>1, <1>2, <1>9, GotoType, SessionUpdates DEF ResetFlag, Step
  <2> QED
    BY <1>9, <2>1 DEF ResetFlag, TypeOK, rest
<1>10. CASE Join
  <2>1. net[c].joins \in Nat
    BY <1>1, ConnFields DEF TypeOK
  <2>2. net[c].joins + 1 \in Nat
    BY <2>1
  <2>3. UNCHANGED net \/ net' = [net EXCEPT ![c].joins = net[c].joins + 1]
    BY <1>10 DEF Join
  <2>4. net' \in [Ids -> ConnType]
    <3>1. CASE UNCHANGED net
      BY <3>1 DEF TypeOK
    <3>2. CASE net' = [net EXCEPT ![c].joins = net[c].joins + 1]
      BY <1>1, <2>2, <3>2, ConnUpdates
    <3> QED
      BY <2>3, <3>1, <3>2
  <2>5. th' \in [Threads -> ThreadType] /\ refs' \in [Packets -> Int]
    <3>1. CASE Call(Acceptor, c, <<c, 0>>)
      <4>1. <<c, 0>> \in Packets
        BY <1>1, SizesAssumption DEF Packets
      <4> QED
        BY <1>1, <3>1, <4>1, CallType
    <3>2. CASE Goto(Acceptor, "PostRecv") /\ UNCHANGED refs
      BY <1>1, <1>2, <3>2, GotoType DEF TypeOK
    <3>3. CASE /\ th' = [th EXCEPT ![Acceptor].held = {}, ![Acceptor].back = "idle",
                                   ![Acceptor].pc = "Release"]
               /\ UNCHANGED <<net, refs>>
      BY <1>1, <1>2, <3>3, ThreadUpdates DEF TypeOK
    <3> QED
      BY <1>10, <3>1, <3>2, <3>3 DEF Join
  <2> QED
    BY <1>10, <2>4, <2>5 DEF Join, TypeOK, pool, rest
<1> QED
  BY <1>3, <1>4, <1>5, <1>6, <1>7, <1>8, <1>9, <1>10 DEF AcceptThread

LEMMA RemoveAtType ==
  ASSUME NEW S, NEW q \in Seq(S), NEW i \in DOMAIN q
  PROVE  RemoveAt(q, i) \in Seq(S)
<1>1. SubSeq(q, 1, i - 1) \in Seq(S) /\ SubSeq(q, i + 1, Len(q)) \in Seq(S)
  OBVIOUS
<1> QED
  BY <1>1 DEF RemoveAt

\* A completion of either kind leaves the list of outstanding operations.
LEMMA OverType ==
  ASSUME TypeOK, NEW s \in Slots
  PROVE  /\ \A i \in DOMAIN Session[s].RecvOver :
              /\ Session[s].RecvOver[i] \in Ids
              /\ RemoveAt(Session[s].RecvOver, i) \in Seq(Ids)
         /\ \A i \in DOMAIN Session[s].SendOver :
              [Session EXCEPT ![s].SendOver = RemoveAt(@, i)] \in [Slots -> SessionType]
<1>1. Session[s] \in SessionType
  BY DEF TypeOK
<1>2. /\ Session[s].RecvOver \in Seq(Ids)
      /\ Session[s].SendOver \in Seq([sock : Ids, buf : Seq(Packets)])
  BY <1>1, SessionFields
<1>3. ASSUME NEW i \in DOMAIN Session[s].RecvOver
      PROVE  Session[s].RecvOver[i] \in Ids /\ RemoveAt(Session[s].RecvOver, i) \in Seq(Ids)
  BY <1>2, RemoveAtType
<1>4. ASSUME NEW i \in DOMAIN Session[s].SendOver
      PROVE  [Session EXCEPT ![s].SendOver = RemoveAt(@, i)] \in [Slots -> SessionType]
  <2>1. RemoveAt(Session[s].SendOver, i) \in Seq([sock : Ids, buf : Seq(Packets)])
    BY <1>2, RemoveAtType
  <2> QED
    BY <2>1, SessionUpdates
<1> QED
  BY <1>3, <1>4

LEMMA CompletionsType ==
  ASSUME TypeOK, NEW w \in Threads, RecvDone(w) \/ SendDone(w) \/ ZeroDone(w)
  PROVE  TypeOK'
<1>1. {"Parse", "FreeSent", "Zero"} \subseteq Labels
  BY DEF Labels
<1>2. CASE RecvDone(w)
  <2>1. PICK s \in Slots, i \in Int, n \in Nat \ {0} :
          LET c == Session[s].RecvOver[i] IN
          /\ i \in DOMAIN Session[s].RecvOver
          /\ Begin(w, s, "Parse")
          /\ n <= Len(net[c].inbound)
          /\ Session' = [Session EXCEPT
               ![s].RecvOver = RemoveAt(Session[s].RecvOver, i),
               ![s].RecvQ = Session[s].RecvQ \o SubSeq(net[c].inbound, 1, n)]
          /\ net' = [net EXCEPT
               ![c].inbound = SubSeq(net[c].inbound, n + 1, Len(net[c].inbound))]
    <3>1. \A s \in Slots : DOMAIN Session[s].RecvOver \subseteq Int
      <4> TAKE s \in Slots
      <4>1. Session[s] \in SessionType
        BY DEF TypeOK
      <4>2. Session[s].RecvOver \in Seq(Ids)
        BY <4>1, SessionFields
      <4> QED
        BY <4>2
    <3>2. 1 .. RecvMax \subseteq Nat \ {0}
      BY SizesAssumption
    <3> QED
      BY <1>2, <3>1, <3>2 DEF RecvDone
  <2> DEFINE c == Session[s].RecvOver[i]
             q == net[c].inbound
  <2>2. c \in Ids /\ RemoveAt(Session[s].RecvOver, i) \in Seq(Ids)
    BY <2>1, OverType
  <2>3. q \in Seq(Units)
    <3>1. net[c] \in ConnType
      BY <2>2 DEF TypeOK
    <3> QED
      BY <3>1, ConnFields
  <2>4. SubSeq(q, 1, n) \in Seq(Units) /\ SubSeq(q, n + 1, Len(q)) \in Seq(Units)
    <3>1. n <= Len(q)
      BY <2>1
    <3> HIDE DEF q
    <3> QED
      BY <2>3, <3>1
  <2>5. Session[s].RecvQ \o SubSeq(q, 1, n) \in Seq(Units)
    <3>1. Session[s] \in SessionType
      BY DEF TypeOK
    <3>2. Session[s].RecvQ \in Seq(Units)
      BY <3>1, SessionFields
    <3> QED
      BY <2>4, <3>2
  <2>6. Session' \in [Slots -> SessionType]
    BY <2>1, <2>2, <2>5, SessionUpdates
  <2>7. net' \in [Ids -> ConnType]
    BY <2>1, <2>2, <2>4, ConnUpdates
  <2>8. th' \in [Threads -> ThreadType]
    BY <1>1, <2>1, BeginType
  <2>9. UNCHANGED <<emptySession, UseSessionCnt, refs, calls, main, sweep, quit, crashed>>
    BY <1>2 DEF RecvDone, pool, rest
  <2> QED
    BY <2>6, <2>7, <2>8, <2>9 DEF TypeOK
<1>3. CASE SendDone(w)
  <2>1. PICK r \in Slots : \E i \in DOMAIN Session[r].SendOver :
          /\ Begin(w, r, "FreeSent")
          /\ Session' = [Session EXCEPT ![r].SendOver = RemoveAt(@, i)]
    BY <1>3 DEF SendDone
  <2>2. Session' \in [Slots -> SessionType]
    BY <1>1, <2>1, OverType
  <2>3. th' \in [Threads -> ThreadType]
    BY <1>1, <2>1, BeginType
  <2> QED
    BY <1>3, <2>2, <2>3 DEF SendDone, TypeOK, pool, rest
<1>4. CASE ZeroDone(w)
  <2>1. PICK s \in Slots : Begin(w, s, "Zero")
          /\ \/ \E i \in DOMAIN Session[s].RecvOver :
                  Session' = [Session EXCEPT ![s].RecvOver = RemoveAt(Session[s].RecvOver, i)]
             \/ \E i \in DOMAIN Session[s].SendOver :
                  Session' = [Session EXCEPT ![s].SendOver = RemoveAt(@, i)]
    BY <1>4 DEF ZeroDone
  <2>2. Session' \in [Slots -> SessionType]
    <3>1. CASE \E i \in DOMAIN Session[s].RecvOver :
                 Session' = [Session EXCEPT ![s].RecvOver = RemoveAt(Session[s].RecvOver, i)]
      BY <3>1, OverType, SessionUpdates
    <3>2. CASE \E i \in DOMAIN Session[s].SendOver :
                 Session' = [Session EXCEPT ![s].SendOver = RemoveAt(@, i)]
      BY <3>2, OverType
    <3> QED
      BY <2>1, <3>1, <3>2
  <2>3. th' \in [Threads -> ThreadType]
    BY <1>1, <2>1, BeginType
  <2> QED
    BY <1>4, <2>2, <2>3 DEF ZeroDone, TypeOK, pool, rest
<1> QED
  BY <1>2, <1>3, <1>4

LEMMA ParseType ==
  ASSUME TypeOK, NEW w \in Threads, Parse(w)
  PROVE  TypeOK'
<1> DEFINE s == th[w].slot
           q == Session[s].RecvQ
           c == Session[s].SessionID
<1>1. /\ s \in Slots /\ c \in Ids /\ Session[s].sock \in Ids /\ q \in Seq(Units)
  BY Typed, SessionFields
<1>2. "PostRecv" \in Labels
  BY DEF Labels
<1>3. CASE ~(Len(q) >= 2 /\ q[1].kind = "head")
  <2>1. th' \in [Threads -> ThreadType] /\ UNCHANGED <<Session, refs>>
    BY <1>2, <1>3, GotoType DEF Parse
  <2>2. ShutDown(Session[s].sock) \/ UNCHANGED net
    BY <1>3 DEF Parse
  <2>3. net' \in [Ids -> ConnType]
    BY <1>1, <2>2, ShutDownType DEF TypeOK
  <2> QED
    BY <2>1, <2>3 DEF Parse, TypeOK, pool, rest
<1>4. CASE Len(q) >= 2 /\ q[1].kind = "head"
  <2>1. /\ Session' = [Session EXCEPT ![s].RecvQ = SubSeq(q, 3, Len(q))]
        /\ \/ Call(w, c, <<c, q[2].n>>) \/ Call(w, c, NoPack) \/ UNCHANGED <<th, refs>>
        /\ UNCHANGED net
    BY <1>4 DEF Parse
  <2>2. SubSeq(q, 3, Len(q)) \in Seq(Units)
    BY <1>1, <1>4
  <2>3. Session' \in [Slots -> SessionType]
    BY <1>1, <2>1, <2>2, SessionUpdates
  <2>4. q[2] \in Units
    BY <1>1, <1>4
  <2>5. <<c, q[2].n>> \in Packets
    BY <1>1, <2>4, SizesAssumption DEF Packets, Units
  <2>6. th' \in [Threads -> ThreadType] /\ refs' \in [Packets -> Int]
    BY <1>1, <2>1, <2>5, CallType, ConstantTypes DEF TypeOK
  <2> QED
    BY <2>1, <2>3, <2>6 DEF Parse, TypeOK, pool, rest
<1> QED
  BY <1>3, <1>4

LEMMA WorkerThreadType ==
  ASSUME TypeOK, NEW w \in Threads, WorkerThread(w)
  PROVE  TypeOK'
<1> DEFINE s == th[w].slot
           q == Session[s].SendPack
<1>1. s \in Slots /\ q \in Seq(Packets) /\ Session[s].sock \in Ids
  BY Typed, SessionFields
<1>2. {"Recheck", "EndEvent"} \subseteq Labels
  BY DEF Labels
<1>3. CASE RecvDone(w) \/ SendDone(w) \/ ZeroDone(w)
  BY <1>3, CompletionsType
<1>4. CASE Zero(w)
  <2>1. th' \in [Threads -> ThreadType] /\ net' \in [Ids -> ConnType]
    BY <1>1, <1>2, <1>4, GotoType, ShutDownType DEF Zero, Step
  <2> QED
    BY <1>4, <2>1 DEF Zero, TypeOK, pool, rest
<1>5. CASE Quit(w) \/ Recheck(w)
  BY <1>5, PlainReadsType
<1>6. CASE Parse(w)
  BY <1>6, ParseType
<1>7. CASE FreeSent(w)
  <2>1. CASE q # <<>>
    <3>1. /\ refs' = [refs EXCEPT ![Last(q)] = refs[Last(q)] - 1]
          /\ Session' = [Session EXCEPT ![s].SendPack = Front(q)]
          /\ UNCHANGED th
      BY <1>7, <2>1 DEF FreeSent
    <3>2. Front(q) \in Seq(Packets) /\ Last(q) \in Packets
      BY <1>1, <2>1 DEF Front, Last
    <3>3. Session' \in [Slots -> SessionType]
      BY <1>1, <3>1, <3>2, SessionUpdates
    <3>4. refs[Last(q)] \in Int
      BY <3>2, RefsUpdates
    <3>5. refs' \in [Packets -> Int]
      BY <3>1, <3>2, <3>4, RefsUpdates
    <3> QED
      BY <1>7, <3>1, <3>3, <3>5 DEF FreeSent, TypeOK, pool, rest
  <2>2. CASE q = <<>>
    <3>1. /\ Session' = [Session EXCEPT ![s].SendFlag = FALSE]
          /\ Goto(w, "Recheck") /\ UNCHANGED refs
      BY <1>7, <2>2 DEF FreeSent
    <3>2. Session' \in [Slots -> SessionType] /\ th' \in [Threads -> ThreadType]
      BY <1>1, <1>2, <3>1, SessionUpdates, GotoType
    <3> QED
      BY <1>7, <3>1, <3>2 DEF FreeSent, TypeOK, pool, rest
  <2> QED
    BY <2>1, <2>2
<1> QED
  BY <1>3, <1>4, <1>5, <1>6, <1>7 DEF WorkerThread

LEMMA ApplicationAndClientsType ==
  ASSUME TypeOK, (\E t \in Callers : AppCall(t)) \/ (\E c \in Conns : Client(c))
  PROVE  TypeOK'
<1>1. CASE \E t \in Callers : AppCall(t)
  <2>1. PICK t \in Threads, c \in Ids, p \in Packets : AppCall(t) /\ Call(t, c, p)
    <3>1. PICK t \in Callers : AppCall(t)
      BY <1>1
    <3>2. PICK c \in Conns : Call(t, c, NoPack) \/ Call(t, c, <<c, MaxMsgs + 1>>)
      BY <3>1 DEF AppCall
    <3>3. <<c, MaxMsgs + 1>> \in Packets
      BY ConstantTypes, SizesAssumption DEF Packets
    <3> QED
      BY <3>1, <3>2, <3>3, ConstantTypes
  <2>2. th' \in [Threads -> ThreadType] /\ refs' \in [Packets -> Int]
    BY <2>1, CallType
  <2> QED
    BY <2>1, <2>2 DEF AppCall, TypeOK, pool
<1>2. CASE \E c \in Conns : PeerSend(c)
  <2>1. PICK c \in Conns : PeerSend(c)
    BY <1>2
  <2> DEFINE n == net[c].asked + 1
  <2>2. PICK r \in {<<[kind |-> "head", n |-> n], [kind |-> "body", n |-> n]>>,
                    <<[kind |-> "bad", n |-> n]>>} :
          net' = [net EXCEPT ![c].asked = n, ![c].inbound = net[c].inbound \o r]
    BY <2>1 DEF PeerSend
  <2>3. net[c] \in ConnType /\ c \in Ids
    BY ConstantTypes DEF TypeOK
  <2>4. net[c].asked \in Nat /\ net[c].inbound \in Seq(Units)
    BY <2>3, ConnFields
  <2>5. n \in 1 .. MaxMsgs
    BY <2>1, <2>4, SizesAssumption DEF PeerSend
  <2>6. r \in Seq(Units)
    <3>1. \A k \in {"head", "bad", "body"} : [kind |-> k, n |-> n] \in Units
      BY <2>5 DEF Units
    <3> HIDE DEF n
    <3>2. CASE r = <<[kind |-> "bad", n |-> n]>>
      BY <3>1, <3>2
    <3>3. CASE r = <<[kind |-> "head", n |-> n], [kind |-> "body", n |-> n]>>
      BY <3>1, <3>3
    <3> QED
      BY <3>2, <3>3
  <2>7. net[c].inbound \o r \in Seq(Units) /\ n \in Nat
    BY <2>4, <2>6
  <2>8. net' \in [Ids -> ConnType]
    BY <2>2, <2>3, <2>7, ConnUpdates
  <2> QED
    BY <2>1, <2>8 DEF PeerSend, TypeOK, pool, rest
<1>3. CASE \E c \in Conns : PeerClose(c)
  <2>1. PICK c \in Conns : PeerClose(c)
    BY <1>3
  <2>2. net' \in [Ids -> ConnType]
    BY <2>1, ConstantTypes, ConnUpdates DEF PeerClose
  <2> QED
    BY <2>1, <2>2 DEF PeerClose, TypeOK, pool, rest
<1> QED
  BY <1>1, <1>2, <1>3 DEF Client

LEMMA StopType ==
  ASSUME TypeOK, Stop
  PROVE  TypeOK'
<1>1. CASE StopListen
  BY <1>1 DEF StopListen, TypeOK, pool
<1>2. CASE StopShut
  <2>1. Session[sweep].sock \in Ids
    <3>1. Session[sweep] \in SessionType
      BY <1>2 DEF StopShut, TypeOK
    <3> QED
      BY <3>1, SessionFields
  <2>2. net' \in [Ids -> ConnType]
    <3>1. ShutDown(Session[sweep].sock) \/ UNCHANGED net
      BY <1>2 DEF StopShut
    <3> QED
      BY <2>1, <3>1, ShutDownType DEF TypeOK
  <2>3. sweep' \in 0 .. SessionMax
    BY <1>2, SizesAssumption DEF StopShut, Slots
  <2> QED
    BY <1>2, <2>2, <2>3 DEF StopShut, TypeOK, pool
<1>3. CASE StopQuit
  BY <1>3 DEF StopQuit, TypeOK, pool
<1>4. CASE StopWait
  BY <1>4 DEF StopWait, TypeOK, pool
<1> QED
  BY <1>1, <1>2, <1>3, <1>4 DEF Stop

LEMMA CommonType ==
  ASSUME TypeOK, NEW t \in Threads, Common(t)
  PROVE  TypeOK'
<1>1. CASE EndPost(t) \/ EndPostEmpty(t) \/ EndCall(t) \/ EndEvent(t)
  BY <1>1, DecrementsType
<1>2. CASE SessionRelease(t)
  BY <1>2, SessionReleaseType
<1>3. CASE Find(t)
  BY <1>3, FindType
<1>4. CASE FindUse(t) \/ FindID(t)
  BY <1>4, PlainReadsType
<1>5. CASE Disconnect(t) \/ Enqueue(t) \/ FreeMsg(t)
  BY <1>5, SendPacketType
<1>6. CASE PostSend(t) \/ SetFlag(t) \/ Dequeue(t) \/ ClearFlag(t)
  BY <1>6, PostSendType
<1>7. CASE WSASend(t)
  BY <1>7, WSASendType
<1>8. CASE PostRecv(t) \/ WSARecv(t)
  BY <1>8, PostRecvType
<1> QED
  BY <1>1, <1>2, <1>3, <1>4, <1>5, <1>6, <1>7, <1>8 DEF Common

LEMMA StepTypeOK == TypeOK /\ [Next]_vars => TypeOK'
<1> SUFFICES ASSUME TypeOK, [Next]_vars PROVE TypeOK'
  OBVIOUS
<1>1. CASE UNCHANGED vars
  BY <1>1 DEF vars, pool, rest, TypeOK
<1>2. CASE \E t \in Threads : Common(t)
  BY <1>2, CommonType
<1>3. CASE AcceptThread
  BY <1>3, AcceptThreadType
<1>4. CASE \E w \in Workers : WorkerThread(w)
  BY <1>4, WorkerThreadType, ConstantTypes
<1>5. CASE (\E t \in Callers : AppCall(t)) \/ (\E c \in Conns : Client(c))
  BY <1>5, ApplicationAndClientsType
<1>6. CASE Stop
  BY <1>6, StopType
<1> QED
  BY <1>1, <1>2, <1>3, <1>4, <1>5, <1>6 DEF Next

\* Every variable of the server keeps its type: in particular a slot number is
\* always one of Session_Array, an id one of a connection, and a thread is
\* always at one of its known accesses.
THEOREM TypeCorrect == Spec => []TypeOK
BY InitTypeOK, StepTypeOK, PTL DEF Spec

-----------------------------------------------------------------------------
(* The inductive invariant *)

\* Where a thread is, or will be when the release it is in has ended.
Where(t) == IF th[t].pc \in Releasing THEN th[t].back ELSE th[t].pc

\* Between Take("post") and the call or the IODecrement that ends it; with the
\* reference of FindLockSession; in PostSend, which has it or runs on a completion.
Posting == {"SetFlag", "Dequeue", "EndPost", "EndPostEmpty", "WSASend", "WSARecv"}
Calling == {"FindUse", "FindID", "Disconnect", "Enqueue", "EndCall"}
Sending == {"PostSend", "SetFlag", "Dequeue", "EndPost", "EndPostEmpty", "WSASend", "ClearFlag"}

\* The references h a thread at l holds.
Carries(t, l, h) ==
  /\ "post" \in h <=> l \in Posting
  /\ l \in Calling => "call" \in h
  /\ "call" \in h => l \in Calling \cup Sending
  /\ "event" \in h <=> (t \notin Callers /\ l \notin {"idle", "done", "TakeSlot"})
  /\ t \in Callers => \/ l \in Calling \cup {"idle", "Find", "FreeMsg"}
                      \/ l \in Sending /\ "call" \in h

Ends == {"ClearFlag", "EndCall", "EndEvent", "FreeMsg", "idle"}

HoldingOf(t) ==
  /\ Carries(t, Where(t), th[t].held)
  /\ th[t].pc \in Releasing => th[t].back \in Ends

Holding == \A t \in Threads : HoldingOf(t)

\* Connection c was accepted into slot s, and the slot has been in use since.
Named(c, s) == c \in Conns /\ net[c].index = s /\ net[c].sock # "none"
InUse(s) == Session[s].SessionID # NoConn

\* A SessionID names its own slot, so a reference is taken where it is counted.
NamingOf(t) ==
  /\ th[t].held # {} /\ th[t].pc \notin {"SetSock", "SetID"} => InUse(th[t].slot)
  /\ th[t].pc = "Find" => \E s \in Slots : /\ Named(th[t].arg, s) /\ InUse(s)
                                           /\ t \notin Callers => s = th[t].slot

Naming ==
  /\ \A s \in Slots :
       /\ InUse(s) => Named(Session[s].SessionID, s)
       /\ Session[s].RecvOver # <<>> \/ Session[s].SendOver # <<>> => InUse(s)
  /\ \A c \in Conns : net[c].joins > 0 => net[c].sock # "none" /\ InUse(net[c].index)
  /\ \A t \in Threads : NamingOf(t)
  /\ th[Acceptor].pc \in {"TakeSlot", "SetSock", "SetID"} =>
       Named(th[Acceptor].arg, th[Acceptor].slot)

RefsInv == TypeOK /\ Holding /\ Naming /\ RefsCovered /\ NoCrash

-----------------------------------------------------------------------------
(* What a step leaves alone, and where it takes its thread *)

Alone(t) == \A u \in Threads \ {t} : th'[u] = th[u]
Moves(t, l, b, s, h) ==
  /\ Alone(t)
  /\ th'[t].pc = l /\ th'[t].back = b /\ th'[t].slot = s /\ th'[t].held = h

\* The parts of Session and net the invariant is about do not change.
SessionSame == \A s \in Slots :
  /\ Session'[s].IOCount = Session[s].IOCount /\ Session'[s].SessionID = Session[s].SessionID
  /\ Session'[s].RecvOver = Session[s].RecvOver /\ Session'[s].SendOver = Session[s].SendOver
NetSame == \A c \in Conns :
  /\ net'[c].index = net[c].index /\ net'[c].joins = net[c].joins
  /\ net[c].sock # "none" => net'[c].sock # "none"

LEMMA ThreadMoves ==
  ASSUME TypeOK, NEW t \in Threads
  PROVE  /\ \A l \in Labels : th' = [th EXCEPT ![t].pc = l]
              => Moves(t, l, th[t].back, th[t].slot, th[t].held) /\ th'[t].arg = th[t].arg
         /\ \A l \in Labels, h \in SUBSET Kinds : th' = [th EXCEPT ![t].held = h, ![t].pc = l]
              => Moves(t, l, th[t].back, th[t].slot, h) /\ th'[t].arg = th[t].arg
         /\ \A l, b \in Labels, h \in SUBSET Kinds :
              th' = [th EXCEPT ![t].held = h, ![t].back = b, ![t].pc = l]
              => Moves(t, l, b, th[t].slot, h)
         /\ \A l \in Labels, s \in Slots, h \in SUBSET Kinds :
              th' = [th EXCEPT ![t].slot = s, ![t].held = h, ![t].pc = l]
              => Moves(t, l, th[t].back, s, h)
         /\ \A l \in Labels, s \in Slots, c \in Ids :
              th' = [th EXCEPT ![t].slot = s, ![t].arg = c, ![t].pc = l]
              => Moves(t, l, th[t].back, s, th[t].held) /\ th'[t].arg = c
         /\ \A l \in Labels, c \in Ids, p \in Packets :
              th' = [th EXCEPT ![t].pc = l, ![t].arg = c, ![t].msg = p]
              => Moves(t, l, th[t].back, th[t].slot, th[t].held) /\ th'[t].arg = c
         /\ \A l \in Labels, c \in Ids, p \in Packets :
              th' = [th EXCEPT ![t].msg = p, ![t].arg = c, ![t].pc = l]
              => Moves(t, l, th[t].back, th[t].slot, th[t].held)
         /\ \A b \in Seq(Packets) : th' = [th EXCEPT ![t].batch = b]
              => Moves(t, th[t].pc, th[t].back, th[t].slot, th[t].held)
         /\ \A b \in Seq(Packets), l \in Labels : th' = [th EXCEPT ![t].batch = b, ![t].pc = l]
              => Moves(t, l, th[t].back, th[t].slot, th[t].held)
         /\ \A b \in Seq(Packets), l \in Labels, h \in SUBSET Kinds :
              th' = [th EXCEPT ![t].batch = b, ![t].held = h, ![t].pc = l]
              => Moves(t, l, th[t].back, th[t].slot, h)
<1>1. \A l \in Labels : th' = [th EXCEPT ![t].pc = l]
          => Moves(t, l, th[t].back, th[t].slot, th[t].held) /\ th'[t].arg = th[t].arg
  BY DEF TypeOK, ThreadType, Moves, Alone
<1>2. \A l \in Labels, h \in SUBSET Kinds : th' = [th EXCEPT ![t].held = h, ![t].pc = l]
          => Moves(t, l, th[t].back, th[t].slot, h) /\ th'[t].arg = th[t].arg
  BY DEF TypeOK, ThreadType, Moves, Alone
<1>3. \A l, b \in Labels, h \in SUBSET Kinds :
          th' = [th EXCEPT ![t].held = h, ![t].back = b, ![t].pc = l]
          => Moves(t, l, b, th[t].slot, h)
  BY DEF TypeOK, ThreadType, Moves, Alone
<1>4. \A l \in Labels, s \in Slots, h \in SUBSET Kinds :
          th' = [th EXCEPT ![t].slot = s, ![t].held = h, ![t].pc = l]
          => Moves(t, l, th[t].back, s, h)
  BY DEF TypeOK, ThreadType, Moves, Alone
<1>5. \A l \in Labels, s \in Slots, c \in Ids :
          th' = [th EXCEPT ![t].slot = s, ![t].arg = c, ![t].pc = l]
          => Moves(t, l, th[t].back, s, th[t].held) /\ th'[t].arg = c
  BY DEF TypeOK, ThreadType, Moves, Alone
<1>6. \A l \in Labels, c \in Ids, p \in Packets :
          th' = [th EXCEPT ![t].pc = l, ![t].arg = c, ![t].msg = p]
          => Moves(t, l, th[t].back, th[t].slot, th[t].held) /\ th'[t].arg = c
  BY DEF TypeOK, ThreadType, Moves, Alone
<1>7. \A l \in Labels, c \in Ids, p \in Packets :
          th' = [th EXCEPT ![t].msg = p, ![t].arg = c, ![t].pc = l]
          => Moves(t, l, th[t].back, th[t].slot, th[t].held)
  BY DEF TypeOK, ThreadType, Moves, Alone
<1>8. \A b \in Seq(Packets) : th' = [th EXCEPT ![t].batch = b]
          => Moves(t, th[t].pc, th[t].back, th[t].slot, th[t].held)
  BY DEF TypeOK, ThreadType, Moves, Alone
<1>9. \A b \in Seq(Packets), l \in Labels : th' = [th EXCEPT ![t].batch = b, ![t].pc = l]
          => Moves(t, l, th[t].back, th[t].slot, th[t].held)
  BY DEF TypeOK, ThreadType, Moves, Alone
<1>10. \A b \in Seq(Packets), l \in Labels, h \in SUBSET Kinds :
          th' = [th EXCEPT ![t].batch = b, ![t].held = h, ![t].pc = l]
          => Moves(t, l, th[t].back, th[t].slot, h)
  BY DEF TypeOK, ThreadType, Moves, Alone
<1> QED
  BY <1>1, <1>2, <1>3, <1>4, <1>5, <1>6, <1>7, <1>8, <1>9, <1>10

LEMMA SessionKept ==
  ASSUME TypeOK, NEW s \in Slots
  PROVE  /\ UNCHANGED Session => SessionSame
         /\ \A x : Session' = [Session EXCEPT ![s].SendFlag = x] => SessionSame
         /\ \A x : Session' = [Session EXCEPT ![s].UseFlag = x] => SessionSame
         /\ \A x : Session' = [Session EXCEPT ![s].sock = x] => SessionSame
         /\ \A x : Session' = [Session EXCEPT ![s].SendQ = x] => SessionSame
         /\ \A x : Session' = [Session EXCEPT ![s].SendPack = x] => SessionSame
         /\ \A x, y : Session' = [Session EXCEPT ![s].SendQ = x, ![s].SendPack = y]
                        => SessionSame
         /\ \A x : Session' = [Session EXCEPT ![s].RecvQ = x] => SessionSame
<1>0. Session \in [Slots -> SessionType]
  BY DEF TypeOK
<1>1. UNCHANGED Session => SessionSame
  BY <1>0 DEF SessionType, SessionSame
<1>2. \A x : Session' = [Session EXCEPT ![s].SendFlag = x] => SessionSame
  BY <1>0 DEF SessionType, SessionSame
<1>3. \A x : Session' = [Session EXCEPT ![s].UseFlag = x] => SessionSame
  BY <1>0 DEF SessionType, SessionSame
<1>4. \A x : Session' = [Session EXCEPT ![s].sock = x] => SessionSame
  BY <1>0 DEF SessionType, SessionSame
<1>5. \A x : Session' = [Session EXCEPT ![s].SendQ = x] => SessionSame
  BY <1>0 DEF SessionType, SessionSame
<1>6. \A x : Session' = [Session EXCEPT ![s].SendPack = x] => SessionSame
  BY <1>0 DEF SessionType, SessionSame
<1>7. \A x, y : Session' = [Session EXCEPT ![s].SendQ = x, ![s].SendPack = y]
                    => SessionSame
  BY <1>0 DEF SessionType, SessionSame
<1>8. \A x : Session' = [Session EXCEPT ![s].RecvQ = x] => SessionSame
  BY <1>0 DEF SessionType, SessionSame
<1> QED
  BY <1>1, <1>2, <1>3, <1>4, <1>5, <1>6, <1>7, <1>8

LEMMA NetKept ==
  ASSUME TypeOK, NEW c \in Ids
  PROVE  /\ UNCHANGED net => NetSame
         /\ ShutDown(c) => NetSame
         /\ net' = [net EXCEPT ![c].sock = "closed"] => NetSame
         /\ \A x \in {"up", "gone"} : net' = [net EXCEPT ![c].peer = x] => NetSame
         /\ \A x \in Nat : net' = [net EXCEPT ![c].leaves = x] => NetSame
         /\ \A x \in Seq(Nat) : net' = [net EXCEPT ![c].wire = x] => NetSame
         /\ \A x \in Seq(Units) : net' = [net EXCEPT ![c].inbound = x] => NetSame
         /\ \A x \in Nat, y \in Seq(Units) : net' = [net EXCEPT ![c].asked = x, ![c].inbound = y] => NetSame
<1>0. net \in [Ids -> ConnType] /\ Conns \subseteq Ids
  BY ConstantTypes DEF TypeOK
<1>1. UNCHANGED net => NetSame
  BY <1>0 DEF ConnType, NetSame
<1>2. ShutDown(c) => NetSame
  BY <1>0 DEF ConnType, NetSame, ShutDown
<1>3. net' = [net EXCEPT ![c].sock = "closed"] => NetSame
  BY <1>0 DEF ConnType, NetSame
<1>4. \A x \in {"up", "gone"} : net' = [net EXCEPT ![c].peer = x] => NetSame
  BY <1>0 DEF ConnType, NetSame
<1>5. \A x \in Nat : net' = [net EXCEPT ![c].leaves = x] => NetSame
  BY <1>0 DEF ConnType, NetSame
<1>6. \A x \in Seq(Nat) : net' = [net EXCEPT ![c].wire = x] => NetSame
  BY <1>0 DEF ConnType, NetSame
<1>7. \A x \in Seq(Units) : net' = [net EXCEPT ![c].inbound = x] => NetSame
  BY <1>0 DEF ConnType, NetSame
<1>8. \A x \in Nat, y \in Seq(Units) : net' = [net EXCEPT ![c].asked = x, ![c].inbound = y] => NetSame
  BY <1>0 DEF ConnType, NetSame
<1> QED
  BY <1>1, <1>2, <1>3, <1>4, <1>5, <1>6, <1>7, <1>8

-----------------------------------------------------------------------------
(* Counting the references threads hold *)

LEMMA KindsFinite == IsFiniteSet(Threads \X Kinds) /\ IsFiniteSet(Kinds)
<1>1. IsFiniteSet(Workers \cup Callers)
  BY ThreadsAssumption, FS_Union
<1>2. IsFiniteSet(Threads)
  BY <1>1, FS_AddElement DEF Threads
<1>3. IsFiniteSet({"event"}) /\ IsFiniteSet({"call"}) /\ IsFiniteSet({"post"})
  BY FS_Singleton
<1>4. Kinds = ({"event"} \cup {"call"}) \cup {"post"}
  BY DEF Kinds
<1>5. IsFiniteSet(Kinds)
  BY <1>3, <1>4, FS_Union
<1> QED
  BY <1>2, <1>5, FS_Product

LEMMA HeldFinite ==
  ASSUME NEW h \in SUBSET Kinds
  PROVE  IsFiniteSet(h) /\ Cardinality(h) \in Nat
BY KindsFinite, FS_Subset, FS_CardinalityType

\* A step of one thread changes the holdings of its old and its new slot only.
LEMMA HoldsChange ==
  ASSUME TypeOK, NEW t \in Threads, NEW l, NEW b, NEW s \in Slots, NEW h \in SUBSET Kinds,
         Moves(t, l, b, s, h), NEW x \in Slots
  PROVE  /\ Cardinality(Holds(x)) \in Nat /\ Cardinality(Holds(x)') \in Nat
         /\ Cardinality(Holds(x)')
              = Cardinality(Holds(x))
                - (IF th[t].slot = x THEN Cardinality(th[t].held) ELSE 0)
                + (IF s = x THEN Cardinality(h) ELSE 0)
<1> DEFINE others == {p \in Holds(x) : p[1] # t}
           mine   == IF th[t].slot = x THEN th[t].held ELSE {}
           mine2  == IF s = x THEN h ELSE {}
<1>1. mine \in SUBSET Kinds /\ mine2 \in SUBSET Kinds
  BY Typed, ThreadFields
<1>2. others \subseteq Threads \X Kinds /\ IsFiniteSet(others)
  BY KindsFinite, FS_Subset DEF Holds
<1>3. ASSUME NEW m \in SUBSET Kinds
      PROVE  Cardinality(others \cup ({t} \X m)) = Cardinality(others) + Cardinality(m)
  <2> DEFINE pairs == {t} \X m
  <2>1. IsFiniteSet(m) /\ Cardinality(m) \in Nat
    BY HeldFinite
  <2>2. IsFiniteSet({t}) /\ Cardinality({t}) = 1
    BY FS_Singleton
  <2>3. IsFiniteSet(pairs) /\ Cardinality(pairs) = Cardinality(m)
    BY <2>1, <2>2, FS_Product
  <2>4. others \cap pairs = {}
    OBVIOUS
  <2> HIDE DEF others, pairs
  <2>5. Cardinality(others \cap pairs) = 0
    BY <2>4, FS_EmptySet
  <2>6. Cardinality(others) \in Nat
    BY <1>2, FS_CardinalityType
  <2>7. Cardinality(others \cup pairs)
          = Cardinality(others) + Cardinality(pairs) - Cardinality(others \cap pairs)
    BY <1>2, <2>3, FS_Union
  <2>8. Cardinality(others \cup pairs) = Cardinality(others) + Cardinality(m)
    BY <2>1, <2>3, <2>5, <2>6, <2>7
  <2> QED
    BY <2>8 DEF pairs
<1>4. Holds(x) = others \cup ({t} \X mine)
  BY <1>1 DEF Holds
<1>5. Holds(x)' = others \cup ({t} \X mine2)
  BY <1>1 DEF Holds, Moves, Alone
<1>6. Cardinality(mine) = IF th[t].slot = x THEN Cardinality(th[t].held) ELSE 0
  BY FS_EmptySet
<1>7. Cardinality(mine2) = IF s = x THEN Cardinality(h) ELSE 0
  BY FS_EmptySet
<1>8. Cardinality(others) \in Nat /\ Cardinality(mine) \in Nat /\ Cardinality(mine2) \in Nat
  BY <1>1, <1>2, HeldFinite, FS_CardinalityType
<1> HIDE DEF others, mine, mine2
<1>9. /\ Cardinality(Holds(x)) = Cardinality(others) + Cardinality(mine)
      /\ Cardinality(Holds(x)') = Cardinality(others) + Cardinality(mine2)
  BY <1>1, <1>3, <1>4, <1>5
<1> QED
  BY <1>6, <1>7, <1>8, <1>9

\* Operations outstanding on a session's buffers.
Over(r) == Len(r.RecvOver) + Len(r.SendOver)

LEMMA SessionNumbers ==
  ASSUME NEW r \in SessionType
  PROVE  /\ r.IOCount \in Int /\ Len(r.RecvOver) \in Nat /\ Len(r.SendOver) \in Nat
         /\ Over(r) \in Nat
<1> DEFINE a == Len(r.RecvOver)
           b == Len(r.SendOver)
<1>1. /\ r.RecvOver \in Seq(Ids) /\ r.SendOver \in Seq([sock : Ids, buf : Seq(Packets)])
      /\ r.IOCount \in Int
  BY SessionFields
<1>2. a \in Nat /\ b \in Nat
  BY <1>1
<1>3. Over(r) = a + b
  BY DEF Over
<1> HIDE DEF a, b
<1>4. Over(r) \in Nat
  BY <1>2, <1>3
<1> QED
  BY <1>1, <1>2, <1>4 DEF a, b

\* A step that loses no reference.
ExactKept == RefsExact => RefsExact'

\* IOCount may grow, or lose what the thread and the kernel give up with it; when it
\* loses and gains just that, it stays exact.
LEMMA RefsStep ==
  ASSUME TypeOK, TypeOK', RefsCovered,
         NEW t \in Threads, NEW l, NEW b, NEW s \in Slots, NEW h \in SUBSET Kinds,
         Moves(t, l, b, s, h),
         \A x \in Slots :
           Session[x].IOCount - Over(Session[x]) - (IF th[t].slot = x THEN Cardinality(th[t].held) ELSE 0)
           <= Session'[x].IOCount - Over(Session'[x]) - (IF s = x THEN Cardinality(h) ELSE 0)
  PROVE  /\ RefsCovered'
         /\ (\A x \in Slots :
               Session[x].IOCount - Over(Session[x]) - (IF th[t].slot = x THEN Cardinality(th[t].held) ELSE 0)
               = Session'[x].IOCount - Over(Session'[x]) - (IF s = x THEN Cardinality(h) ELSE 0))
            => ExactKept
<1> DEFINE Before(x) == Session[x].IOCount - Over(Session[x])
                         - (IF th[t].slot = x THEN Cardinality(th[t].held) ELSE 0)
           After(x)  == Session'[x].IOCount - Over(Session'[x]) - (IF s = x THEN Cardinality(h) ELSE 0)
<1> SUFFICES ASSUME NEW x \in Slots
             PROVE  /\ (Session[x].IOCount >= References(x))'
                    /\ Before(x) = After(x) /\ Session[x].IOCount = References(x)
                       => (Session[x].IOCount = References(x))'
  BY DEF RefsCovered, RefsExact, ExactKept
<1> DEFINE io    == Session[x].IOCount
           recv  == Len(Session[x].RecvOver)
           send  == Len(Session[x].SendOver)
           mine  == IF th[t].slot = x THEN Cardinality(th[t].held) ELSE 0
           io2   == Session'[x].IOCount
           recv2 == Len(Session'[x].RecvOver)
           send2 == Len(Session'[x].SendOver)
           mine2 == IF s = x THEN Cardinality(h) ELSE 0
           n     == Cardinality(Holds(x))
           n2    == Cardinality(Holds(x)')
<1>1. n \in Nat /\ n2 \in Nat /\ n2 = n - mine + mine2
  BY HoldsChange
<1>2. Session[x] \in SessionType /\ Session'[x] \in SessionType
  BY DEF TypeOK
<1>3. /\ io \in Int /\ recv \in Nat /\ send \in Nat
      /\ io2 \in Int /\ recv2 \in Nat /\ send2 \in Nat
  BY <1>2, SessionNumbers
<1>4. mine \in Nat /\ mine2 \in Nat
  BY Typed, ThreadFields, HeldFinite
<1>5. io >= n + recv + send
  BY DEF RefsCovered, References
<1>6. io - (recv + send) - mine <= io2 - (recv2 + send2) - mine2
  BY DEF Over
<1>7. References(x)' = n2 + recv2 + send2
  BY DEF References
<1>8. io2 >= n2 + recv2 + send2
  <2> HIDE DEF io, recv, send, mine, io2, recv2, send2, mine2, n, n2, Before, After
  <2> QED
    BY <1>1, <1>3, <1>4, <1>5, <1>6
<1>9. Before(x) = io - (recv + send) - mine /\ After(x) = io2 - (recv2 + send2) - mine2
  BY DEF Over
<1>10. References(x) = n + recv + send
  BY DEF References
<1>11. io - (recv + send) - mine = io2 - (recv2 + send2) - mine2 /\ io = n + recv + send
         => io2 = n2 + recv2 + send2
  <2> HIDE DEF io, recv, send, mine, io2, recv2, send2, mine2, n, n2, Before, After
  <2> QED
    BY <1>1, <1>3, <1>4
<1> QED
  <2> HIDE DEF Before, After
  <2> QED
    BY <1>7, <1>8, <1>9, <1>10, <1>11

\* A thread that only gives references up, uncounted.
LEMMA RefsKept ==
  ASSUME TypeOK, TypeOK', RefsCovered, SessionSame,
         NEW t \in Threads, NEW l, NEW b, NEW h \in SUBSET th[t].held,
         Moves(t, l, b, th[t].slot, h)
  PROVE  RefsCovered' /\ (h = th[t].held => ExactKept)
<1>1. th[t].slot \in Slots /\ th[t].held \in SUBSET Kinds /\ h \in SUBSET Kinds
  BY Typed, ThreadFields
<1>2. Cardinality(h) <= Cardinality(th[t].held)
  BY <1>1, HeldFinite, FS_Subset
<1>3. Cardinality(h) \in Nat /\ Cardinality(th[t].held) \in Nat
  BY <1>1, HeldFinite
<1>4. ASSUME NEW x \in Slots
      PROVE  Session[x].IOCount - Over(Session[x])
                - (IF th[t].slot = x THEN Cardinality(th[t].held) ELSE 0)
             <= Session'[x].IOCount - Over(Session'[x]) - (IF th[t].slot = x THEN Cardinality(h) ELSE 0)
             /\ Session'[x].IOCount = Session[x].IOCount /\ Over(Session'[x]) = Over(Session[x])
  <2> DEFINE io   == Session[x].IOCount
             over == Over(Session[x])
  <2>1. Session'[x].IOCount = io /\ Over(Session'[x]) = over
    BY DEF SessionSame, Over
  <2>2. Session[x] \in SessionType
    BY DEF TypeOK
  <2>3. io \in Int /\ over \in Nat
    BY <2>2, SessionNumbers
  <2> HIDE DEF io, over
  <2>4. io - over - (IF th[t].slot = x THEN Cardinality(th[t].held) ELSE 0)
          <= io - over - (IF th[t].slot = x THEN Cardinality(h) ELSE 0)
    BY <1>2, <1>3, <2>3
  <2> QED
    BY <2>1, <2>4 DEF io, over
<1> QED
  BY <1>1, <1>4, RefsStep

\* A step that trades references on one slot: what IOCount loses is lost by the
\* thread or by the operations outstanding, what they gain is counted.
LEMMA RefsTraded ==
  ASSUME TypeOK, TypeOK', RefsCovered,
         NEW t \in Threads, NEW l, NEW b, NEW s \in Slots, NEW h \in SUBSET Kinds,
         Moves(t, l, b, s, h), th[t].held = {} \/ s = th[t].slot,
         \A x \in Slots \ {s} : Session'[x] = Session[x],
         Session[s].IOCount - Over(Session[s]) - Cardinality(th[t].held)
           <= Session'[s].IOCount - Over(Session'[s]) - Cardinality(h)
  PROVE  /\ RefsCovered'
         /\ Session[s].IOCount - Over(Session[s]) - Cardinality(th[t].held)
              = Session'[s].IOCount - Over(Session'[s]) - Cardinality(h)
            => ExactKept
<1>1. Cardinality(h) \in Nat /\ Cardinality(th[t].held) \in Nat
  BY Typed, ThreadFields, HeldFinite
<1>2. ASSUME NEW x \in Slots
      PROVE  Session[x].IOCount - Over(Session[x])
                - (IF th[t].slot = x THEN Cardinality(th[t].held) ELSE 0)
             <= Session'[x].IOCount - Over(Session'[x]) - (IF s = x THEN Cardinality(h) ELSE 0)
  <2> DEFINE io   == Session[x].IOCount
             over == Over(Session[x])
             mine == IF th[t].slot = x THEN Cardinality(th[t].held) ELSE 0
  <2>1. Session[x] \in SessionType
    BY DEF TypeOK
  <2>2. io \in Int /\ over \in Nat
    BY <2>1, SessionNumbers
  <2>3. CASE x = s
    <3>1. mine = Cardinality(th[t].held)
      BY <2>3, FS_EmptySet
    <3> QED
      BY <2>3, <3>1
  <2>4. CASE x # s
    <3>1. Session'[x] = Session[x]
      BY <2>4
    <3>2. mine \in Nat
      BY <1>1
    <3> HIDE DEF io, over, mine
    <3>3. io - over - mine <= io - over - 0
      BY <2>2, <3>2
    <3> QED
      BY <2>4, <3>1, <3>3 DEF io, over, mine
  <2> QED
    BY <2>3, <2>4
<1>3. ASSUME Session[s].IOCount - Over(Session[s]) - Cardinality(th[t].held)
               = Session'[s].IOCount - Over(Session'[s]) - Cardinality(h),
             NEW x \in Slots
      PROVE  Session[x].IOCount - Over(Session[x])
                - (IF th[t].slot = x THEN Cardinality(th[t].held) ELSE 0)
             = Session'[x].IOCount - Over(Session'[x]) - (IF s = x THEN Cardinality(h) ELSE 0)
  <2>1. Cardinality(th[t].held) = 0 \/ s = th[t].slot
    BY FS_EmptySet
  <2>2. CASE x = s
    <3>1. (IF th[t].slot = x THEN Cardinality(th[t].held) ELSE 0) = Cardinality(th[t].held)
      BY <2>1, <2>2
    <3> QED
      BY <1>3, <2>2, <3>1
  <2>3. CASE x # s
    <3>1. (IF th[t].slot = x THEN Cardinality(th[t].held) ELSE 0) = 0
      BY <2>1, <2>3
    <3>2. (IF s = x THEN Cardinality(h) ELSE 0) = 0 /\ Session'[x] = Session[x]
      BY <2>3
    <3> QED
      BY <3>1, <3>2
  <2> QED
    BY <2>2, <2>3
<1> QED
  BY <1>2, <1>3, RefsStep

LEMMA IOCountSet ==
  ASSUME TypeOK, NEW s \in Slots, NEW n \in Int, Session' = [Session EXCEPT ![s].IOCount = n]
  PROVE  /\ Session'[s].IOCount = n /\ Over(Session'[s]) = Over(Session[s])
         /\ \A x \in Slots \ {s} : Session'[x] = Session[x]
BY DEF TypeOK, SessionType, Over

\* A counted reference is taken: by Take and by FindLockSession.
LEMMA RefsTaken ==
  ASSUME TypeOK, TypeOK', RefsCovered,
         NEW t \in Threads, NEW l, NEW b, NEW s \in Slots, NEW k \in Kinds,
         Moves(t, l, b, s, th[t].held \cup {k}), th[t].held = {} \/ s = th[t].slot,
         Session' = [Session EXCEPT ![s].IOCount = Session[s].IOCount + 1]
  PROVE  RefsCovered' /\ (k \notin th[t].held => ExactKept)
<1> DEFINE h    == th[t].held
           io   == Session[s].IOCount
           over == Over(Session[s])
<1>1. h \in SUBSET Kinds /\ h \cup {k} \in SUBSET Kinds
  BY Typed, ThreadFields
<1>3. io \in Int /\ over \in Nat
  BY SessionNumbers DEF TypeOK
<1>2. /\ Session'[s].IOCount = io + 1 /\ Over(Session'[s]) = over
      /\ \A x \in Slots \ {s} : Session'[x] = Session[x]
  <2>1. io + 1 \in Int
    BY <1>3
  <2> QED
    BY <2>1, IOCountSet
<1>4. /\ Cardinality(h) \in Nat /\ Cardinality(h \cup {k}) \in Nat
      /\ Cardinality(h \cup {k}) <= Cardinality(h) + 1
      /\ k \notin h => Cardinality(h \cup {k}) = Cardinality(h) + 1
  BY <1>1, HeldFinite, FS_AddElement
<1>6. /\ Session[s].IOCount - Over(Session[s]) - Cardinality(th[t].held)
           <= Session'[s].IOCount - Over(Session'[s]) - Cardinality(th[t].held \cup {k})
      /\ k \notin h => Session[s].IOCount - Over(Session[s]) - Cardinality(th[t].held)
           = Session'[s].IOCount - Over(Session'[s]) - Cardinality(th[t].held \cup {k})
  <2> DEFINE io2   == Session'[s].IOCount
             over2 == Over(Session'[s])
             n     == Cardinality(h)
             n2    == Cardinality(h \cup {k})
  <2>1. io2 = io + 1 /\ over2 = over
    BY <1>2
  <2>2. n \in Nat /\ n2 \in Nat /\ n2 <= n + 1 /\ (k \notin h => n2 = n + 1)
    BY <1>4
  <2>3. /\ io - over - n <= io2 - over2 - n2
        /\ k \notin h => io - over - n = io2 - over2 - n2
    <3> HIDE DEF io, over, io2, over2, n, n2
    <3> QED
      BY <1>3, <2>1, <2>2
  <2> QED
    BY <2>3
<1> QED
  BY <1>1, <1>2, <1>6, RefsTraded

\* A reference held is given back by IODecrement.
LEMMA RefsGivenBack ==
  ASSUME TypeOK, TypeOK', RefsCovered,
         NEW t \in Threads, NEW l, NEW b, NEW k \in th[t].held,
         Moves(t, l, b, th[t].slot, th[t].held \ {k}),
         Session' = [Session EXCEPT ![th[t].slot].IOCount = Session[th[t].slot].IOCount - 1]
  PROVE  RefsCovered' /\ ExactKept /\ Session[th[t].slot].IOCount >= 1
<1> DEFINE s    == th[t].slot
           h    == th[t].held
           io   == Session[s].IOCount
           over == Over(Session[s])
<1>1. s \in Slots /\ h \in SUBSET Kinds /\ h \ {k} \in SUBSET Kinds
  BY Typed, ThreadFields
<1>2. Session[s] \in SessionType
  BY <1>1 DEF TypeOK
<1>3. io \in Int /\ io - 1 \in Int /\ over \in Nat
  <2>1. io \in Int /\ over \in Nat
    BY <1>2, SessionNumbers
  <2> QED
    BY <2>1
<1>4. /\ Session'[s].IOCount = io - 1 /\ Over(Session'[s]) = over
      /\ \A x \in Slots \ {s} : Session'[x] = Session[x]
  <2>1. Session' = [Session EXCEPT ![s].IOCount = io - 1]
    OBVIOUS
  <2> HIDE DEF s
  <2> QED
    BY <1>1, <1>3, <2>1, IOCountSet
<1>5. /\ Cardinality(h) \in Nat /\ Cardinality(h \ {k}) \in Nat
      /\ Cardinality(h \ {k}) = Cardinality(h) - 1
  BY <1>1, HeldFinite, FS_RemoveElement
<1>6. /\ io - over - Cardinality(h) = io - 1 - over - Cardinality(h \ {k})
      /\ io - over - Cardinality(h) <= io - 1 - over - Cardinality(h \ {k})
  <2> HIDE DEF io, over, h
  <2> QED
    BY <1>3, <1>5
<1>7. /\ Session[s].IOCount - Over(Session[s]) - Cardinality(th[t].held)
           <= Session'[s].IOCount - Over(Session'[s]) - Cardinality(th[t].held \ {k})
      /\ Session[s].IOCount - Over(Session[s]) - Cardinality(th[t].held)
        = Session'[s].IOCount - Over(Session'[s]) - Cardinality(th[t].held \ {k})
  BY <1>4, <1>6
<1>8. RefsCovered' /\ ExactKept
  BY <1>1, <1>4, <1>7, RefsTraded
<1>9. io >= 1
  <2> DEFINE n == Cardinality(Holds(s))
             recv == Len(Session[s].RecvOver)
             send == Len(Session[s].SendOver)
  <2>1. io >= n + recv + send
    BY <1>1 DEF RefsCovered, References
  <2>2. recv \in Nat /\ send \in Nat
    BY <1>2, SessionNumbers
  <2>3. IsFiniteSet(Holds(s)) /\ n \in Nat
    BY KindsFinite, FS_Subset, FS_CardinalityType DEF Holds
  <2>4. <<t, k>> \in Holds(s)
    BY <1>1 DEF Holds
  <2>5. n # 0
    BY <2>3, <2>4, FS_EmptySet
  <2> HIDE DEF io, n, recv, send
  <2> QED
    BY <1>3, <2>1, <2>2, <2>3, <2>5
<1> QED
  BY <1>8, <1>9

\* A reference held goes over to an operation now outstanding.
LEMMA RefsPosted ==
  ASSUME TypeOK, TypeOK', RefsCovered,
         NEW t \in Threads, NEW l, NEW b, NEW k \in th[t].held,
         Moves(t, l, b, th[t].slot, th[t].held \ {k}),
         \A x \in Slots \ {th[t].slot} : Session'[x] = Session[x],
         Session'[th[t].slot].IOCount = Session[th[t].slot].IOCount,
         Over(Session'[th[t].slot]) = Over(Session[th[t].slot]) + 1
  PROVE  RefsCovered' /\ ExactKept
<1> DEFINE s    == th[t].slot
           h    == th[t].held
           io   == Session[s].IOCount
           over == Over(Session[s])
<1>1. s \in Slots /\ h \in SUBSET Kinds /\ h \ {k} \in SUBSET Kinds
  BY Typed, ThreadFields
<1>2. Session[s] \in SessionType
  BY <1>1 DEF TypeOK
<1>3. io \in Int /\ over \in Nat
  BY <1>2, SessionNumbers
<1>4. /\ Cardinality(h) \in Nat /\ Cardinality(h \ {k}) \in Nat
      /\ Cardinality(h \ {k}) = Cardinality(h) - 1
  BY <1>1, HeldFinite, FS_RemoveElement
<1>5. /\ io - over - Cardinality(h) <= io - (over + 1) - Cardinality(h \ {k})
      /\ io - over - Cardinality(h) = io - (over + 1) - Cardinality(h \ {k})
  <2> HIDE DEF io, over, h
  <2> QED
    BY <1>3, <1>4
<1>6. /\ Session[s].IOCount - Over(Session[s]) - Cardinality(th[t].held)
           <= Session'[s].IOCount - Over(Session'[s]) - Cardinality(th[t].held \ {k})
      /\ Session[s].IOCount - Over(Session[s]) - Cardinality(th[t].held)
        = Session'[s].IOCount - Over(Session'[s]) - Cardinality(th[t].held \ {k})
  BY <1>5
<1> QED
  BY <1>1, <1>6, RefsTraded

\* An operation ends and a thread without references takes its reference over.
LEMMA RefsFinished ==
  ASSUME TypeOK, TypeOK', RefsCovered,
         NEW t \in Threads, NEW l, NEW b, NEW s \in Slots, NEW k \in Kinds,
         Moves(t, l, b, s, {k}), th[t].held = {},
         \A x \in Slots \ {s} : Session'[x] = Session[x],
         Session'[s].IOCount = Session[s].IOCount,
         Over(Session'[s]) = Over(Session[s]) - 1
  PROVE  RefsCovered' /\ ExactKept
<1> DEFINE io   == Session[s].IOCount
           over == Over(Session[s])
<1>1. Session[s] \in SessionType /\ {k} \in SUBSET Kinds
  BY DEF TypeOK
<1>2. io \in Int /\ over \in Nat
  BY <1>1, SessionNumbers
<1>3. Cardinality(th[t].held) = 0 /\ Cardinality({k}) = 1
  BY FS_EmptySet, FS_Singleton
<1>4. io - over - 0 <= io - (over - 1) - 1 /\ io - over - 0 = io - (over - 1) - 1
  <2> HIDE DEF io, over
  <2> QED
    BY <1>2
<1>5. /\ Session[s].IOCount - Over(Session[s]) - Cardinality(th[t].held)
           <= Session'[s].IOCount - Over(Session'[s]) - Cardinality({k})
      /\ Session[s].IOCount - Over(Session[s]) - Cardinality(th[t].held)
        = Session'[s].IOCount - Over(Session'[s]) - Cardinality({k})
  BY <1>3, <1>4
<1>6. /\ RefsCovered'
      /\ Session[s].IOCount - Over(Session[s]) - Cardinality(th[t].held)
           = Session'[s].IOCount - Over(Session'[s]) - Cardinality({k})
         => ExactKept
  <2>1. PICK h \in SUBSET Kinds : h = {k}
    BY <1>1
  <2>2. /\ TypeOK /\ TypeOK' /\ RefsCovered
        /\ \A x \in Slots \ {s} : Session'[x] = Session[x]
        /\ Moves(t, l, b, s, h) /\ (th[t].held = {} \/ s = th[t].slot)
        /\ Session[s].IOCount - Over(Session[s]) - Cardinality(th[t].held)
             <= Session'[s].IOCount - Over(Session'[s]) - Cardinality(h)
    BY <1>5, <2>1
  <2>3. /\ RefsCovered'
        /\ Session[s].IOCount - Over(Session[s]) - Cardinality(th[t].held)
             = Session'[s].IOCount - Over(Session'[s]) - Cardinality(h)
           => ExactKept
    BY ONLY <2>2, RefsTraded, t \in Threads, s \in Slots, h \in SUBSET Kinds
  <2> QED
    BY <2>1, <2>3
<1> QED
  BY <1>5, <1>6

-----------------------------------------------------------------------------
(* What a step keeps of the other threads' facts *)

LEMMA HoldingStep ==
  ASSUME Holding, NEW t \in Threads, Alone(t), HoldingOf(t)'
  PROVE  Holding'
BY DEF Holding, HoldingOf, Where, Alone

\* A SessionID is never taken back, nor a connection's slot.
Steady ==
  /\ \A s \in Slots : InUse(s) => InUse(s)'
  /\ \A c \in Ids, s \in Slots : Named(c, s) => Named(c, s)'

\* No SessionID changes.
IDsSame == \A s \in Slots : Session'[s].SessionID = Session[s].SessionID

LEMMA KeptIsSteady ==
  ASSUME IDsSame, NetSame
  PROVE  Steady
BY DEF IDsSame, NetSame, Steady, InUse, Named

LEMMA NamingStep ==
  ASSUME TypeOK, Naming, Steady, NEW t \in Threads, Alone(t), NamingOf(t)',
         \A s \in Slots : InUse(s)' => Named(Session[s].SessionID, s)',
         \A s \in Slots : (Session[s].RecvOver # <<>> \/ Session[s].SendOver # <<>>)'
                            => InUse(s)',
         \A c \in Conns : (net[c].joins > 0 => net[c].sock # "none" /\ InUse(net[c].index))',
         t = Acceptor => (th[t].pc \in {"TakeSlot", "SetSock", "SetID"}
                            => Named(th[t].arg, th[t].slot))'
  PROVE  Naming'
<1>1. ASSUME NEW u \in Threads \ {t} PROVE NamingOf(u)'
  <2>1. th'[u] = th[u] /\ NamingOf(u) /\ th[u].slot \in Slots /\ th[u].arg \in Ids
    BY Typed, ThreadFields DEF Alone, Naming
  <2> QED
    BY <2>1 DEF NamingOf, Steady
<1>2. (th[Acceptor].pc \in {"TakeSlot", "SetSock", "SetID"} =>
         Named(th[Acceptor].arg, th[Acceptor].slot))'
  <2>1. CASE t = Acceptor
    BY <2>1
  <2>2. CASE t # Acceptor
    <3>1. th'[Acceptor] = th[Acceptor] /\ th[Acceptor].slot \in Slots /\ th[Acceptor].arg \in Ids
      BY <2>2, ConstantTypes, Typed, ThreadFields DEF Alone
    <3> QED
      BY <3>1 DEF Naming, Steady
  <2> QED
    BY <2>1, <2>2
<1> QED
  BY <1>1, <1>2 DEF Naming

\* No name is given or taken back.
LEMMA NamesKept ==
  ASSUME TypeOK, Naming, IDsSame, NetSame, NEW t \in Threads, Alone(t), NamingOf(t)',
         th'[t].pc \notin {"TakeSlot", "SetSock", "SetID"},
         \A s \in Slots :
           (Session[s].RecvOver # <<>> \/ Session[s].SendOver # <<>>)' => InUse(s)
  PROVE  Naming'
<1>1. Steady
  BY KeptIsSteady
<1>2. ASSUME NEW s \in Slots
      PROVE  /\ InUse(s)' => Named(Session[s].SessionID, s)'
             /\ (Session[s].RecvOver # <<>> \/ Session[s].SendOver # <<>>)' => InUse(s)'
  <2>1. InUse(s)' = InUse(s) /\ Session'[s].SessionID = Session[s].SessionID
    BY DEF IDsSame, InUse
  <2>2. InUse(s) => Named(Session[s].SessionID, s)
    BY DEF Naming
  <2>3. Session[s].SessionID \in Ids
    <3>1. Session[s] \in SessionType
      BY DEF TypeOK
    <3> QED
      BY <3>1, SessionFields
  <2>4. InUse(s)' => Named(Session[s].SessionID, s)'
    BY <1>1, <2>1, <2>2, <2>3 DEF Steady, Named
  <2> QED
    BY <2>1, <2>4
<1>3. ASSUME NEW c \in Conns
      PROVE  (net[c].joins > 0 => net[c].sock # "none" /\ InUse(net[c].index))'
  <2>1. net[c].index \in Slots
    BY ConnFields, ConstantTypes DEF TypeOK
  <2> QED
    BY <1>1, <2>1 DEF Naming, NetSame, Steady
<1>4. t = Acceptor => (th[t].pc \in {"TakeSlot", "SetSock", "SetID"}
                         => Named(th[t].arg, th[t].slot))'
  OBVIOUS
<1> QED
  BY <1>1, <1>2, <1>3, <1>4, NamingStep

\* A thread that stays on its slot, takes nothing and names no session.
LEMMA NamingOfKept ==
  ASSUME TypeOK, Naming, IDsSame, NetSame,
         NEW t \in Threads, NEW l, NEW b, NEW h, Moves(t, l, b, th[t].slot, h),
         h = {} \/ (th[t].held # {} /\ th[t].pc \notin {"SetSock", "SetID"}),
         l # "Find"
  PROVE  NamingOf(t)'
<1>1. NamingOf(t) /\ th[t].slot \in Slots
  BY Typed DEF Naming
<1>2. Steady
  BY KeptIsSteady
<1> QED
  BY <1>1, <1>2 DEF NamingOf, Moves, Steady

\* A step that neither takes nor counts anything and names no session.
LEMMA QuietStep ==
  ASSUME RefsInv, TypeOK', SessionSame, NetSame, UNCHANGED crashed,
         NEW t \in Threads, NEW l, NEW b, NEW h \in SUBSET th[t].held,
         Moves(t, l, b, th[t].slot, h), HoldingOf(t)',
         l \notin {"Find", "TakeSlot", "SetSock", "SetID"},
         th[t].pc \notin {"SetSock", "SetID"}
  PROVE  RefsInv' /\ (h = th[t].held => ExactKept)
<1>1. RefsCovered' /\ (h = th[t].held => ExactKept)
  BY RefsKept DEF RefsInv
<1>2. Holding'
  BY HoldingStep DEF RefsInv, Moves
<1>3. IDsSame
  BY DEF SessionSame, IDsSame
<1>4. h = {} \/ th[t].held # {}
  OBVIOUS
<1>5. NamingOf(t)'
  BY <1>3, <1>4, NamingOfKept DEF RefsInv
<1>6. \A s \in Slots :
        (Session[s].RecvOver # <<>> \/ Session[s].SendOver # <<>>)' => InUse(s)
  BY DEF RefsInv, Naming, SessionSame
<1>7. Naming'
  BY <1>3, <1>5, <1>6, NamesKept DEF RefsInv, Moves
<1> QED
  BY <1>1, <1>2, <1>7 DEF RefsInv, NoCrash

LEMMA PlainStep ==
  ASSUME RefsInv, TypeOK', SessionSame, NetSame, UNCHANGED crashed,
         NEW t \in Threads, NEW l, NEW h \in SUBSET th[t].held,
         Moves(t, l, th[t].back, th[t].slot, h), Carries(t, l, h),
         l \notin Releasing \cup {"Find", "TakeSlot", "SetSock", "SetID"},
         th[t].pc \notin {"SetSock", "SetID"}
  PROVE  RefsInv' /\ (h = th[t].held => ExactKept)
<1>1. HoldingOf(t)'
  BY DEF HoldingOf, Where, Moves, Carries
<1> QED
  BY <1>1, QuietStep

LEMMA FindLockSessionRefs ==
  ASSUME RefsInv, TypeOK', NEW t \in Threads,
         FindUse(t) \/ FindID(t) \/ Disconnect(t)
  PROVE  RefsInv' /\ ExactKept
<1>1. HoldingOf(t) /\ TypeOK /\ th[t].slot \in Slots
  BY Typed DEF RefsInv, Holding
<1>2. Session[th[t].slot].sock \in Ids
  BY <1>1, Typed, SessionFields
<1>3. PICK l \in {"FindID", "EndCall", "Disconnect", "Enqueue"} :
        Goto(t, l) /\ th[t].pc \in {"FindUse", "FindID", "Disconnect"}
  BY DEF FindUse, FindID, Disconnect, Step, At
<1>4. Moves(t, l, th[t].back, th[t].slot, th[t].held)
  <2>1. l \in Labels
    BY DEF Labels
  <2> QED
    BY <1>1, <1>3, <2>1, ThreadMoves DEF Goto
<1>5. Carries(t, l, th[t].held)
  BY <1>1, <1>3 DEF HoldingOf, Where, Carries, Releasing, Posting, Calling, Sending
<1>6. UNCHANGED Session /\ UNCHANGED crashed
  BY DEF FindUse, FindID, Disconnect, rest
<1>7. UNCHANGED net \/ ShutDown(Session[th[t].slot].sock)
  BY DEF FindUse, FindID, Disconnect
<1>8. SessionSame /\ NetSame
  BY <1>1, <1>2, <1>6, <1>7, SessionKept, NetKept
<1> QED
  BY <1>3, <1>4, <1>5, <1>6, <1>8, PlainStep DEF Releasing

LEMMA SessionReleaseRefs ==
  ASSUME RefsInv, TypeOK', NEW t \in Threads, SessionRelease(t)
  PROVE  RefsInv' /\ ExactKept
<1> DEFINE s == th[t].slot
<1>1. HoldingOf(t) /\ TypeOK
  BY DEF RefsInv, Holding
<1>2. s \in Slots /\ Session[s].sock \in Ids /\ Session[s].SessionID \in Ids
  BY <1>1, Typed, SessionFields
<1>3. th[t].pc \in Releasing
  BY DEF SessionRelease, Release, Leave, Close, DrainQ, DrainPack, PushSlot, Step, At, Releasing
<1>4. th[t].back \in Ends
  BY <1>1, <1>3 DEF HoldingOf
<1>5. \E l \in Releasing \cup {th[t].back} : Goto(t, l) \/ (l = th[t].pc /\ UNCHANGED th)
  BY <1>3 DEF SessionRelease, Release, Leave, Close, DrainQ, DrainPack, PushSlot, Step, At, Releasing
<1>6. PICK l \in Releasing \cup {th[t].back} :
        Moves(t, l, th[t].back, th[t].slot, th[t].held)
  <2>1. PICK l \in Releasing \cup {th[t].back} : Goto(t, l) \/ (l = th[t].pc /\ UNCHANGED th)
    BY <1>5
  <2>2. CASE Goto(t, l)
    <3>1. l \in Labels
      BY <1>4 DEF Ends, Releasing, Labels
    <3> QED
      BY <1>1, <2>2, <3>1, ThreadMoves DEF Goto
  <2>3. CASE l = th[t].pc /\ UNCHANGED th
    BY <2>3 DEF Moves, Alone
  <2> QED
    BY <2>1, <2>2, <2>3
<1>7. HoldingOf(t)'
  BY <1>1, <1>3, <1>4, <1>6 DEF HoldingOf, Where, Moves, Carries, Ends, Releasing
<1>8. SessionSame
  <2>1. \/ UNCHANGED Session
        \/ Session' = [Session EXCEPT ![s].RecvQ = <<>>]
        \/ Session' = [Session EXCEPT ![s].SendQ = Tail(@)]
        \/ Session' = [Session EXCEPT ![s].SendPack = Front(@)]
    BY DEF SessionRelease, Release, Leave, Close, DrainQ, DrainPack, PushSlot
  <2> QED
    BY <1>1, <1>2, <2>1, SessionKept
<1>9. NetSame
  <2>1. CASE Leave(t)
    <3>1. net[Session[s].SessionID] \in ConnType
      BY <1>1, <1>2 DEF TypeOK
    <3>2. net[Session[s].SessionID].leaves \in Nat
      BY <3>1, ConnFields
    <3>3. net[Session[s].SessionID].leaves + 1 \in Nat
      BY <3>2
    <3> QED
      BY <1>1, <1>2, <2>1, <3>3, NetKept DEF Leave
  <2>2. CASE ~Leave(t)
    <3>1. UNCHANGED net \/ net' = [net EXCEPT ![Session[s].sock].sock = "closed"]
      BY <2>2 DEF SessionRelease, Release, Close, DrainQ, DrainPack, PushSlot
    <3> QED
      BY <1>1, <1>2, <3>1, NetKept
  <2> QED
    BY <2>1, <2>2
<1>10. UNCHANGED crashed
  BY DEF SessionRelease, Release, Leave, Close, DrainQ, DrainPack, PushSlot, rest
<1>11. th[t].pc \notin {"SetSock", "SetID"} /\ l \notin {"Find", "TakeSlot", "SetSock", "SetID"}
  BY <1>3, <1>4 DEF Releasing, Ends
<1> QED
  BY <1>6, <1>7, <1>8, <1>9, <1>10, <1>11, QuietStep

LEMMA EnqueueRefs ==
  ASSUME RefsInv, TypeOK', NEW t \in Threads, Enqueue(t)
  PROVE  RefsInv' /\ (Len(Session[th[t].slot].SendQ) < QueueMax => ExactKept)
<1> DEFINE s == th[t].slot
<1>1. HoldingOf(t) /\ TypeOK /\ th[t].pc = "Enqueue" /\ th[t].held \in SUBSET Kinds
  BY Typed, ThreadFields DEF RefsInv, Holding, Enqueue, At
<1>2. s \in Slots /\ Session[s].sock \in Ids
  BY <1>1, Typed, SessionFields
<1>3. {"PostSend", "FreeMsg"} \subseteq Labels
  BY DEF Labels
<1>4. Carries(t, "Enqueue", th[t].held)
  BY <1>1 DEF HoldingOf, Where, Releasing
<1>5. SessionSame /\ NetSame /\ UNCHANGED crashed
  <2>1. /\ UNCHANGED Session \/ Session' = [Session EXCEPT ![s].SendQ = Append(@, th[t].msg)]
        /\ UNCHANGED net \/ ShutDown(Session[s].sock)
        /\ UNCHANGED crashed
    BY DEF Enqueue, rest
  <2> QED
    BY <1>1, <1>2, <2>1, SessionKept, NetKept
<1>6. CASE Goto(t, "PostSend")
  <2>1. Moves(t, "PostSend", th[t].back, s, th[t].held)
    BY <1>1, <1>3, <1>6, ThreadMoves DEF Goto
  <2>2. Carries(t, "PostSend", th[t].held)
    BY <1>4 DEF Carries, Posting, Calling, Sending
  <2> QED
    BY <1>1, <1>5, <2>1, <2>2, PlainStep DEF Releasing
<1>7. CASE Len(Session[s].SendQ) >= QueueMax /\ th' = [th EXCEPT ![t].held = th[t].held \ {"call"}, ![t].pc = "FreeMsg"]
  <2>1. th[t].held \ {"call"} \in SUBSET Kinds
    BY <1>1
  <2>2. Moves(t, "FreeMsg", th[t].back, s, th[t].held \ {"call"})
    BY <1>1, <1>3, <1>7, <2>1, ThreadMoves
  <2>3. Carries(t, "FreeMsg", th[t].held \ {"call"})
    BY <1>4 DEF Carries, Posting, Calling, Sending
  <2>4. RefsInv'
    BY <1>1, <1>5, <2>2, <2>3, PlainStep DEF Releasing
  <2>5. ~(Len(Session[s].SendQ) < QueueMax)
    <3>1. Session[s].SendQ \in Seq(Packets)
      BY <1>1, <1>2, Typed, SessionFields
    <3>2. Len(Session[s].SendQ) \in Nat /\ QueueMax \in Nat
      BY <3>1, SizesAssumption
    <3> QED
      BY <1>7, <3>2
  <2> QED
    BY <2>4, <2>5
<1> QED
  BY <1>6, <1>7 DEF Enqueue

LEMMA FreeMsgRefs ==
  ASSUME RefsInv, TypeOK', NEW t \in Threads, FreeMsg(t)
  PROVE  RefsInv' /\ ExactKept
<1>1. HoldingOf(t) /\ TypeOK /\ th[t].pc = "FreeMsg"
  BY DEF RefsInv, Holding, FreeMsg, At
<1>2. AfterCall(t) \in {"PostRecv", "Parse", "idle"}
  BY DEF AfterCall
<1>3. Moves(t, AfterCall(t), th[t].back, th[t].slot, th[t].held)
  <2>1. AfterCall(t) \in Labels
    BY <1>2 DEF Labels
  <2> QED
    BY <1>1, <2>1, ThreadMoves, ConstantTypes DEF FreeMsg
<1>4. Carries(t, "FreeMsg", th[t].held)
  BY <1>1 DEF HoldingOf, Where, Releasing
<1>5. t \in Callers <=> AfterCall(t) = "idle"
  BY ThreadsAssumption DEF AfterCall, Threads
<1>6. Carries(t, AfterCall(t), th[t].held)
  BY <1>2, <1>4, <1>5 DEF Carries, Posting, Calling, Sending
<1>7. SessionSame /\ NetSame /\ UNCHANGED crashed
  BY <1>1, ConstantTypes, SessionKept, NetKept DEF FreeMsg, rest
<1> QED
  BY <1>1, <1>2, <1>3, <1>6, <1>7, PlainStep DEF Releasing

\* The plain steps of PostSend.
LEMMA PostSendRefs ==
  ASSUME RefsInv, TypeOK', NEW t \in Threads, SetFlag(t) \/ Dequeue(t) \/ ClearFlag(t)
  PROVE  RefsInv' /\ ExactKept
<1> DEFINE s == th[t].slot
           q == Session[s].SendQ
<1>1. HoldingOf(t) /\ TypeOK
  BY DEF RefsInv, Holding
<1>2. s \in Slots /\ q \in Seq(Packets) /\ th[t].batch \in Seq(Packets)
  BY <1>1, Typed, SessionFields, ThreadFields
<1>3. SessionSame
  <2>1. CASE SetFlag(t) \/ ClearFlag(t)
    BY <1>1, <1>2, <2>1, SessionKept DEF SetFlag, ClearFlag
  <2>2. CASE Dequeue(t)
    <3>1. \/ UNCHANGED Session
          \/ Session' = [Session EXCEPT ![s].SendQ = Tail(@),
                                        ![s].SendPack = Append(@, Head(q))]
          \/ Session' = [Session EXCEPT ![s].SendQ = Tail(@)]
      BY <2>2 DEF Dequeue
    <3> QED
      BY <1>1, <1>2, <3>1, SessionKept
  <2> QED
    BY <2>1, <2>2
<1>4. NetSame /\ UNCHANGED crashed
  BY <1>1, ConstantTypes, NetKept DEF SetFlag, Dequeue, ClearFlag, rest
<1>5. CASE SetFlag(t)
  <2>1. PICK l \in {"EndPost", "Dequeue"} : Goto(t, l) /\ th[t].pc = "SetFlag"
    BY <1>5 DEF SetFlag, Step, At
  <2>2. Moves(t, l, th[t].back, s, th[t].held)
    <3>1. l \in Labels
      BY DEF Labels
    <3> QED
      BY <1>1, <2>1, <3>1, ThreadMoves DEF Goto
  <2>3. Carries(t, l, th[t].held)
    BY <1>1, <2>1 DEF HoldingOf, Where, Releasing, Carries, Posting, Calling, Sending
  <2> QED
    BY <1>3, <1>4, <2>1, <2>2, <2>3, PlainStep DEF Releasing
<1>6. CASE Dequeue(t)
  <2>1. th[t].pc = "Dequeue"
    BY <1>6 DEF Dequeue, At
  <2>2. PICK l \in {"EndPostEmpty", "WSASend", "Dequeue"} :
          Moves(t, l, th[t].back, s, th[t].held)
    <3>1. CASE \E l \in {"EndPostEmpty", "WSASend"} : Goto(t, l)
      <4>1. {"EndPostEmpty", "WSASend"} \subseteq Labels
        BY DEF Labels
      <4> QED
        BY <1>1, <3>1, <4>1, ThreadMoves DEF Goto
    <3>2. CASE q # <<>> /\ th' = [th EXCEPT ![t].batch = Append(th[t].batch, Head(q))]
      <4>1. Append(th[t].batch, Head(q)) \in Seq(Packets)
        BY <1>2, <3>2
      <4> QED
        BY <1>1, <2>1, <3>2, <4>1, ThreadMoves
    <3> QED
      BY <1>6, <3>1, <3>2 DEF Dequeue
  <2>3. Carries(t, l, th[t].held)
    BY <1>1, <2>1, <2>2 DEF HoldingOf, Where, Releasing, Carries, Posting, Calling, Sending
  <2> QED
    BY <1>3, <1>4, <2>1, <2>2, <2>3, PlainStep DEF Releasing
<1>7. CASE ClearFlag(t)
  <2>1. Goto(t, AfterPost(t)) /\ th[t].pc = "ClearFlag"
    BY <1>7 DEF ClearFlag, Step, At
  <2>2. AfterPost(t) \in {"EndCall", "EndEvent"} /\ (AfterPost(t) = "EndCall" <=> "call" \in th[t].held)
    BY DEF AfterPost
  <2>3. Moves(t, AfterPost(t), th[t].back, s, th[t].held)
    <3>1. AfterPost(t) \in Labels
      BY <2>2 DEF Labels
    <3> QED
      BY <1>1, <2>1, <3>1, ThreadMoves DEF Goto
  <2>4. Carries(t, AfterPost(t), th[t].held)
    BY <1>1, <2>1, <2>2 DEF HoldingOf, Where, Releasing, Carries, Posting, Calling, Sending
  <2> QED
    BY <1>3, <1>4, <2>1, <2>2, <2>3, <2>4, PlainStep DEF Releasing
<1> QED
  BY <1>5, <1>6, <1>7

\* What the IODecrement of a reference held leaves of a thread's holdings.
LEMMA EndsCarry ==
  ASSUME NEW t \in Threads, NEW h, NEW l, NEW k,
         \/ Carries(t, "EndPost", h) /\ k = "post"
              /\ l = IF "call" \in h THEN "EndCall" ELSE "EndEvent"
         \/ Carries(t, "EndPostEmpty", h) /\ k = "post" /\ l = "ClearFlag"
         \/ Carries(t, "EndCall", h) /\ k = "call" /\ l = "FreeMsg"
         \/ Carries(t, "EndEvent", h) /\ k = "event" /\ l = "idle"
  PROVE  k \in h /\ Carries(t, l, h \ {k}) /\ l \in Ends
BY DEF Carries, Posting, Calling, Sending, Ends

LEMMA IODecrementRefs ==
  ASSUME RefsInv, TypeOK', NEW t \in Threads,
         EndPost(t) \/ EndPostEmpty(t) \/ EndCall(t) \/ EndEvent(t)
  PROVE  RefsInv' /\ ExactKept
<1> DEFINE h == th[t].held
           s == th[t].slot
           count == Session[s].IOCount
<1>1. HoldingOf(t) /\ NamingOf(t) /\ TypeOK /\ RefsCovered
  BY DEF RefsInv, Holding, Naming
<1>2. PICK k \in Kinds, l \in Ends : IODecrement(t, k, l) /\ k \in h /\ Carries(t, l, h \ {k})
                                       /\ th[t].pc \notin Releasing \cup {"SetSock", "SetID"}
  <2>1. CASE EndPost(t)
    BY <1>1, <2>1, EndsCarry
       DEF EndPost, At, AfterPost, HoldingOf, Where, Releasing, Kinds
  <2>2. CASE EndPostEmpty(t)
    BY <1>1, <2>2, EndsCarry DEF EndPostEmpty, At, HoldingOf, Where, Releasing, Kinds
  <2>3. CASE EndCall(t)
    BY <1>1, <2>3, EndsCarry DEF EndCall, At, HoldingOf, Where, Releasing, Kinds
  <2>4. CASE EndEvent(t)
    BY <1>1, <2>4, EndsCarry DEF EndEvent, At, HoldingOf, Where, Releasing, Kinds
  <2> QED
    BY <2>1, <2>2, <2>3, <2>4
<1>3. PICK l2 \in {l, "Release"} : Moves(t, l2, l, s, h \ {k})
  <2> DEFINE l2 == IF count = 1 THEN "Release" ELSE l
  <2>1. l2 \in Labels /\ l \in Labels
    BY DEF Labels, Ends
  <2>2. h \ {k} \in SUBSET Kinds
    BY <1>1, Typed, ThreadFields
  <2>3. th' = [th EXCEPT ![t].held = h \ {k}, ![t].back = l, ![t].pc = l2]
    BY <1>2 DEF IODecrement
  <2>4. Moves(t, l2, l, s, h \ {k})
    BY <1>1, <2>1, <2>2, <2>3, ThreadMoves
  <2>5. l2 \in {l, "Release"}
    OBVIOUS
  <2> HIDE DEF l2
  <2> QED
    BY <2>4, <2>5
<1>4. RefsCovered' /\ ExactKept /\ count >= 1
  BY <1>1, <1>2, <1>3, RefsGivenBack DEF IODecrement
<1>5. ~crashed'
  <2>1. s \in Slots
    BY <1>1, Typed
  <2>2. Session[s] \in SessionType
    BY <1>1, <2>1 DEF TypeOK
  <2>3. count \in Int
    BY <2>2, SessionNumbers
  <2>4. crashed' = (count - 1 < 0)
    BY <1>2 DEF IODecrement
  <2>5. ~(count - 1 < 0)
    <3> HIDE DEF count
    <3> QED
      BY <1>4, <2>3
  <2> QED
    BY <2>4, <2>5
<1>6. HoldingOf(t)'
  BY <1>2, <1>3 DEF HoldingOf, Where, Moves, Carries, Releasing, Ends
<1>7. Holding'
  BY <1>3, <1>6, HoldingStep DEF RefsInv, Moves
<1>8. \A x \in Slots : /\ Session'[x].SessionID = Session[x].SessionID
                       /\ Session'[x].RecvOver = Session[x].RecvOver
                       /\ Session'[x].SendOver = Session[x].SendOver
  <2>1. s \in Slots
    BY <1>1, Typed
  <2>2. Session' = [Session EXCEPT ![s].IOCount = count - 1]
    BY <1>2 DEF IODecrement
  <2> HIDE DEF s
  <2> QED
    BY <1>1, <2>1, <2>2 DEF TypeOK, SessionType
<1>9. IDsSame /\ NetSame
  BY <1>1, <1>2, <1>8, ConstantTypes, NetKept DEF IDsSame, IODecrement
<1>10. NamingOf(t)'
  BY <1>1, <1>2, <1>3, <1>9, NamingOfKept DEF RefsInv, Ends
<1>11. Naming'
  <2>1. \A x \in Slots :
          (Session[x].RecvOver # <<>> \/ Session[x].SendOver # <<>>)' => InUse(x)
    BY <1>8 DEF RefsInv, Naming
  <2>2. Alone(t) /\ th'[t].pc \notin {"TakeSlot", "SetSock", "SetID"}
    BY <1>3 DEF Moves, Ends
  <2> QED
    BY <1>1, <1>9, <1>10, <2>1, <2>2, NamesKept DEF RefsInv
<1> QED
  BY <1>4, <1>5, <1>7, <1>11 DEF RefsInv, NoCrash

\* An IOCount that changes leaves ids and operations alone.
LEMMA IOCountNames ==
  ASSUME TypeOK, NEW s \in Slots, NEW n \in Int, Session' = [Session EXCEPT ![s].IOCount = n]
  PROVE  /\ IDsSame
         /\ \A x \in Slots : /\ Session'[x].RecvOver = Session[x].RecvOver
                             /\ Session'[x].SendOver = Session[x].SendOver
BY DEF TypeOK, SessionType, IDsSame

LEMMA TakeRefs ==
  ASSUME RefsInv, TypeOK', NEW t \in Threads, PostSend(t) \/ PostRecv(t)
  PROVE  RefsInv' /\ ExactKept
<1> DEFINE h == th[t].held
           s == th[t].slot
           count == Session[s].IOCount
<1>1. HoldingOf(t) /\ NamingOf(t) /\ TypeOK /\ RefsCovered /\ s \in Slots
  BY Typed DEF RefsInv, Holding, Naming
<1>2. PICK l \in {"SetFlag", "WSARecv"} : Take(t, "post", l) /\ Carries(t, l, h \cup {"post"})
                                     /\ h # {} /\ th[t].pc \in {"PostSend", "PostRecv"}
  BY <1>1 DEF PostSend, PostRecv, At, HoldingOf, Where, Releasing, Carries, Posting, Calling,
              Sending
<1>3. Moves(t, l, th[t].back, s, h \cup {"post"})
  <2>1. l \in Labels
    BY DEF Labels
  <2>2. h \cup {"post"} \in SUBSET Kinds
    BY <1>1, Typed, ThreadFields DEF Kinds
  <2> QED
    BY <1>1, <1>2, <2>1, <2>2, ThreadMoves DEF Take
<1>4. Session' = [Session EXCEPT ![s].IOCount = count + 1] /\ count + 1 \in Int
  <2>1. Session[s] \in SessionType
    BY <1>1 DEF TypeOK
  <2>2. count \in Int
    BY <2>1, SessionNumbers
  <2> QED
    BY <1>2, <2>2 DEF Take
<1>5. RefsCovered' /\ ExactKept
  <2>1. "post" \in Kinds
    BY DEF Kinds
  <2>2. "post" \notin h
    BY <1>1, <1>2 DEF HoldingOf, Where, Releasing, Carries, Posting
  <2> QED
    BY <1>1, <1>3, <1>4, <2>1, <2>2, RefsTaken
<1>6. HoldingOf(t)'
  BY <1>2, <1>3 DEF HoldingOf, Where, Moves, Carries, Releasing
<1>7. Holding'
  BY <1>3, <1>6, HoldingStep DEF RefsInv, Moves
<1>8. IDsSame /\ \A x \in Slots : /\ Session'[x].RecvOver = Session[x].RecvOver
                                  /\ Session'[x].SendOver = Session[x].SendOver
  <2> HIDE DEF s, count
  <2> QED
    BY <1>1, <1>4, IOCountNames
<1>9. NetSame /\ UNCHANGED crashed
  BY <1>1, ConstantTypes, NetKept DEF PostSend, PostRecv, rest
<1>10. NamingOf(t)'
  BY <1>1, <1>2, <1>3, <1>8, <1>9, NamingOfKept DEF RefsInv
<1>11. Naming'
  <2>1. \A x \in Slots :
          (Session[x].RecvOver # <<>> \/ Session[x].SendOver # <<>>)' => InUse(x)
    BY <1>8 DEF RefsInv, Naming
  <2>2. Alone(t) /\ th'[t].pc \notin {"TakeSlot", "SetSock", "SetID"}
    BY <1>3 DEF Moves
  <2> QED
    BY <1>1, <1>8, <1>9, <1>10, <2>1, <2>2, NamesKept DEF RefsInv
<1> QED
  BY <1>5, <1>7, <1>9, <1>11 DEF RefsInv, NoCrash

\* What every step that changes no id comes down to.
LEMMA SameIDsStep ==
  ASSUME RefsInv, TypeOK', RefsCovered', NoCrash', IDsSame, NetSame,
         NEW t \in Threads, Alone(t), HoldingOf(t)', NamingOf(t)',
         th'[t].pc \notin {"TakeSlot", "SetSock", "SetID"},
         \A x \in Slots :
           (Session[x].RecvOver # <<>> \/ Session[x].SendOver # <<>>)' => InUse(x)
  PROVE  RefsInv'
<1>1. Holding'
  BY HoldingStep DEF RefsInv
<1>2. Naming'
  BY NamesKept DEF RefsInv
<1> QED
  BY <1>1, <1>2 DEF RefsInv

LEMMA FindRefs ==
  ASSUME RefsInv, TypeOK', NEW t \in Threads, Find(t)
  PROVE  RefsInv' /\ ExactKept
<1> DEFINE h == th[t].held
<1>1. HoldingOf(t) /\ NamingOf(t) /\ TypeOK /\ RefsCovered /\ th[t].pc = "Find"
  BY DEF RefsInv, Holding, Naming, Find, At
<1>2. PICK s \in Slots : /\ s = net[th[t].arg].index /\ InUse(s)
                         /\ t \notin Callers => s = th[t].slot
  BY <1>1 DEF NamingOf, Named
<1> DEFINE count == Session[s].IOCount
<1>3. t \in Callers => h = {}
  <2>1. h \in SUBSET Kinds
    BY <1>1, Typed, ThreadFields
  <2> QED
    BY <1>1, <2>1 DEF HoldingOf, Where, Releasing, Carries, Posting, Calling, Sending, Kinds
<1>4. PICK l \in {"EndCall", "FindUse"} :
        th' = [th EXCEPT ![t].slot = s, ![t].held = h \cup {"call"}, ![t].pc = l]
  BY <1>2 DEF Find
<1>5. Moves(t, l, th[t].back, s, h \cup {"call"})
  <2>1. l \in Labels
    BY DEF Labels
  <2>2. h \cup {"call"} \in SUBSET Kinds
    BY <1>1, Typed, ThreadFields DEF Kinds
  <2> QED
    BY <1>1, <1>4, <2>1, <2>2, ThreadMoves
<1>6. Carries(t, l, h \cup {"call"})
  BY <1>1 DEF HoldingOf, Where, Releasing, Carries, Posting, Calling, Sending
<1>7. Session' = [Session EXCEPT ![s].IOCount = count + 1] /\ count + 1 \in Int
  <2>1. Session[s] \in SessionType
    BY <1>1 DEF TypeOK
  <2>2. count \in Int
    BY <2>1, SessionNumbers
  <2>3. Session' = [Session EXCEPT ![s].IOCount = @ + 1]
    BY <1>2 DEF Find
  <2> QED
    BY <2>2, <2>3
<1>8. RefsCovered' /\ ExactKept
  <2>1. "call" \in Kinds
    BY DEF Kinds
  <2>2. "call" \notin h
    BY <1>1 DEF HoldingOf, Where, Releasing, Carries, Calling, Sending
  <2> QED
    BY <1>1, <1>2, <1>3, <1>5, <1>7, <2>1, <2>2, RefsTaken
<1>9. HoldingOf(t)'
  BY <1>5, <1>6 DEF HoldingOf, Where, Moves, Carries, Releasing
<1>10. IDsSame /\ \A x \in Slots : /\ Session'[x].RecvOver = Session[x].RecvOver
                                   /\ Session'[x].SendOver = Session[x].SendOver
  <2> HIDE DEF count
  <2> QED
    BY <1>1, <1>7, IOCountNames
<1>11. NetSame /\ NoCrash'
  BY <1>1, ConstantTypes, NetKept DEF Find, rest, RefsInv, NoCrash
<1>12. NamingOf(t)'
  <2>1. InUse(s)'
    BY <1>2, <1>10 DEF IDsSame, InUse
  <2> QED
    BY <1>5, <2>1 DEF NamingOf, Moves
<1>13. \A x \in Slots :
         (Session[x].RecvOver # <<>> \/ Session[x].SendOver # <<>>)' => InUse(x)
  BY <1>10 DEF RefsInv, Naming
<1>14. Alone(t) /\ th'[t].pc \notin {"TakeSlot", "SetSock", "SetID"}
  BY <1>5 DEF Moves
<1> QED
  BY <1>8, <1>9, <1>10, <1>11, <1>12, <1>13, <1>14, SameIDsStep

\* The two calls that hand the reference over to the kernel when they succeed.
LEMMA PostedStep ==
  ASSUME RefsInv, TypeOK', NEW t \in Threads, th[t].pc \in {"WSASend", "WSARecv"},
         NEW l \in {"EndCall", "EndEvent"}, l = AfterPost(t),
         Moves(t, l, th[t].back, th[t].slot, th[t].held \ {"post"}),
         \A x \in Slots \ {th[t].slot} : Session'[x] = Session[x],
         Session'[th[t].slot].IOCount = Session[th[t].slot].IOCount,
         Session'[th[t].slot].SessionID = Session[th[t].slot].SessionID,
         Over(Session'[th[t].slot]) = Over(Session[th[t].slot]) + 1,
         NetSame, UNCHANGED crashed
  PROVE  RefsInv' /\ ExactKept
<1> DEFINE h == th[t].held
<1>1. HoldingOf(t) /\ NamingOf(t) /\ TypeOK /\ RefsCovered
  BY DEF RefsInv, Holding, Naming
<1>2. /\ "post" \in h /\ Carries(t, l, h \ {"post"})
      /\ th[t].pc \notin Releasing
  BY <1>1 DEF HoldingOf, Where, Releasing, Carries, Posting, Calling, Sending, AfterPost
<1>3. RefsCovered' /\ ExactKept
  BY <1>1, <1>2, RefsPosted
<1>4. HoldingOf(t)'
  BY <1>2 DEF HoldingOf, Where, Moves, Carries, Releasing
<1>5. IDsSame
  BY DEF IDsSame
<1>6. NamingOf(t)'
  BY <1>1, <1>2, <1>5, NamingOfKept DEF RefsInv
<1>7. \A x \in Slots : (Session[x].RecvOver # <<>> \/ Session[x].SendOver # <<>>)' => InUse(x)
  <2>1. InUse(th[t].slot)
    BY <1>1, <1>2 DEF NamingOf
  <2>2. \A x \in Slots \ {th[t].slot} :
          (Session[x].RecvOver # <<>> \/ Session[x].SendOver # <<>>)' => InUse(x)
    BY DEF RefsInv, Naming
  <2> QED
    BY <2>1, <2>2
<1>8. Alone(t) /\ th'[t].pc \notin {"TakeSlot", "SetSock", "SetID"} /\ NoCrash'
  BY DEF Moves, RefsInv, NoCrash
<1> QED
  BY <1>3, <1>4, <1>5, <1>6, <1>7, <1>8, SameIDsStep

LEMMA OverAppend ==
  ASSUME TypeOK, NEW s \in Slots
  PROVE  /\ \A c \in Ids :
              Session' = [Session EXCEPT ![s].RecvOver = Append(Session[s].RecvOver, c)]
              => Over(Session'[s]) = Over(Session[s]) + 1
         /\ \A e \in [sock : Ids, buf : Seq(Packets)] :
              Session' = [Session EXCEPT ![s].SendOver = Append(Session[s].SendOver, e)]
              => Over(Session'[s]) = Over(Session[s]) + 1
<1> DEFINE recv == Session[s].RecvOver
           send == Session[s].SendOver
<1>1. Session[s] \in SessionType /\ Session \in [Slots -> SessionType]
  BY DEF TypeOK
<1>2. recv \in Seq(Ids) /\ send \in Seq([sock : Ids, buf : Seq(Packets)])
  BY <1>1, SessionFields
<1>3. Len(recv) \in Nat /\ Len(send) \in Nat
  BY <1>2
<1>4. ASSUME NEW c \in Ids, Session' = [Session EXCEPT ![s].RecvOver = Append(recv, c)]
      PROVE  Over(Session'[s]) = Over(Session[s]) + 1
  <2>1. Session'[s].RecvOver = Append(recv, c) /\ Session'[s].SendOver = send
    <3> HIDE DEF recv
    <3> QED
      BY <1>1, <1>4 DEF SessionType
  <2>2. Over(Session'[s]) = Len(Append(recv, c)) + Len(send) /\ Over(Session[s]) = Len(recv) + Len(send)
    BY <2>1 DEF Over
  <2> HIDE DEF recv, send
  <2>3. Len(Append(recv, c)) = Len(recv) + 1
    BY <1>2
  <2> QED
    BY <1>3, <2>2, <2>3
<1>5. ASSUME NEW e \in [sock : Ids, buf : Seq(Packets)],
             Session' = [Session EXCEPT ![s].SendOver = Append(send, e)]
      PROVE  Over(Session'[s]) = Over(Session[s]) + 1
  <2>1. Session'[s].SendOver = Append(send, e) /\ Session'[s].RecvOver = recv
    <3> HIDE DEF send
    <3> QED
      BY <1>1, <1>5 DEF SessionType
  <2>2. Over(Session'[s]) = Len(recv) + Len(Append(send, e)) /\ Over(Session[s]) = Len(recv) + Len(send)
    BY <2>1 DEF Over
  <2> HIDE DEF recv, send
  <2>3. Len(Append(send, e)) = Len(send) + 1
    BY <1>2
  <2> QED
    BY <1>3, <2>2, <2>3
<1> QED
  BY <1>4, <1>5

LEMMA OverOnly ==
  ASSUME TypeOK, NEW s \in Slots
  PROVE  \A x : \/ Session' = [Session EXCEPT ![s].RecvOver = x]
                \/ Session' = [Session EXCEPT ![s].SendOver = x]
                \/ \E y : Session' = [Session EXCEPT ![s].RecvOver = x, ![s].RecvQ = y]
                => /\ \A z \in Slots \ {s} : Session'[z] = Session[z]
                   /\ Session'[s].IOCount = Session[s].IOCount
                   /\ Session'[s].SessionID = Session[s].SessionID
<1>1. Session \in [Slots -> SessionType]
  BY DEF TypeOK
<1>2. ASSUME NEW x, Session' = [Session EXCEPT ![s].RecvOver = x]
      PROVE  /\ \A z \in Slots \ {s} : Session'[z] = Session[z]
             /\ Session'[s].IOCount = Session[s].IOCount
             /\ Session'[s].SessionID = Session[s].SessionID
  BY <1>1, <1>2 DEF SessionType
<1>3. ASSUME NEW x, Session' = [Session EXCEPT ![s].SendOver = x]
      PROVE  /\ \A z \in Slots \ {s} : Session'[z] = Session[z]
             /\ Session'[s].IOCount = Session[s].IOCount
             /\ Session'[s].SessionID = Session[s].SessionID
  BY <1>1, <1>3 DEF SessionType
<1>4. ASSUME NEW x, NEW y, Session' = [Session EXCEPT ![s].RecvOver = x, ![s].RecvQ = y]
      PROVE  /\ \A z \in Slots \ {s} : Session'[z] = Session[z]
             /\ Session'[s].IOCount = Session[s].IOCount
             /\ Session'[s].SessionID = Session[s].SessionID
  BY <1>1, <1>4 DEF SessionType
<1> QED
  BY <1>2, <1>3, <1>4

LEMMA WSASendRefs ==
  ASSUME RefsInv, TypeOK', NEW t \in Threads, WSASend(t)
  PROVE  RefsInv' /\ ExactKept
<1> DEFINE s == th[t].slot
           c == Session[s].sock
           b == th[t].batch
<1>1. HoldingOf(t) /\ TypeOK /\ th[t].pc = "WSASend" /\ th[t].held \in SUBSET Kinds
  BY Typed, ThreadFields DEF RefsInv, Holding, WSASend, At
<1>2. /\ s \in Slots /\ c \in Ids /\ b \in Seq(Packets) /\ <<>> \in Seq(Packets)
      /\ th[t].held \ {"post"} \in SUBSET Kinds
  BY <1>1, Typed, SessionFields, ThreadFields
<1>3. UNCHANGED crashed
  BY DEF WSASend, rest
<1>4. CASE /\ Session' = [Session EXCEPT ![s].SendOver = Append(@, [sock |-> c, buf |-> b])]
           /\ net' = [net EXCEPT ![c].wire = @ \o [i \in 1 .. Len(b) |-> b[i][2]]]
           /\ th' = [th EXCEPT ![t].batch = <<>>, ![t].held = @ \ {"post"}, ![t].pc = AfterPost(t)]
  <2>1. AfterPost(t) \in {"EndCall", "EndEvent"}
    BY DEF AfterPost
  <2>2. Moves(t, AfterPost(t), th[t].back, s, th[t].held \ {"post"})
    <3>1. AfterPost(t) \in Labels
      BY <2>1 DEF Labels
    <3>2. th' = [th EXCEPT ![t].batch = <<>>, ![t].held = th[t].held \ {"post"},
                           ![t].pc = AfterPost(t)]
      BY <1>4
    <3> QED
      BY <1>1, <1>2, <3>1, <3>2, ThreadMoves
  <2>3. NetSame
    <3>1. net \in [Ids -> ConnType] /\ Conns \subseteq Ids
      BY <1>1, ConstantTypes DEF TypeOK
    <3> QED
      BY <1>2, <1>4, <3>1 DEF ConnType, NetSame
  <2>4. [sock |-> c, buf |-> b] \in [sock : Ids, buf : Seq(Packets)]
    BY <1>2
  <2>5. /\ \A x \in Slots \ {s} : Session'[x] = Session[x]
        /\ Session'[s].IOCount = Session[s].IOCount
        /\ Session'[s].SessionID = Session[s].SessionID
        /\ Over(Session'[s]) = Over(Session[s]) + 1
    BY <1>1, <1>2, <1>4, <2>4, OverAppend, OverOnly
  <2> QED
    BY <1>1, <1>3, <2>1, <2>2, <2>3, <2>5, PostedStep
<1>5. CASE /\ ShutDown(c) /\ UNCHANGED Session
           /\ th' = [th EXCEPT ![t].batch = <<>>, ![t].pc = "EndPost"]
  <2>1. Moves(t, "EndPost", th[t].back, s, th[t].held)
    <3>1. "EndPost" \in Labels
      BY DEF Labels
    <3> QED
      BY <1>1, <1>2, <1>5, <3>1, ThreadMoves
  <2>2. Carries(t, "EndPost", th[t].held)
    BY <1>1 DEF HoldingOf, Where, Releasing, Carries, Posting, Calling, Sending
  <2>3. SessionSame /\ NetSame
    BY <1>1, <1>2, <1>5, SessionKept, NetKept
  <2> QED
    BY <1>1, <1>3, <2>1, <2>2, <2>3, PlainStep DEF Releasing
<1> QED
  BY <1>4, <1>5 DEF WSASend

LEMMA WSARecvRefs ==
  ASSUME RefsInv, TypeOK', NEW t \in Threads, WSARecv(t)
  PROVE  RefsInv' /\ ExactKept
<1> DEFINE s == th[t].slot
           c == Session[s].sock
<1>1. HoldingOf(t) /\ TypeOK /\ th[t].pc = "WSARecv" /\ th[t].held \in SUBSET Kinds
  BY Typed, ThreadFields DEF RefsInv, Holding, WSARecv, At
<1>2. s \in Slots /\ c \in Ids /\ th[t].held \ {"post"} \in SUBSET Kinds
  BY <1>1, Typed, SessionFields
<1>3. UNCHANGED crashed
  BY DEF WSARecv, rest
<1>4. CASE /\ Session' = [Session EXCEPT ![s].RecvOver = Append(@, c)]
           /\ th' = [th EXCEPT ![t].held = @ \ {"post"}, ![t].pc = "EndEvent"]
           /\ UNCHANGED net
  <2>1. "EndEvent" = AfterPost(t)
    BY <1>1 DEF AfterPost, HoldingOf, Where, Releasing, Carries, Calling, Sending
  <2>2. Moves(t, "EndEvent", th[t].back, s, th[t].held \ {"post"})
    <3>1. "EndEvent" \in Labels
      BY DEF Labels
    <3>2. th' = [th EXCEPT ![t].held = th[t].held \ {"post"}, ![t].pc = "EndEvent"]
      BY <1>4
    <3> QED
      BY <1>1, <1>2, <3>1, <3>2, ThreadMoves
  <2>3. NetSame
    BY <1>1, <1>4, ConstantTypes, NetKept
  <2>4. /\ \A x \in Slots \ {s} : Session'[x] = Session[x]
        /\ Session'[s].IOCount = Session[s].IOCount
        /\ Session'[s].SessionID = Session[s].SessionID
        /\ Over(Session'[s]) = Over(Session[s]) + 1
    BY <1>1, <1>2, <1>4, OverAppend, OverOnly
  <2> QED
    BY <1>1, <1>3, <2>1, <2>2, <2>3, <2>4, PostedStep
<1>5. CASE ShutDown(c) /\ UNCHANGED Session /\ Goto(t, "EndPost")
  <2>1. Moves(t, "EndPost", th[t].back, s, th[t].held)
    <3>1. "EndPost" \in Labels
      BY DEF Labels
    <3> QED
      BY <1>1, <1>5, <3>1, ThreadMoves DEF Goto
  <2>2. Carries(t, "EndPost", th[t].held)
    BY <1>1 DEF HoldingOf, Where, Releasing, Carries, Posting, Calling, Sending
  <2>3. SessionSame /\ NetSame
    BY <1>1, <1>2, <1>5, SessionKept, NetKept
  <2> QED
    BY <1>1, <1>3, <2>1, <2>2, <2>3, PlainStep DEF Releasing
<1> QED
  BY <1>4, <1>5 DEF WSARecv

-----------------------------------------------------------------------------
(* AcceptThread *)

\* The accept thread holds nothing until it has taken the slot.
LEMMA AcceptorHolds ==
  ASSUME RefsInv, th[Acceptor].pc \in {"idle", "done", "TakeSlot"}
  PROVE  th[Acceptor].held = {}
<1>1. HoldingOf(Acceptor) /\ th[Acceptor].held \in SUBSET Kinds
  BY ConstantTypes, Typed, ThreadFields DEF RefsInv, Holding
<1> QED
  BY <1>1 DEF HoldingOf, Where, Releasing, Carries, Posting, Calling, Sending, Kinds

\* While the accept thread is filling the slot in, what it has read stays named.
LEMMA AcceptorNames ==
  ASSUME RefsInv, TypeOK', RefsCovered', UNCHANGED crashed, IDsSame, NetSame,
         Alone(Acceptor), HoldingOf(Acceptor)', NamingOf(Acceptor)',
         Named(th[Acceptor].arg, th[Acceptor].slot)',
         \A x \in Slots : /\ Session'[x].RecvOver = Session[x].RecvOver
                          /\ Session'[x].SendOver = Session[x].SendOver
  PROVE  RefsInv'
<1>1. TypeOK /\ Naming /\ Holding /\ Acceptor \in Threads /\ Steady
  BY ConstantTypes, KeptIsSteady DEF RefsInv
<1>2. Holding'
  BY <1>1, HoldingStep
<1>3. ASSUME NEW x \in Slots
      PROVE  /\ InUse(x)' => Named(Session[x].SessionID, x)'
             /\ (Session[x].RecvOver # <<>> \/ Session[x].SendOver # <<>>)' => InUse(x)'
  <2>1. Session[x].SessionID \in Ids
    BY <1>1, SessionFields DEF TypeOK
  <2>2. InUse(x)' = InUse(x) /\ Session'[x].SessionID = Session[x].SessionID
    BY DEF IDsSame, InUse
  <2>3. InUse(x)' => Named(Session[x].SessionID, x)'
    BY <1>1, <2>1, <2>2 DEF Naming, Steady, Named
  <2>4. (Session[x].RecvOver # <<>> \/ Session[x].SendOver # <<>>)' => InUse(x)'
    BY <1>1, <2>2 DEF Naming
  <2> QED
    BY <2>3, <2>4
<1>4. ASSUME NEW c \in Conns
      PROVE  (net[c].joins > 0 => net[c].sock # "none" /\ InUse(net[c].index))'
  <2>1. net[c].index \in Slots
    BY <1>1, ConnFields, ConstantTypes DEF TypeOK
  <2> QED
    BY <1>1, <2>1 DEF Naming, NetSame, Steady
<1>5. Naming'
  BY <1>1, <1>3, <1>4, NamingStep
<1> QED
  BY <1>2, <1>5 DEF RefsInv, NoCrash

LEMMA AcceptRefs ==
  ASSUME RefsInv, TypeOK', Accept
  PROVE  RefsInv' /\ ExactKept
<1>1. /\ TypeOK /\ RefsCovered /\ Naming /\ Holding
      /\ th[Acceptor].pc = "idle" /\ th[Acceptor].held = {}
      /\ Acceptor \in Threads /\ Acceptor \notin Callers
  BY AcceptorHolds, ConstantTypes, ThreadsAssumption DEF RefsInv, Accept, At
<1>2. UNCHANGED Session /\ UNCHANGED crashed
  BY DEF Accept, rest
<1>3. PICK c \in Conns :
        /\ net[c].sock = "none"
        /\ \/ /\ net' = [net EXCEPT ![c].sock = "closed"]
              /\ Goto(Acceptor, "done")
           \/ /\ emptySession # <<>>
              /\ net' = [net EXCEPT ![c].sock = "open", ![c].index = Last(emptySession)]
              /\ th' = [th EXCEPT ![Acceptor].slot = Last(emptySession),
                                  ![Acceptor].arg = c, ![Acceptor].pc = "TakeSlot"]
  BY DEF Accept
<1>4. CASE net' = [net EXCEPT ![c].sock = "closed"] /\ Goto(Acceptor, "done")
  <2>1. Moves(Acceptor, "done", th[Acceptor].back, th[Acceptor].slot, {})
    <3>1. "done" \in Labels
      BY DEF Labels
    <3>2. Moves(Acceptor, "done", th[Acceptor].back, th[Acceptor].slot, th[Acceptor].held)
      BY <1>1, <1>4, <3>1, ThreadMoves DEF Goto
    <3> QED
      BY <1>1, <3>2
  <2>2. Carries(Acceptor, "done", {})
    BY <1>1 DEF Carries, Posting, Calling, Sending
  <2>3. SessionSame /\ NetSame
    BY <1>1, <1>2, <1>4, ConstantTypes, SessionKept, NetKept
  <2> QED
    BY <1>1, <1>2, <2>1, <2>2, <2>3, PlainStep DEF Releasing
<1>5. CASE /\ emptySession # <<>>
           /\ net' = [net EXCEPT ![c].sock = "open", ![c].index = Last(emptySession)]
           /\ th' = [th EXCEPT ![Acceptor].slot = Last(emptySession),
                               ![Acceptor].arg = c, ![Acceptor].pc = "TakeSlot"]
  <2>1. PICK s \in Slots : s = Last(emptySession)
    BY <1>1, <1>5 DEF TypeOK, Last
  <2>2. /\ Moves(Acceptor, "TakeSlot", th[Acceptor].back, s, {})
        /\ th'[Acceptor].arg = c
    <3>1. "TakeSlot" \in Labels /\ c \in Ids
      BY ConstantTypes DEF Labels
    <3>2. th' = [th EXCEPT ![Acceptor].slot = s, ![Acceptor].arg = c, ![Acceptor].pc = "TakeSlot"]
      BY <1>5, <2>1
    <3>3. \A l \in Labels, x \in Slots, d \in Ids :
            th' = [th EXCEPT ![Acceptor].slot = x, ![Acceptor].arg = d, ![Acceptor].pc = l]
            => Moves(Acceptor, l, th[Acceptor].back, x, th[Acceptor].held) /\ th'[Acceptor].arg = d
      BY <1>1, ThreadMoves
    <3>4. /\ Moves(Acceptor, "TakeSlot", th[Acceptor].back, s, th[Acceptor].held)
          /\ th'[Acceptor].arg = c
      BY <3>1, <3>2, <3>3
    <3> QED
      BY <1>1, <3>4
  <2>3. RefsCovered' /\ ExactKept
    <3> DEFINE io   == Session[s].IOCount
               over == Over(Session[s])
    <3>1. io \in Int /\ over \in Nat
      BY <1>1, SessionNumbers DEF TypeOK
    <3>2. {} \in SUBSET Kinds /\ Cardinality({}) = 0
      BY FS_EmptySet
    <3>3. /\ io - over - Cardinality({}) <= io - over - Cardinality({})
          /\ io - over - Cardinality({}) = io - over - Cardinality({})
      <4> HIDE DEF io, over
      <4> QED
        BY <3>1, <3>2
    <3> QED
      BY <1>1, <1>2, <2>2, <3>2, <3>3, RefsTraded
  <2>4. Carries(Acceptor, "TakeSlot", {})
    BY <1>1 DEF Carries, Posting, Calling, Sending
  <2>5. HoldingOf(Acceptor)'
    BY <2>2, <2>4 DEF HoldingOf, Where, Moves, Carries, Releasing
  <2>6. Holding'
    BY <1>1, <2>2, <2>5, HoldingStep DEF Moves
  <2>7. /\ net'[c].index = s /\ net'[c].sock = "open"
        /\ \A d \in Conns \ {c} : net'[d] = net[d]
        /\ \A d \in Conns : net'[d].joins = net[d].joins
    BY <1>1, <1>5, <2>1, ConstantTypes DEF TypeOK, ConnType
  <2>8. Steady
    BY <1>2, <1>3, <2>7 DEF Steady, InUse, Named
  <2>9. NamingOf(Acceptor)'
    BY <2>2 DEF NamingOf, Moves
  <2>10. \A x \in Slots :
           /\ InUse(x)' => Named(Session[x].SessionID, x)'
           /\ (Session[x].RecvOver # <<>> \/ Session[x].SendOver # <<>>)' => InUse(x)'
    <3>1. ASSUME NEW x \in Slots PROVE Session[x].SessionID \in Ids
      BY <1>1, SessionFields DEF TypeOK
    <3> QED
      BY <1>1, <1>2, <2>8, <3>1 DEF Naming, Steady, InUse, Named
  <2>11. \A d \in Conns : (net[d].joins > 0 => net[d].sock # "none" /\ InUse(net[d].index))'
    <3> TAKE d \in Conns
    <3>1. CASE d = c
      BY <1>1, <1>3, <2>7, <3>1 DEF Naming
    <3>2. CASE d # c
      BY <1>1, <1>2, <2>7, <3>2 DEF Naming, InUse
    <3> QED
      BY <3>1, <3>2
  <2>12. Named(th[Acceptor].arg, th[Acceptor].slot)'
    BY <2>2, <2>7 DEF Named, Moves
  <2>13. Naming'
    <3>1. Alone(Acceptor)
      BY <2>2 DEF Moves
    <3> QED
      BY <1>1, <3>1, <2>8, <2>9, <2>10, <2>11, <2>12, NamingStep
  <2> QED
    BY <1>2, <2>3, <2>6, <2>13 DEF RefsInv, NoCrash
<1> QED
  BY <1>3, <1>4, <1>5

LEMMA AcceptEndRefs ==
  ASSUME RefsInv, TypeOK', AcceptEnd
  PROVE  RefsInv' /\ ExactKept
<1>1. /\ TypeOK /\ th[Acceptor].pc = "idle" /\ th[Acceptor].held = {}
      /\ Acceptor \in Threads /\ Acceptor \notin Callers
  BY AcceptorHolds, ConstantTypes, ThreadsAssumption DEF RefsInv, AcceptEnd, Step, At
<1>2. Moves(Acceptor, "done", th[Acceptor].back, th[Acceptor].slot, {})
  <2>1. "done" \in Labels
    BY DEF Labels
  <2>2. th' = [th EXCEPT ![Acceptor].pc = "done"]
    BY DEF AcceptEnd, Step, Goto
  <2>3. Moves(Acceptor, "done", th[Acceptor].back, th[Acceptor].slot, th[Acceptor].held)
    BY <1>1, <2>1, <2>2, ThreadMoves
  <2> QED
    BY <1>1, <2>3
<1>3. Carries(Acceptor, "done", {})
  BY <1>1 DEF Carries, Posting, Calling, Sending
<1>4. SessionSame /\ NetSame /\ UNCHANGED crashed
  BY <1>1, ConstantTypes, SessionKept, NetKept DEF AcceptEnd, rest
<1> QED
  BY <1>1, <1>2, <1>3, <1>4, PlainStep DEF Releasing

LEMMA TakeSlotRefs ==
  ASSUME RefsInv, TypeOK', TakeSlot
  PROVE  RefsInv' /\ ExactKept
<1> DEFINE s == th[Acceptor].slot
           h == th[Acceptor].held
           count == Session[s].IOCount
<1>1. /\ TypeOK /\ RefsCovered /\ Naming /\ Holding
      /\ th[Acceptor].pc = "TakeSlot" /\ h = {}
      /\ Acceptor \in Threads /\ Acceptor \notin Callers
      /\ s \in Slots /\ th[Acceptor].arg \in Ids /\ "event" \in Kinds
  BY AcceptorHolds, ConstantTypes, ThreadsAssumption, Typed, ThreadFields
     DEF RefsInv, TakeSlot, At, Kinds
<1>2. Session' = [Session EXCEPT ![s].IOCount = count + 1] /\ count + 1 \in Int
  <2>1. Session[s] \in SessionType
    BY <1>1 DEF TypeOK
  <2>2. count \in Int
    BY <2>1, SessionNumbers
  <2> QED
    BY <2>2 DEF TakeSlot, Take
<1>3. /\ Moves(Acceptor, "SetSock", th[Acceptor].back, s, h \cup {"event"})
      /\ th'[Acceptor].arg = th[Acceptor].arg
  <2>1. "SetSock" \in Labels /\ h \cup {"event"} \in SUBSET Kinds
    BY <1>1 DEF Labels
  <2>2. th' = [th EXCEPT ![Acceptor].held = h \cup {"event"}, ![Acceptor].pc = "SetSock"]
    BY DEF TakeSlot, Take
  <2>3. \A l \in Labels, x \in SUBSET Kinds :
          th' = [th EXCEPT ![Acceptor].held = x, ![Acceptor].pc = l]
          => Moves(Acceptor, l, th[Acceptor].back, s, x) /\ th'[Acceptor].arg = th[Acceptor].arg
    BY <1>1, ThreadMoves
  <2> HIDE DEF h
  <2> QED
    BY <2>1, <2>2, <2>3
<1>4. RefsCovered' /\ ExactKept
  BY <1>1, <1>2, <1>3, RefsTaken
<1>5. HoldingOf(Acceptor)'
  <2>1. Carries(Acceptor, "SetSock", {"event"})
    BY <1>1 DEF Carries, Posting, Calling, Sending
  <2> QED
    BY <1>1, <1>3, <2>1 DEF HoldingOf, Where, Moves, Carries, Releasing
<1>6. IDsSame /\ \A x \in Slots : /\ Session'[x].RecvOver = Session[x].RecvOver
                                  /\ Session'[x].SendOver = Session[x].SendOver
  <2> HIDE DEF s, count
  <2> QED
    BY <1>1, <1>2, IOCountNames
<1>7. UNCHANGED net /\ NetSame /\ UNCHANGED crashed
  BY <1>1, ConstantTypes, NetKept DEF TakeSlot, rest
<1>8. Named(th[Acceptor].arg, th[Acceptor].slot)'
  BY <1>1, <1>3, <1>7 DEF Naming, Named, Moves
<1>9. NamingOf(Acceptor)' /\ Alone(Acceptor)
  BY <1>3 DEF NamingOf, Moves
<1> QED
  BY <1>4, <1>5, <1>6, <1>7, <1>8, <1>9, AcceptorNames

\* The steps that fill a slot in and touch neither IOCount nor a name.
LEMMA FillRefs ==
  ASSUME RefsInv, TypeOK', SetSock \/ SetUse \/ ResetFlag
  PROVE  RefsInv' /\ ExactKept
<1> DEFINE s == th[Acceptor].slot
           h == th[Acceptor].held
<1>1. /\ TypeOK /\ Naming /\ HoldingOf(Acceptor)
      /\ Acceptor \in Threads /\ Acceptor \notin Callers
      /\ s \in Slots /\ h \in SUBSET Kinds
  BY ConstantTypes, ThreadsAssumption, Typed, ThreadFields DEF RefsInv, Holding
<1>2. SessionSame
  BY <1>1, SessionKept DEF SetSock, SetUse, ResetFlag
<1>3. UNCHANGED net /\ NetSame /\ UNCHANGED crashed
  BY <1>1, ConstantTypes, NetKept DEF SetSock, SetUse, ResetFlag, rest
<1>4. \A l \in Labels : Goto(Acceptor, l) =>
        Moves(Acceptor, l, th[Acceptor].back, s, h) /\ th'[Acceptor].arg = th[Acceptor].arg
  BY <1>1, ThreadMoves DEF Goto
<1>5. CASE SetSock
  <2>1. th[Acceptor].pc = "SetSock" /\ Goto(Acceptor, "SetID") /\ "SetID" \in Labels
    BY <1>5 DEF SetSock, Step, At, Labels
  <2>2. Moves(Acceptor, "SetID", th[Acceptor].back, s, h) /\ th'[Acceptor].arg = th[Acceptor].arg
    BY <1>4, <2>1
  <2>3. Carries(Acceptor, "SetID", h)
    BY <1>1, <2>1 DEF HoldingOf, Where, Releasing, Carries, Posting, Calling, Sending
  <2>4. HoldingOf(Acceptor)' /\ NamingOf(Acceptor)' /\ Alone(Acceptor)
    BY <2>2, <2>3 DEF HoldingOf, NamingOf, Where, Moves, Carries, Releasing
  <2>5. Named(th[Acceptor].arg, th[Acceptor].slot)'
    BY <1>1, <1>3, <2>1, <2>2 DEF Naming, Named, Moves
  <2>6. RefsCovered' /\ ExactKept
    BY <1>1, <1>2, <2>2, RefsKept DEF RefsInv
  <2>7. IDsSame /\ \A x \in Slots : /\ Session'[x].RecvOver = Session[x].RecvOver
                                    /\ Session'[x].SendOver = Session[x].SendOver
    BY <1>2 DEF SessionSame, IDsSame
  <2> QED
    BY <1>3, <2>4, <2>5, <2>6, <2>7, AcceptorNames
<1>6. CASE SetUse \/ ResetFlag
  <2>1. PICK l \in {"ResetFlag", "Join"} :
          th[Acceptor].pc \in {"SetUse", "ResetFlag"} /\ Goto(Acceptor, l)
    BY <1>6 DEF SetUse, ResetFlag, Step, At
  <2>2. Moves(Acceptor, l, th[Acceptor].back, s, h)
    <3>1. l \in Labels
      BY DEF Labels
    <3> QED
      BY <1>4, <2>1, <3>1
  <2>3. Carries(Acceptor, l, h)
    BY <1>1, <2>1 DEF HoldingOf, Where, Releasing, Carries, Posting, Calling, Sending
  <2> QED
    BY <1>1, <1>2, <1>3, <2>1, <2>2, <2>3, PlainStep DEF Releasing
<1> QED
  BY <1>5, <1>6

LEMMA SetIDRefs ==
  ASSUME RefsInv, TypeOK', SetID
  PROVE  RefsInv' /\ ExactKept
<1> DEFINE h == th[Acceptor].held
<1>1. /\ TypeOK /\ RefsCovered /\ Naming /\ HoldingOf(Acceptor) /\ th[Acceptor].pc = "SetID"
      /\ Acceptor \in Threads /\ Acceptor \notin Callers /\ h \in SUBSET Kinds
      /\ th[Acceptor].slot \in Slots
  BY ConstantTypes, ThreadsAssumption, Typed, ThreadFields DEF RefsInv, Holding, SetID, Step, At
<1>2. PICK s \in Slots : s = th[Acceptor].slot
  BY <1>1
<1>3. PICK c \in Conns : c = th[Acceptor].arg /\ Named(c, s)
  BY <1>1, <1>2 DEF Naming, Named
<1>4. Session' = [Session EXCEPT ![s].SessionID = c]
  BY <1>2, <1>3 DEF SetID
<1>5. /\ Session'[s].SessionID = c
      /\ \A x \in Slots \ {s} : Session'[x].SessionID = Session[x].SessionID
      /\ \A x \in Slots : /\ Session'[x].IOCount = Session[x].IOCount
                          /\ Session'[x].RecvOver = Session[x].RecvOver
                          /\ Session'[x].SendOver = Session[x].SendOver
  BY <1>1, <1>4 DEF TypeOK, SessionType
<1>6. UNCHANGED net /\ UNCHANGED crashed
  BY DEF SetID, rest
<1>7. Moves(Acceptor, "SetUse", th[Acceptor].back, s, h)
  <2>1. "SetUse" \in Labels /\ Goto(Acceptor, "SetUse")
    BY DEF Labels, SetID, Step
  <2> QED
    BY <1>1, <1>2, <2>1, ThreadMoves DEF Goto
<1>8. HoldingOf(Acceptor)'
  <2>1. Carries(Acceptor, "SetUse", h)
    BY <1>1 DEF HoldingOf, Where, Releasing, Carries, Posting, Calling, Sending
  <2> QED
    BY <1>7, <2>1 DEF HoldingOf, Where, Moves, Carries, Releasing
<1>9. Holding'
  BY <1>1, <1>7, <1>8, HoldingStep DEF RefsInv, Moves
<1>10. RefsCovered' /\ ExactKept
  <2>1. ASSUME NEW x \in Slots
        PROVE  /\ (Session[x].IOCount >= References(x))'
               /\ Session[x].IOCount = References(x) => (Session[x].IOCount = References(x))'
    <3>1. Holds(x)' = Holds(x)
      BY <1>2, <1>7 DEF Holds, Moves, Alone
    <3>2. References(x)' = References(x)
      BY <1>5, <3>1 DEF References
    <3> QED
      BY <1>1, <1>5, <3>2 DEF RefsCovered
  <2> QED
    BY <2>1 DEF RefsCovered, RefsExact, ExactKept
<1>11. c # NoConn /\ InUse(s)' /\ \A x \in Slots : InUse(x) => InUse(x)'
  BY <1>5, ConstantTypes DEF InUse, Conns, NoConn
<1>12. Steady
  BY <1>6, <1>11 DEF Steady, Named
<1>13. NamingOf(Acceptor)'
  BY <1>2, <1>7, <1>11 DEF NamingOf, Moves
<1>14. ASSUME NEW x \in Slots
       PROVE  /\ InUse(x)' => Named(Session[x].SessionID, x)'
              /\ (Session[x].RecvOver # <<>> \/ Session[x].SendOver # <<>>)' => InUse(x)'
  <2>1. InUse(x)' => Named(Session[x].SessionID, x)'
    <3>1. CASE x = s
      BY <1>3, <1>5, <1>6, <3>1 DEF Named
    <3>2. CASE x # s
      BY <1>1, <1>5, <1>6, <3>2 DEF Naming, Named, InUse
    <3> QED
      BY <3>1, <3>2
  <2> QED
    BY <1>1, <1>5, <1>11, <2>1 DEF Naming
<1>15. ASSUME NEW d \in Conns
       PROVE  (net[d].joins > 0 => net[d].sock # "none" /\ InUse(net[d].index))'
  <2>1. net[d].index \in Slots
    BY <1>1, ConnFields, ConstantTypes DEF TypeOK
  <2> QED
    BY <1>1, <1>6, <1>11, <2>1 DEF Naming
<1>16. Alone(Acceptor) /\ th'[Acceptor].pc = "SetUse"
  BY <1>7 DEF Moves
<1>17. Naming'
  BY <1>1, <1>12, <1>13, <1>14, <1>15, <1>16, NamingStep
<1> QED
  BY <1>6, <1>9, <1>10, <1>17 DEF RefsInv, NoCrash

\* SendPacket and Disconnect are called with an id whose slot is in use.
LEMMA CallMoves ==
  ASSUME TypeOK, NEW t \in Threads, NEW c \in Conns, NEW p \in Packets, Call(t, c, p),
         Carries(t, "Find", th[t].held),
         NEW s \in Slots, Named(c, s)', InUse(s)', t \notin Callers => s = th[t].slot
  PROVE  /\ Moves(t, "Find", th[t].back, th[t].slot, th[t].held)
         /\ HoldingOf(t)' /\ NamingOf(t)'
<1>1. Moves(t, "Find", th[t].back, th[t].slot, th[t].held) /\ th'[t].arg = c
  <2>1. "Find" \in Labels /\ c \in Ids
    BY ConstantTypes DEF Labels
  <2>2. \A l \in Labels, d \in Ids, q \in Packets :
          th' = [th EXCEPT ![t].pc = l, ![t].arg = d, ![t].msg = q]
          => Moves(t, l, th[t].back, th[t].slot, th[t].held) /\ th'[t].arg = d
    BY ThreadMoves
  <2>3. th' = [th EXCEPT ![t].pc = "Find", ![t].arg = c, ![t].msg = p]
    BY DEF Call
  <2> QED
    BY <2>1, <2>2, <2>3
<1>2. t \in Callers => th[t].held = {}
  <2>1. th[t].held \in SUBSET Kinds
    BY Typed, ThreadFields
  <2> QED
    BY <2>1 DEF Carries, Posting, Calling, Sending, Kinds
<1>3. HoldingOf(t)'
  BY <1>1 DEF HoldingOf, Where, Moves, Carries, Releasing
<1>4. (th[t].held # {})' => InUse(th[t].slot)'
  <2>1. CASE t \in Callers
    BY <1>1, <1>2, <2>1 DEF Moves
  <2>2. CASE t \notin Callers
    BY <1>1, <2>2 DEF Moves, InUse
  <2> QED
    BY <2>1, <2>2
<1>5. Named(th[t].arg, s)' /\ (t \notin Callers => s = th'[t].slot)
  BY <1>1 DEF Named, Moves
<1>6. NamingOf(t)'
  BY <1>4, <1>5 DEF NamingOf
<1> QED
  BY <1>1, <1>3, <1>6

LEMMA CallRefs ==
  ASSUME RefsInv, TypeOK', SessionSame, NetSame, UNCHANGED crashed,
         NEW t \in Threads, NEW c \in Conns, NEW p \in Packets, Call(t, c, p),
         Carries(t, "Find", th[t].held),
         NEW s \in Slots, Named(c, s), InUse(s), t \notin Callers => s = th[t].slot
  PROVE  RefsInv' /\ ExactKept
<1>1. TypeOK /\ RefsCovered /\ NoCrash'
  BY DEF RefsInv, NoCrash
<1>2. IDsSame /\ \A x \in Slots : /\ Session'[x].RecvOver = Session[x].RecvOver
                                  /\ Session'[x].SendOver = Session[x].SendOver
  BY DEF SessionSame, IDsSame
<1>3. Named(c, s)' /\ InUse(s)'
  BY <1>2, KeptIsSteady, ConstantTypes DEF Steady
<1>4. /\ Moves(t, "Find", th[t].back, th[t].slot, th[t].held)
      /\ HoldingOf(t)' /\ NamingOf(t)'
  BY <1>1, <1>3, CallMoves
<1>5. RefsCovered' /\ ExactKept
  BY <1>1, <1>4, RefsKept
<1>6. \A x \in Slots :
        (Session[x].RecvOver # <<>> \/ Session[x].SendOver # <<>>)' => InUse(x)
  BY <1>2 DEF RefsInv, Naming
<1>7. Alone(t) /\ th'[t].pc \notin {"TakeSlot", "SetSock", "SetID"}
  BY <1>4 DEF Moves
<1> QED
  BY <1>1, <1>2, <1>4, <1>5, <1>6, <1>7, SameIDsStep

LEMMA JoinRefs ==
  ASSUME RefsInv, TypeOK', Join
  PROVE  RefsInv' /\ ("reject" \notin OnJoin => ExactKept)
<1> DEFINE h == th[Acceptor].held
<1>1. /\ TypeOK /\ RefsCovered /\ Naming /\ HoldingOf(Acceptor) /\ th[Acceptor].pc = "Join"
      /\ Acceptor \in Threads /\ Acceptor \notin Callers /\ h \in SUBSET Kinds
      /\ th[Acceptor].slot \in Slots
  BY ConstantTypes, ThreadsAssumption, Typed, ThreadFields DEF RefsInv, Holding, Join, At
<1>2. UNCHANGED Session /\ SessionSame /\ UNCHANGED crashed /\ NoCrash'
  BY <1>1, SessionKept DEF Join, rest, RefsInv, NoCrash
<1>3. Carries(Acceptor, "Join", h)
  BY <1>1 DEF HoldingOf, Where, Releasing
<1>4. PICK s \in Slots : s = th[Acceptor].slot
  BY <1>1
<1>5. InUse(s)
  BY <1>1, <1>3, <1>4 DEF Naming, NamingOf, Carries
<1>6. PICK c \in Conns : c = Session[s].SessionID /\ Named(c, s)
  BY <1>1, <1>5 DEF Naming, Named
<1>7. CASE /\ "reject" \in OnJoin /\ UNCHANGED net
           /\ th' = [th EXCEPT ![Acceptor].held = {}, ![Acceptor].back = "idle",
                               ![Acceptor].pc = "Release"]
  <2>1. Moves(Acceptor, "Release", "idle", th[Acceptor].slot, {})
    <3>1. {"Release", "idle"} \subseteq Labels /\ {} \in SUBSET Kinds
      BY DEF Labels
    <3>2. \A l, b \in Labels, x \in SUBSET Kinds :
            th' = [th EXCEPT ![Acceptor].held = x, ![Acceptor].back = b, ![Acceptor].pc = l]
            => Moves(Acceptor, l, b, th[Acceptor].slot, x)
      BY <1>1, ThreadMoves
    <3> QED
      BY <1>7, <3>1, <3>2
  <2>2. HoldingOf(Acceptor)'
    <3>1. Carries(Acceptor, "idle", {})
      BY DEF Carries, Posting, Calling, Sending
    <3> QED
      BY <2>1, <3>1 DEF HoldingOf, Where, Moves, Carries, Releasing, Ends
  <2>3. NetSame
    BY <1>1, <1>7, ConstantTypes, NetKept
  <2>4. {} \in SUBSET th[Acceptor].held
    OBVIOUS
  <2>5. /\ "Release" \notin {"Find", "TakeSlot", "SetSock", "SetID"}
        /\ th[Acceptor].pc \notin {"SetSock", "SetID"}
    BY <1>1
  <2> QED
    BY <1>1, <1>2, <1>7, <2>1, <2>2, <2>3, <2>4, <2>5, QuietStep
<1>8. CASE /\ net' = [net EXCEPT ![c].joins = @ + 1]
           /\ \/ Call(Acceptor, c, <<c, 0>>)
              \/ Goto(Acceptor, "PostRecv")
  <2>1. \A d \in Conns : /\ net'[d].index = net[d].index /\ net'[d].sock = net[d].sock
                         /\ d # c => net'[d].joins = net[d].joins
    <3>1. net \in [Ids -> ConnType] /\ Conns \subseteq Ids
      BY <1>1, ConstantTypes DEF TypeOK
    <3>2. PICK x : net' = [net EXCEPT ![c].joins = x]
      BY <1>8
    <3> QED
      BY <3>1, <3>2 DEF ConnType
  <2>2. Steady /\ Named(c, s)' /\ InUse(s)'
    BY <1>2, <1>5, <1>6, <2>1 DEF Steady, InUse, Named
  <2>3. PICK l \in {"Find", "PostRecv"} :
           /\ Moves(Acceptor, l, th[Acceptor].back, th[Acceptor].slot, h)
           /\ HoldingOf(Acceptor)' /\ NamingOf(Acceptor)'
    <3>1. CASE Call(Acceptor, c, <<c, 0>>)
      <4>1. <<c, 0>> \in Packets
        BY ConstantTypes, SizesAssumption DEF Packets
      <4>2. Carries(Acceptor, "Find", h)
        BY <1>1, <1>3 DEF Carries, Posting, Calling, Sending
      <4> QED
        BY <1>1, <1>4, <2>2, <3>1, <4>1, <4>2, CallMoves
    <3>2. CASE Goto(Acceptor, "PostRecv")
      <4>1. "PostRecv" \in Labels
        BY DEF Labels
      <4>2. Moves(Acceptor, "PostRecv", th[Acceptor].back, th[Acceptor].slot, h)
        BY <1>1, <3>2, <4>1, ThreadMoves DEF Goto
      <4>3. Carries(Acceptor, "PostRecv", h)
        BY <1>1, <1>3 DEF Carries, Posting, Calling, Sending
      <4>4. HoldingOf(Acceptor)'
        BY <4>2, <4>3 DEF HoldingOf, Where, Moves, Carries, Releasing
      <4>5. NamingOf(Acceptor)'
        BY <1>4, <2>2, <4>2 DEF NamingOf, Moves
      <4> QED
        BY <4>2, <4>4, <4>5
    <3> QED
      BY <1>8, <3>1, <3>2
  <2>4. RefsCovered' /\ ExactKept
    BY <1>1, <1>2, <2>3, RefsKept
  <2>5. Holding'
    BY <1>1, <2>3, HoldingStep DEF RefsInv, Moves
  <2>6. ASSUME NEW x \in Slots
        PROVE  /\ InUse(x)' => Named(Session[x].SessionID, x)'
               /\ (Session[x].RecvOver # <<>> \/ Session[x].SendOver # <<>>)' => InUse(x)'
    BY <1>1, <1>2, <2>1 DEF Naming, InUse, Named
  <2>7. ASSUME NEW d \in Conns
        PROVE  (net[d].joins > 0 => net[d].sock # "none" /\ InUse(net[d].index))'
    <3>1. CASE d = c
      BY <1>2, <1>5, <1>6, <2>1, <3>1 DEF Named, InUse
    <3>2. CASE d # c
      BY <1>1, <1>2, <2>1, <3>2 DEF Naming, InUse
    <3> QED
      BY <3>1, <3>2
  <2>8. Alone(Acceptor) /\ th'[Acceptor].pc \notin {"TakeSlot", "SetSock", "SetID"}
    BY <2>3 DEF Moves
  <2>9. Naming'
    BY <1>1, <2>2, <2>3, <2>6, <2>7, <2>8, NamingStep
  <2> QED
    BY <1>2, <2>4, <2>5, <2>9 DEF RefsInv
<1> QED
  BY <1>4, <1>6, <1>7, <1>8 DEF Join

-----------------------------------------------------------------------------
(* WorkerThread *)

LEMMA RemoveAtLength ==
  ASSUME NEW S, NEW q \in Seq(S), NEW i \in DOMAIN q
  PROVE  Len(RemoveAt(q, i)) = Len(q) - 1
<1>1. i \in 1 .. Len(q) /\ Len(q) \in Nat
  OBVIOUS
<1> DEFINE a == SubSeq(q, 1, i - 1)
           b == SubSeq(q, i + 1, Len(q))
<1>2. a \in Seq(S) /\ Len(a) = i - 1
  BY <1>1
<1>3. b \in Seq(S) /\ Len(b) = Len(q) - i
  BY <1>1
<1>4. RemoveAt(q, i) = a \o b
  BY DEF RemoveAt
<1> HIDE DEF a, b
<1>5. Len(a \o b) = Len(a) + Len(b)
  BY <1>2, <1>3, ConcatProperties
<1> QED
  BY <1>1, <1>2, <1>3, <1>4, <1>5

LEMMA OverRemove ==
  ASSUME TypeOK, NEW s \in Slots
  PROVE  /\ \A i \in DOMAIN Session[s].RecvOver :
              \/ Session' = [Session EXCEPT ![s].RecvOver = RemoveAt(Session[s].RecvOver, i)]
              \/ \E y : Session' = [Session EXCEPT
                          ![s].RecvOver = RemoveAt(Session[s].RecvOver, i), ![s].RecvQ = y]
              => Over(Session'[s]) = Over(Session[s]) - 1
         /\ \A i \in DOMAIN Session[s].SendOver :
              Session' = [Session EXCEPT ![s].SendOver = RemoveAt(Session[s].SendOver, i)]
              => Over(Session'[s]) = Over(Session[s]) - 1
<1> DEFINE recv == Session[s].RecvOver
           send == Session[s].SendOver
<1>1. Session[s] \in SessionType /\ Session \in [Slots -> SessionType]
  BY DEF TypeOK
<1>2. recv \in Seq(Ids) /\ send \in Seq([sock : Ids, buf : Seq(Packets)])
  BY <1>1, SessionFields
<1>3. Len(recv) \in Nat /\ Len(send) \in Nat
  BY <1>2
<1>4. ASSUME NEW i \in DOMAIN recv,
             \/ Session' = [Session EXCEPT ![s].RecvOver = RemoveAt(recv, i)]
             \/ \E y : Session' = [Session EXCEPT ![s].RecvOver = RemoveAt(recv, i),
                                                  ![s].RecvQ = y]
      PROVE  Over(Session'[s]) = Over(Session[s]) - 1
  <2>1. Session'[s].RecvOver = RemoveAt(recv, i) /\ Session'[s].SendOver = send
    <3> DEFINE q == RemoveAt(recv, i)
    <3>1. \/ Session' = [Session EXCEPT ![s].RecvOver = q]
          \/ \E y : Session' = [Session EXCEPT ![s].RecvOver = q, ![s].RecvQ = y]
      BY <1>4
    <3> HIDE DEF q, recv
    <3>2. Session'[s].RecvOver = q /\ Session'[s].SendOver = send
      BY <1>1, <3>1 DEF SessionType
    <3> QED
      BY <3>2 DEF q
  <2>2. /\ Over(Session'[s]) = Len(RemoveAt(recv, i)) + Len(send)
        /\ Over(Session[s]) = Len(recv) + Len(send)
    BY <2>1 DEF Over
  <2> HIDE DEF recv, send
  <2>3. Len(RemoveAt(recv, i)) = Len(recv) - 1
    BY <1>2, <1>4, RemoveAtLength
  <2> QED
    BY <1>3, <2>2, <2>3
<1>5. ASSUME NEW i \in DOMAIN send,
             Session' = [Session EXCEPT ![s].SendOver = RemoveAt(send, i)]
      PROVE  Over(Session'[s]) = Over(Session[s]) - 1
  <2>1. Session'[s].SendOver = RemoveAt(send, i) /\ Session'[s].RecvOver = recv
    <3> DEFINE q == RemoveAt(send, i)
    <3>1. Session' = [Session EXCEPT ![s].SendOver = q]
      BY <1>5
    <3> HIDE DEF q, send
    <3>2. Session'[s].SendOver = q /\ Session'[s].RecvOver = recv
      BY <1>1, <3>1 DEF SessionType
    <3> QED
      BY <3>2 DEF q
  <2>2. /\ Over(Session'[s]) = Len(recv) + Len(RemoveAt(send, i))
        /\ Over(Session[s]) = Len(recv) + Len(send)
    BY <2>1 DEF Over
  <2> HIDE DEF recv, send
  <2>3. Len(RemoveAt(send, i)) = Len(send) - 1
    BY <1>2, <1>5, RemoveAtLength
  <2> QED
    BY <1>3, <2>2, <2>3
<1> QED
  BY <1>4, <1>5

\* A worker takes over the reference of a finished operation.
LEMMA FinishedStep ==
  ASSUME RefsInv, TypeOK', NEW w \in Workers, NEW s \in Slots,
         NEW l \in {"Parse", "FreeSent", "Zero"}, Begin(w, s, l), InUse(s),
         \A x \in Slots \ {s} : Session'[x] = Session[x],
         Session'[s].IOCount = Session[s].IOCount,
         Session'[s].SessionID = Session[s].SessionID,
         Over(Session'[s]) = Over(Session[s]) - 1,
         NetSame, UNCHANGED crashed
  PROVE  RefsInv' /\ ExactKept
<1>1. /\ HoldingOf(w) /\ TypeOK /\ RefsCovered /\ th[w].pc = "idle"
      /\ w \in Threads /\ w \notin Callers /\ th[w].held \in SUBSET Kinds
  BY ConstantTypes, ThreadsAssumption, Typed, ThreadFields DEF RefsInv, Holding, Begin, At
<1>2. th[w].held = {}
  BY <1>1 DEF HoldingOf, Where, Releasing, Carries, Posting, Calling, Sending, Kinds
<1>3. Moves(w, l, th[w].back, s, {"event"})
  <2>1. l \in Labels /\ {"event"} \in SUBSET Kinds
    BY DEF Labels, Kinds
  <2>2. \A m \in Labels, x \in Slots, h \in SUBSET Kinds :
          th' = [th EXCEPT ![w].slot = x, ![w].held = h, ![w].pc = m]
          => Moves(w, m, th[w].back, x, h)
    BY <1>1, ThreadMoves
  <2> QED
    BY <2>1, <2>2 DEF Begin
<1>4. RefsCovered' /\ ExactKept
  <2>1. "event" \in Kinds
    BY DEF Kinds
  <2> QED
    BY <1>1, <1>2, <1>3, <2>1, RefsFinished
<1>5. HoldingOf(w)'
  <2>1. Carries(w, l, {"event"})
    BY <1>1 DEF Carries, Posting, Calling, Sending
  <2> QED
    BY <1>3, <2>1 DEF HoldingOf, Where, Moves, Carries, Releasing
<1>6. IDsSame
  BY DEF IDsSame
<1>7. NamingOf(w)'
  BY <1>3, <1>6 DEF NamingOf, Moves, IDsSame, InUse
<1>8. \A x \in Slots :
        (Session[x].RecvOver # <<>> \/ Session[x].SendOver # <<>>)' => InUse(x)
  BY DEF RefsInv, Naming
<1>9. Alone(w) /\ th'[w].pc \notin {"TakeSlot", "SetSock", "SetID"} /\ NoCrash'
  BY <1>3 DEF Moves, RefsInv, NoCrash
<1> QED
  BY <1>1, <1>4, <1>5, <1>6, <1>7, <1>8, <1>9, SameIDsStep

\* Nothing is outstanding on a slot never used.
LEMMA OverInUse ==
  ASSUME RefsInv, NEW s \in Slots
  PROVE  /\ \A i \in DOMAIN Session[s].RecvOver : InUse(s)
         /\ \A i \in DOMAIN Session[s].SendOver : InUse(s)
<1>1. Session[s].RecvOver # <<>> \/ Session[s].SendOver # <<>> => InUse(s)
  BY DEF RefsInv, Naming
<1> QED
  BY <1>1

LEMMA CompletionsRefs ==
  ASSUME RefsInv, TypeOK', NEW w \in Workers, RecvDone(w) \/ SendDone(w) \/ ZeroDone(w)
  PROVE  RefsInv' /\ ExactKept
<1>1. TypeOK /\ UNCHANGED crashed
  BY DEF RefsInv, RecvDone, SendDone, ZeroDone, rest
<1>2. CASE RecvDone(w)
  <2> DEFINE Received(s, i, n) ==
               LET c == Session[s].RecvOver[i] IN
               /\ Begin(w, s, "Parse")
               /\ Session' = [Session EXCEPT
                    ![s].RecvOver = RemoveAt(Session[s].RecvOver, i),
                    ![s].RecvQ = Session[s].RecvQ \o SubSeq(net[c].inbound, 1, n)]
               /\ net' = [net EXCEPT
                    ![c].inbound = SubSeq(net[c].inbound, n + 1, Len(net[c].inbound))]
  <2>1. PICK s \in Slots : \E i \in DOMAIN Session[s].RecvOver : \E n \in 1 .. RecvMax :
          Received(s, i, n)
    BY <1>2 DEF RecvDone
  <2>2. PICK i \in DOMAIN Session[s].RecvOver : \E n \in 1 .. RecvMax : Received(s, i, n)
    BY <2>1
  <2>3. PICK n \in 1 .. RecvMax : Received(s, i, n)
    BY <2>2
  <2>4. NetSame
    <3> DEFINE c == Session[s].RecvOver[i]
               z == SubSeq(net[c].inbound, n + 1, Len(net[c].inbound))
    <3>1. net \in [Ids -> ConnType] /\ Conns \subseteq Ids /\ c \in Ids
      BY <1>1, OverType, ConstantTypes DEF TypeOK
    <3>2. net' = [net EXCEPT ![c].inbound = z]
      BY <2>3
    <3> HIDE DEF c, z, Received
    <3> QED
      BY <3>1, <3>2 DEF ConnType, NetSame
  <2>5. InUse(s)
    BY <2>2, OverInUse
  <2>6. Over(Session'[s]) = Over(Session[s]) - 1
    BY <1>1, <2>3, OverRemove
  <2>7. /\ \A x \in Slots \ {s} : Session'[x] = Session[x]
        /\ Session'[s].IOCount = Session[s].IOCount
        /\ Session'[s].SessionID = Session[s].SessionID
    BY <1>1, <2>3, OverOnly
  <2> QED
    BY <1>1, <2>3, <2>4, <2>5, <2>6, <2>7, FinishedStep
<1>3. CASE SendDone(w) \/ ZeroDone(w)
  <2>1. PICK s \in Slots, l \in {"FreeSent", "Zero"} :
          /\ Begin(w, s, l)
          /\ \/ \E i \in DOMAIN Session[s].RecvOver :
                  Session' = [Session EXCEPT ![s].RecvOver = RemoveAt(Session[s].RecvOver, i)]
             \/ \E i \in DOMAIN Session[s].SendOver :
                  Session' = [Session EXCEPT ![s].SendOver = RemoveAt(Session[s].SendOver, i)]
    BY <1>3 DEF SendDone, ZeroDone
  <2>2. NetSame
    BY <1>1, <1>3, ConstantTypes, NetKept DEF SendDone, ZeroDone
  <2>3. InUse(s)
    BY <2>1, OverInUse
  <2>4. Over(Session'[s]) = Over(Session[s]) - 1
    BY <1>1, <2>1, OverRemove
  <2>5. /\ \A x \in Slots \ {s} : Session'[x] = Session[x]
        /\ Session'[s].IOCount = Session[s].IOCount
        /\ Session'[s].SessionID = Session[s].SessionID
    BY <1>1, <2>1, OverOnly
  <2> QED
    BY <1>1, <2>1, <2>2, <2>3, <2>4, <2>5, FinishedStep
<1> QED
  BY <1>2, <1>3

LEMMA WorkerStepsRefs ==
  ASSUME RefsInv, TypeOK', NEW w \in Workers, Zero(w) \/ Quit(w) \/ FreeSent(w) \/ Recheck(w)
  PROVE  RefsInv' /\ ExactKept
<1> DEFINE s == th[w].slot
<1>1. /\ HoldingOf(w) /\ TypeOK /\ w \in Threads /\ w \notin Callers
      /\ th[w].held \in SUBSET Kinds /\ s \in Slots
  BY ConstantTypes, ThreadsAssumption, Typed, ThreadFields DEF RefsInv, Holding
<1>2. Session[s].sock \in Ids
  BY <1>1, Typed, SessionFields
<1>3. SessionSame
  <2>1. \/ UNCHANGED Session
        \/ Session' = [Session EXCEPT ![s].SendPack = Front(@)]
        \/ Session' = [Session EXCEPT ![s].SendFlag = FALSE]
    BY DEF Zero, Quit, FreeSent, Recheck
  <2> QED
    BY <1>1, <2>1, SessionKept
<1>4. NetSame /\ UNCHANGED crashed
  <2>1. (UNCHANGED net \/ ShutDown(Session[s].sock)) /\ UNCHANGED crashed
    BY DEF Zero, Quit, FreeSent, Recheck, rest
  <2> QED
    BY <1>1, <1>2, <2>1, ConstantTypes, NetKept
<1>5. PICK l \in {"EndEvent", "done", "Recheck", "PostSend", "FreeSent"} :
        /\ Goto(w, l) \/ (UNCHANGED th /\ l = "FreeSent")
        /\ \/ th[w].pc = "Zero" /\ l = "EndEvent"
           \/ th[w].pc = "idle" /\ l = "done"
           \/ th[w].pc = "FreeSent" /\ l \in {"FreeSent", "Recheck"}
           \/ th[w].pc = "Recheck" /\ l \in {"PostSend", "EndEvent"}
  BY DEF Zero, Quit, FreeSent, Recheck, Step, At
<1>6. Moves(w, l, th[w].back, s, th[w].held)
  <2>1. CASE Goto(w, l)
    <3>1. l \in Labels
      BY DEF Labels
    <3> QED
      BY <1>1, <2>1, <3>1, ThreadMoves DEF Goto
  <2>2. CASE UNCHANGED th /\ l = "FreeSent" /\ th[w].pc = "FreeSent"
    BY <2>2 DEF Moves, Alone
  <2> QED
    BY <1>5, <2>1, <2>2
<1>7. Carries(w, l, th[w].held)
  BY <1>1, <1>5 DEF HoldingOf, Where, Releasing, Carries, Posting, Calling, Sending
<1> QED
  BY <1>1, <1>3, <1>4, <1>5, <1>6, <1>7, PlainStep DEF Releasing

LEMMA ParseRefs ==
  ASSUME RefsInv, TypeOK', NEW w \in Workers, Parse(w)
  PROVE  RefsInv' /\ ExactKept
<1> DEFINE q == Session[th[w].slot].RecvQ
<1>1. /\ HoldingOf(w) /\ NamingOf(w) /\ TypeOK /\ th[w].pc = "Parse"
      /\ w \in Threads /\ w \notin Callers /\ th[w].slot \in Slots
  BY ConstantTypes, ThreadsAssumption, Typed DEF RefsInv, Holding, Naming, Parse, At
<1>2. PICK s \in Slots : s = th[w].slot
  BY <1>1
<1>3. Carries(w, "Parse", th[w].held)
  BY <1>1 DEF HoldingOf, Where, Releasing
<1>4. InUse(s)
  BY <1>1, <1>2, <1>3 DEF NamingOf, Carries
<1>5. PICK c \in Conns : c = Session[s].SessionID /\ Named(c, s)
  BY <1>4 DEF RefsInv, Naming, Named
<1>6. SessionSame /\ UNCHANGED crashed
  <2>1. /\ UNCHANGED Session \/ \E x : Session' = [Session EXCEPT ![s].RecvQ = x]
        /\ UNCHANGED crashed
    BY <1>2 DEF Parse, rest
  <2> QED
    BY <1>1, <2>1, SessionKept
<1>7. NetSame
  <2>1. UNCHANGED net \/ ShutDown(Session[s].sock)
    BY <1>2 DEF Parse
  <2>2. Session[s].sock \in Ids
    BY <1>1, <1>2, Typed, SessionFields
  <2> QED
    BY <1>1, <2>1, <2>2, ConstantTypes, NetKept
<1>8. CASE Goto(w, "PostRecv") \/ UNCHANGED th
  <2>1. PICK l \in {"PostRecv", "Parse"} : Moves(w, l, th[w].back, th[w].slot, th[w].held)
    <3>1. CASE Goto(w, "PostRecv")
      <4>1. "PostRecv" \in Labels
        BY DEF Labels
      <4> QED
        BY <1>1, <3>1, <4>1, ThreadMoves DEF Goto
    <3>2. CASE UNCHANGED th
      BY <1>1, <3>2 DEF Moves, Alone
    <3> QED
      BY <1>8, <3>1, <3>2
  <2>2. Carries(w, l, th[w].held)
    BY <1>1, <1>3 DEF Carries, Posting, Calling, Sending
  <2> QED
    BY <1>1, <1>6, <1>7, <2>1, <2>2, PlainStep DEF Releasing
<1>9. CASE \/ Call(w, c, <<c, q[2].n>>) /\ <<c, q[2].n>> \in Packets
           \/ Call(w, c, NoPack)
  <2>1. Carries(w, "Find", th[w].held)
    BY <1>1, <1>3 DEF Carries, Posting, Calling, Sending
  <2>2. CASE Call(w, c, <<c, q[2].n>>) /\ <<c, q[2].n>> \in Packets
    BY <1>1, <1>2, <1>4, <1>5, <1>6, <1>7, <2>1, <2>2, CallRefs
  <2>3. CASE Call(w, c, NoPack)
    BY <1>1, <1>2, <1>4, <1>5, <1>6, <1>7, <2>1, <2>3, ConstantTypes, CallRefs
  <2> QED
    BY <1>9, <2>2, <2>3
<1>10. Len(q) >= 2 => <<c, q[2].n>> \in Packets
  <2>1. q \in Seq(Units)
    BY <1>1, Typed, SessionFields
  <2> HIDE DEF q
  <2>2. ASSUME Len(q) >= 2 PROVE q[2] \in Units
    BY <2>1, <2>2
  <2>3. c \in Ids
    BY ConstantTypes
  <2>4. ASSUME NEW u \in Units PROVE u.n \in 0 .. MaxMsgs + 1
    <3>1. u.n \in 1 .. MaxMsgs
      BY DEF Units
    <3> QED
      BY <3>1, SizesAssumption
  <2> QED
    BY <2>2, <2>3, <2>4 DEF Packets
<1> QED
  BY <1>2, <1>5, <1>8, <1>9, <1>10 DEF Parse

-----------------------------------------------------------------------------
(* The rest of the system, and the theorems *)

LEMMA AppCallRefs ==
  ASSUME RefsInv, TypeOK', NEW t \in Callers, AppCall(t)
  PROVE  RefsInv' /\ ExactKept
<1>1. HoldingOf(t) /\ TypeOK /\ Naming /\ th[t].pc = "idle" /\ t \in Threads
  BY ConstantTypes DEF RefsInv, Holding, AppCall, At
<1>2. SessionSame /\ NetSame /\ UNCHANGED crashed
  BY <1>1, ConstantTypes, SessionKept, NetKept DEF AppCall
<1>3. PICK c \in Conns : /\ net[c].joins > 0
                         /\ Call(t, c, NoPack) \/ Call(t, c, <<c, MaxMsgs + 1>>)
  BY DEF AppCall
<1>4. PICK s \in Slots : s = net[c].index
  BY <1>1, ConnFields, ConstantTypes DEF TypeOK
<1>5. Named(c, s) /\ InUse(s)
  BY <1>1, <1>3, <1>4 DEF Naming, Named
<1>6. Carries(t, "Find", th[t].held)
  BY <1>1 DEF HoldingOf, Where, Releasing, Carries, Posting, Calling, Sending
<1>7. <<c, MaxMsgs + 1>> \in Packets
  <2>1. c \in Ids /\ MaxMsgs + 1 \in 0 .. MaxMsgs + 1
    BY ConstantTypes, SizesAssumption
  <2> QED
    BY <2>1 DEF Packets
<1> QED
  BY <1>1, <1>2, <1>3, <1>5, <1>6, <1>7, ConstantTypes, CallRefs

\* A step of no thread of the server.
LEMMA OutsideStep ==
  ASSUME RefsInv, TypeOK', UNCHANGED <<Session, th, crashed>>, NetSame
  PROVE  RefsInv' /\ ExactKept
<1>1. /\ TypeOK /\ Naming /\ Holding /\ RefsCovered /\ Acceptor \in Threads
      /\ IDsSame /\ Steady
  BY ConstantTypes, KeptIsSteady DEF RefsInv, IDsSame
<1>2. Holding'
  BY <1>1 DEF Holding, HoldingOf, Where
<1>3. RefsCovered' /\ ExactKept
  BY <1>1 DEF RefsCovered, RefsExact, ExactKept, References, Holds
<1>4. HoldingOf(Acceptor)' /\ Alone(Acceptor)
  BY <1>1, <1>2 DEF Holding, Alone
<1>5. NamingOf(Acceptor)'
  <2>1. NamingOf(Acceptor) /\ th[Acceptor].slot \in Slots /\ th[Acceptor].arg \in Ids
    BY <1>1, Typed, ThreadFields DEF Naming
  <2> QED
    BY <1>1, <2>1 DEF NamingOf, Steady
<1>6. CASE th[Acceptor].pc \in {"TakeSlot", "SetSock", "SetID"}
  <2>1. th[Acceptor].slot \in Slots /\ th[Acceptor].arg \in Ids
    BY <1>1, Typed, ThreadFields
  <2>2. Named(th[Acceptor].arg, th[Acceptor].slot)'
    BY <1>1, <1>6, <2>1 DEF Naming, Steady, Named
  <2> QED
    BY <1>1, <1>3, <1>4, <1>5, <2>2, AcceptorNames
<1>7. CASE th[Acceptor].pc \notin {"TakeSlot", "SetSock", "SetID"}
  <2>1. \A x \in Slots :
          (Session[x].RecvOver # <<>> \/ Session[x].SendOver # <<>>)' => InUse(x)
    BY <1>1 DEF Naming
  <2> QED
    BY <1>1, <1>3, <1>4, <1>5, <1>7, <2>1, SameIDsStep DEF NoCrash, RefsInv
<1> QED
  BY <1>6, <1>7

LEMMA OutsideRefs ==
  ASSUME RefsInv, TypeOK', Stop \/ UNCHANGED vars \/ \E c \in Conns : Client(c)
  PROVE  RefsInv' /\ ExactKept
<1>1. TypeOK
  BY DEF RefsInv
<1>2. UNCHANGED <<Session, th, crashed>>
  BY DEF Stop, StopListen, StopShut, StopQuit, StopWait, Client, PeerSend, PeerClose, vars, rest
<1>3. NetSame
  <2>1. CASE Stop \/ UNCHANGED vars
    <3>1. CASE StopShut
      <4>1. sweep \in Slots /\ (UNCHANGED net \/ ShutDown(Session[sweep].sock))
        BY <3>1 DEF StopShut
      <4>2. Session[sweep] \in SessionType
        BY <1>1, <4>1 DEF TypeOK
      <4>3. Session[sweep].sock \in Ids
        BY <4>2, SessionFields
      <4> QED
        BY <1>1, <4>1, <4>3, ConstantTypes, NetKept
    <3>2. CASE ~StopShut
      BY <1>1, <2>1, <3>2, ConstantTypes, NetKept
         DEF Stop, StopListen, StopQuit, StopWait, vars, rest
    <3> QED
      BY <3>1, <3>2
  <2>2. CASE \E c \in Conns : PeerClose(c)
    BY <1>1, <2>2, ConstantTypes, NetKept DEF PeerClose
  <2>3. CASE \E c \in Conns : PeerSend(c)
    <3>1. PICK c \in Conns : PeerSend(c)
      BY <2>3
    <3>2. PICK r : net' = [net EXCEPT ![c].asked = net[c].asked + 1,
                                      ![c].inbound = net[c].inbound \o r]
      BY <3>1 DEF PeerSend
    <3>3. net \in [Ids -> ConnType] /\ Conns \subseteq Ids
      BY <1>1, ConstantTypes DEF TypeOK
    <3> QED
      BY <3>2, <3>3 DEF ConnType, NetSame
  <2> QED
    BY <2>1, <2>2, <2>3 DEF Client
<1> QED
  BY <1>2, <1>3, OutsideStep

\* No SendPacket meets a full SendQ.
RoomToQueue ==
  \A t \in Threads : th[t].pc = "Enqueue" => Len(Session[th[t].slot].SendQ) < QueueMax

LEMMA CommonRefs ==
  ASSUME RefsInv, TypeOK', NEW t \in Threads, Common(t)
  PROVE  RefsInv' /\ (RoomToQueue => ExactKept)
<1>1. CASE EndPost(t) \/ EndPostEmpty(t) \/ EndCall(t) \/ EndEvent(t)
  BY <1>1, IODecrementRefs
<1>2. CASE SessionRelease(t)
  BY <1>2, SessionReleaseRefs
<1>3. CASE Find(t)
  BY <1>3, FindRefs
<1>4. CASE FindUse(t) \/ FindID(t) \/ Disconnect(t)
  BY <1>4, FindLockSessionRefs
<1>5. CASE Enqueue(t)
  BY <1>5, EnqueueRefs DEF RoomToQueue, Enqueue, At
<1>6. CASE FreeMsg(t)
  BY <1>6, FreeMsgRefs
<1>7. CASE PostSend(t) \/ PostRecv(t)
  BY <1>7, TakeRefs
<1>8. CASE SetFlag(t) \/ Dequeue(t) \/ ClearFlag(t)
  BY <1>8, PostSendRefs
<1>9. CASE WSASend(t)
  BY <1>9, WSASendRefs
<1>10. CASE WSARecv(t)
  BY <1>10, WSARecvRefs
<1> QED
  BY <1>1, <1>2, <1>3, <1>4, <1>5, <1>6, <1>7, <1>8, <1>9, <1>10 DEF Common

LEMMA ExactStep ==
  ASSUME RefsInv, [Next]_vars
  PROVE  RefsInv' /\ ("reject" \notin OnJoin /\ RoomToQueue => ExactKept)
<1>1. TypeOK'
  BY StepTypeOK DEF RefsInv
<1>2. CASE \E t \in Threads : Common(t)
  BY <1>1, <1>2, CommonRefs
<1>3. CASE AcceptThread
  BY <1>1, <1>3, AcceptRefs, AcceptEndRefs, TakeSlotRefs, FillRefs, SetIDRefs, JoinRefs
     DEF AcceptThread
<1>4. CASE \E w \in Workers : WorkerThread(w)
  BY <1>1, <1>4, CompletionsRefs, WorkerStepsRefs, ParseRefs DEF WorkerThread
<1>5. CASE \E t \in Callers : AppCall(t)
  BY <1>1, <1>5, AppCallRefs
<1>6. CASE Stop \/ UNCHANGED vars \/ \E c \in Conns : Client(c)
  BY <1>1, <1>6, OutsideRefs
<1> QED
  BY <1>2, <1>3, <1>4, <1>5, <1>6 DEF Next

LEMMA StepRefs == RefsInv /\ [Next]_vars => RefsInv'
BY ExactStep

LEMMA InitRefs == Init => RefsInv /\ RefsExact
<1> SUFFICES ASSUME Init PROVE RefsInv /\ RefsExact
  OBVIOUS
<1>1. TypeOK
  BY InitTypeOK
<1>2. /\ \A s \in Slots : Session[s] = NewSession
      /\ \A t \in Threads : th[t] = NewThread
      /\ \A c \in Conns : net[c] = NewConn
      /\ ~crashed
  BY ConstantTypes DEF Init
<1>3. Holding
  <2>1. \A t \in Threads : Carries(t, "idle", {})
    BY DEF Carries, Posting, Calling, Sending
  <2>2. \A t \in Threads : th[t].pc = "idle" /\ th[t].held = {}
    BY <1>2 DEF NewThread
  <2>3. ASSUME NEW t \in Threads PROVE HoldingOf(t)
    <3>1. th[t].pc \notin Releasing
      BY <2>2 DEF Releasing
    <3>2. Carries(t, th[t].pc, th[t].held)
      BY <2>1, <2>2
    <3> QED
      BY <3>1, <3>2 DEF HoldingOf, Where
  <2> QED
    BY <2>3 DEF Holding
<1>4. Naming
  BY <1>2, ConstantTypes DEF Naming, NamingOf, InUse, NewSession, NewThread, NewConn
<1>5. RefsCovered /\ RefsExact
  <2>1. ASSUME NEW s \in Slots PROVE  /\ Session[s].IOCount >= References(s)
                                   /\ Session[s].IOCount = References(s)
    <3>1. Holds(s) = {}
      BY <1>2 DEF Holds, NewThread
    <3>2. Cardinality(Holds(s)) = 0
      BY <3>1, FS_EmptySet
    <3>3. /\ Session[s].IOCount = 0
          /\ Session[s].RecvOver = <<>> /\ Session[s].SendOver = <<>>
      BY <1>2 DEF NewSession
    <3>4. References(s) = 0
      BY <3>2, <3>3 DEF References
    <3> QED
      BY <3>3, <3>4
  <2> QED
    BY <2>1 DEF RefsCovered, RefsExact
<1> QED
  BY <1>1, <1>2, <1>3, <1>4, <1>5 DEF RefsInv, NoCrash

THEOREM RefsInvariant == Spec => []RefsInv
BY InitRefs, StepRefs, PTL DEF Spec

\* IOCount never falls below the references that threads and outstanding I/O
\* still have to give back.
THEOREM ReferencesCovered == Spec => []RefsCovered
<1>1. RefsInv => RefsCovered
  BY DEF RefsInv
<1> QED
  BY <1>1, RefsInvariant, PTL

\* No IODecrement ever reaches its Crash().
THEOREM CrashNeverReached == Spec => []NoCrash
<1>1. RefsInv => NoCrash
  BY DEF RefsInv
<1> QED
  BY <1>1, RefsInvariant, PTL

\* No reference is lost: as long as the application refuses no connection and no SendPacket
\* meets a full SendQ, IOCount is exactly what is still to be given back, through all the
\* failures of WSARecv and WSASend and whatever the clients, Stop and old ids do.  The two
\* exceptions are where the code returns without IODecrement (NetworkModule.cpp:101).
THEOREM ReferencesExact ==
  ASSUME "reject" \notin OnJoin
  PROVE  Spec /\ []RoomToQueue => []RefsExact
<1>1. Init => RefsInv /\ RefsExact
  BY InitRefs
<1>2. RefsInv /\ RefsExact /\ RoomToQueue /\ [Next]_vars => RefsInv' /\ RefsExact'
  BY ExactStep DEF ExactKept
<1> QED
  BY <1>1, <1>2, PTL DEF Spec
=============================================================================
