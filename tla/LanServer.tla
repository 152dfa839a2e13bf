----------------------------- MODULE LanServer -----------------------------
(***************************************************************************)
(* CLanServer: an IOCP server with one accept thread, a pool of worker     *)
(* threads, an application on top of it and its Stop.  A session lives in  *)
(* a slot of Session_Array and is kept alive by IOCount, which counts the  *)
(* references held by threads and by outstanding overlapped I/O.           *)
(*                                                                         *)
(* An action is one access to memory shared between threads: an            *)
(* interlocked operation, a plain read or write, an operation on SendQ,    *)
(* SendPack or emptySession (atomic here), a socket call or a callback.    *)
(* pc names the access a thread performs next, back where it goes on after *)
(* the IODecrement, and the release, it is in.                             *)
(*                                                                         *)
(* A connection is numbered in the order accept() returns it; the number   *)
(* stands for the socket handle and for the unique part of the SessionID,  *)
(* and its index is the slot packed in the upper bits of that id.  A       *)
(* request is two units of the byte stream, a header and a body.           *)
(*                                                                         *)
(* _RecvPacketTPS, _SendPacketTPS and the accept totals are left out: they *)
(* are only ever printed.                                                  *)
(***************************************************************************)
EXTENDS Integers, Sequences, FiniteSets, SequencesExt

CONSTANTS
  SessionMax,     \* Session_Max of Start: the length of Session_Array
  Workers,        \* the worker threads
  Acceptor,       \* the accept thread
  Callers,        \* application threads that call SendPacket and Disconnect
  MaxConns,       \* bound: connections the environment makes
  MaxMsgs,        \* bound: requests a peer sends on a connection
  MaxCalls,       \* bound: calls the application threads make
  SendbufMax,     \* SendbufMax of NetworkModule.h: buffers in one WSASend
  QueueMax,       \* _MaxCnt of SendQ
  RecvMax,        \* stream units RecvQ holds
  OnJoin,         \* what OnClientJoin may do: "greet", "accept", "reject"
  OnRecv,         \* what OnRecv may do: "echo", "ignore", "disconnect"
  BadHeaders,     \* a peer may send a header the server rejects
  NoBufs,         \* WSARecv and WSASend may fail on a healthy socket
  Stoppable       \* main may call Stop

Slots   == 0 .. SessionMax - 1
Threads == Workers \cup Callers \cup {Acceptor}
Conns   == 1 .. MaxConns
NoConn  == 0                      \* sock and SessionID of a slot never used
Ids     == Conns \cup {NoConn}
Kinds   == {"event", "call", "post"}
Packets == Ids \X (0 .. MaxMsgs + 1)
NoPack  == <<NoConn, 0>>          \* a NULL Packet *
Units   == [kind : {"head", "bad", "body"}, n : 1 .. MaxMsgs]

ASSUME SizesAssumption ==
  /\ SessionMax \in Nat \ {0}
  /\ MaxConns \in Nat /\ MaxMsgs \in Nat /\ MaxCalls \in Nat
  /\ SendbufMax \in Nat \ {0} /\ QueueMax \in Nat /\ RecvMax \in Nat

ASSUME ThreadsAssumption ==
  /\ IsFiniteSet(Workers) /\ IsFiniteSet(Callers)
  /\ Acceptor \notin Workers \cup Callers
  /\ Workers \cap Callers = {}

ASSUME ApplicationAssumption ==
  /\ OnJoin \subseteq {"greet", "accept", "reject"}
  /\ OnRecv \subseteq {"echo", "ignore", "disconnect"}
  /\ {BadHeaders, NoBufs, Stoppable} \subseteq BOOLEAN

VARIABLES
  Session,        \* Session_Array; RecvOver and SendOver hold the overlapped
                  \* operations outstanding with them
  emptySession,   \* stack of free slots, its top last
  UseSessionCnt,  \* _Use_Session_Cnt
  th,             \* the threads: control, the slot p, the references held and to
                  \* be given back, the arguments of SendPacket, and its buf[]
  refs,           \* iRefCnt of every packet
  net,            \* the connections, see Connection
  calls,          \* calls the application threads have made
  main, sweep,    \* control of Stop and the slot its loop is at
  quit,           \* the quit packet is in the completion queue
  crashed         \* CCrashDump::Crash was called

pool == <<emptySession, UseSessionCnt>>
rest == <<calls, main, sweep, quit, crashed>>
vars == <<Session, pool, th, refs, net, rest>>

NewSession == [IOCount |-> 0, UseFlag |-> FALSE, sock |-> NoConn, SessionID |-> NoConn,
               SendFlag |-> FALSE, SendQ |-> <<>>, SendPack |-> <<>>, RecvQ |-> <<>>,
               RecvOver |-> <<>>, SendOver |-> <<>>]
NewThread  == [pc |-> "idle", back |-> "idle", slot |-> 0, held |-> {}, arg |-> NoConn,
               msg |-> NoPack, batch |-> <<>>]

\* sock is the server's socket, index the slot of its id and completion key;
\* peer, asked and inbound are the client, what it asked and what is under way;
\* wire lists the replies sent; joins and leaves count the callbacks.
NewConn == [sock |-> "none", index |-> 0, peer |-> "up", asked |-> 0, inbound |-> <<>>,
            wire |-> <<>>, joins |-> 0, leaves |-> 0]

\* The server as Start leaves it, every thread at the top of its loop.
Init ==
  /\ Session = [s \in Slots |-> NewSession]
  /\ emptySession = [i \in 1 .. SessionMax |-> i - 1]
  /\ UseSessionCnt = 0
  /\ th = [t \in Threads |-> NewThread]
  /\ refs = [p \in Packets |-> 0]
  /\ net = [c \in Ids |-> NewConn]
  /\ calls = 0
  /\ main = "run" /\ sweep = 0 /\ quit = FALSE
  /\ crashed = FALSE

-----------------------------------------------------------------------------
(* Control and sockets *)

\* Crash() ends the process.
At(t, l)   == ~crashed /\ th[t].pc = l
Goto(t, l) == th' = [th EXCEPT ![t].pc = l]
Step(t, from, to) == At(t, from) /\ Goto(t, to)

\* shutdown(sock, SD_BOTH), which has no effect on a socket no longer open.
ShutDown(c) == net' = [net EXCEPT ![c].sock = IF @ = "open" THEN "shut" ELSE @]

Healthy(c) == net[c].sock = "open" /\ net[c].peer = "up"

\* Whether an overlapped call may be accepted, may be refused.
MayPost(c) == net[c].sock = "open"
MayFail(c) == NoBufs \/ ~Healthy(c)

\* Slip: the reference is taken without counting it.
Slip_Take(t, k, l) ==
  /\ th' = [th EXCEPT ![t].held = @ \cup {k}, ![t].pc = l]
  /\ UNCHANGED Session

\* Take a reference of kind k on the session, and go on at l.
Take(t, k, l) ==
  /\ Session' = [Session EXCEPT ![th[t].slot].IOCount = @ + 1]
  /\ th' = [th EXCEPT ![t].held = @ \cup {k}, ![t].pc = l]

\* Where SendPacket and Disconnect return to in the code that called them.
AfterCall(t) ==
  IF t = Acceptor THEN "PostRecv" ELSE IF t \in Workers THEN "Parse" ELSE "idle"

\* Where PostSend and PostRecv return to: SendPacket, or the end of a handler.
AfterPost(t) == IF "call" \in th[t].held THEN "EndCall" ELSE "EndEvent"

-----------------------------------------------------------------------------
(* IODecrement and SessionRelease *)

\* Slip: the thread goes on at one reference, too.
Slip_IODecrement(t, k, l) ==
  LET count == Session[th[t].slot].IOCount IN
  /\ Session' = [Session EXCEPT ![th[t].slot].IOCount = @ - 1]
  /\ th' = [th EXCEPT ![t].held = @ \ {k}, ![t].back = l,
                      ![t].pc = IF count \in {1, 2} THEN "Release" ELSE l]
  /\ crashed' = (count - 1 < 0)
  /\ UNCHANGED <<pool, refs, net, calls, main, sweep, quit>>

\* InterlockedDecrement; at zero the thread goes on into SessionRelease.
IODecrement(t, k, l) ==
  LET count == Session[th[t].slot].IOCount IN
  /\ Session' = [Session EXCEPT ![th[t].slot].IOCount = @ - 1]
  /\ th' = [th EXCEPT ![t].held = @ \ {k}, ![t].back = l,
                      ![t].pc = IF count = 1 THEN "Release" ELSE l]
  /\ crashed' = (count - 1 < 0)
  /\ UNCHANGED <<pool, refs, net, calls, main, sweep, quit>>

\* Slip: the failed call returns without IODecrement.
Slip_EndPost(t) ==
  /\ At(t, "EndPost")
  /\ th' = [th EXCEPT ![t].held = @ \ {"post"}, ![t].pc = AfterPost(t)]
  /\ UNCHANGED <<Session, pool, refs, net, rest>>

EndPost(t)      == At(t, "EndPost") /\ IODecrement(t, "post", AfterPost(t))
EndPostEmpty(t) == At(t, "EndPostEmpty") /\ IODecrement(t, "post", "ClearFlag")
EndCall(t)      == At(t, "EndCall") /\ IODecrement(t, "call", "FreeMsg")
EndEvent(t)     == At(t, "EndEvent") /\ IODecrement(t, "event", "idle")

\* The InterlockedCompareExchange64 of SessionRelease is given the addresses
\* of its two IOChk locals, so it never stores; what it returns is the pair
\* (IOCount, UseFlag), and the release goes on unless both are zero.
Release(t) ==
  LET p == Session[th[t].slot] IN
  /\ Step(t, "Release", IF p.IOCount = 0 /\ ~p.UseFlag THEN th[t].back ELSE "Leave")
  /\ UNCHANGED <<Session, pool, refs, net, rest>>

\* OnClientLeave(p->SessionID)
Leave(t) ==
  /\ Step(t, "Leave", "Close")
  /\ net' = [net EXCEPT ![Session[th[t].slot].SessionID].leaves = @ + 1]
  /\ UNCHANGED <<Session, pool, refs, rest>>

\* closesocket(p->sock), which aborts the socket's I/O, and ClearBuffer.
Close(t) ==
  LET s == th[t].slot IN
  /\ Step(t, "Close", "DrainQ")
  /\ net' = [net EXCEPT ![Session[s].sock].sock = "closed"]
  /\ Session' = [Session EXCEPT ![s].RecvQ = <<>>]
  /\ UNCHANGED <<pool, refs, rest>>

\* One turn of the loop that frees what is left in SendQ.
DrainQ(t) ==
  LET s == th[t].slot
      q == Session[s].SendQ IN
  /\ \/ /\ q = <<>>
        /\ Step(t, "DrainQ", "DrainPack")
        /\ UNCHANGED <<Session, refs>>
     \/ /\ q # <<>>
        /\ At(t, "DrainQ")
        /\ refs' = [refs EXCEPT ![Head(q)] = @ - 1]
        /\ Session' = [Session EXCEPT ![s].SendQ = Tail(@)]
        /\ UNCHANGED th
  /\ UNCHANGED <<pool, net, rest>>

\* One turn of the loop that frees what is left in SendPack; when it is
\* empty the session is no longer counted.
DrainPack(t) ==
  LET s == th[t].slot
      q == Session[s].SendPack IN
  /\ \/ /\ q = <<>>
        /\ Step(t, "DrainPack", "PushSlot")
        /\ UseSessionCnt' = UseSessionCnt - 1
        /\ UNCHANGED <<Session, refs>>
     \/ /\ q # <<>>
        /\ At(t, "DrainPack")
        /\ refs' = [refs EXCEPT ![Last(q)] = @ - 1]
        /\ Session' = [Session EXCEPT ![s].SendPack = Front(@)]
        /\ UNCHANGED <<UseSessionCnt, th>>
  /\ UNCHANGED <<emptySession, net, rest>>

\* Slip: the id is pushed, not the index in it.
Slip_PushSlot(t) ==
  /\ Step(t, "PushSlot", th[t].back)
  /\ emptySession' = Append(emptySession, Session[th[t].slot].SessionID)
  /\ UNCHANGED <<Session, UseSessionCnt, refs, net, rest>>

\* emptySession.Push(indexSessionID(p->SessionID))
PushSlot(t) ==
  /\ Step(t, "PushSlot", th[t].back)
  /\ emptySession' = Append(emptySession, net[Session[th[t].slot].SessionID].index)
  /\ UNCHANGED <<Session, UseSessionCnt, refs, net, rest>>

SessionRelease(t) == \/ Release(t) \/ Leave(t) \/ Close(t) \/ DrainQ(t)
                     \/ DrainPack(t) \/ PushSlot(t)

-----------------------------------------------------------------------------
(* FindLockSession, SendPacket and Disconnect *)

\* SendPacket(c, p) with a packet the caller has just allocated, or, when p is
\* NoPack, Disconnect(c).
Call(t, c, p) ==
  /\ th' = [th EXCEPT ![t].pc = "Find", ![t].arg = c, ![t].msg = p]
  /\ refs' = IF p = NoPack THEN refs ELSE [refs EXCEPT ![p] = 1]

\* FindLockSession takes the reference first; having found none before its
\* own it gives it back.
Find(t) ==
  LET s == net[th[t].arg].index IN
  /\ At(t, "Find")
  /\ Session' = [Session EXCEPT ![s].IOCount = @ + 1]
  /\ th' = [th EXCEPT ![t].slot = s, ![t].held = @ \cup {"call"},
                      ![t].pc = IF Session[s].IOCount = 0 THEN "EndCall" ELSE "FindUse"]
  /\ UNCHANGED <<pool, refs, net, rest>>

FindUse(t) ==
  /\ Step(t, "FindUse", IF Session[th[t].slot].UseFlag THEN "FindID" ELSE "EndCall")
  /\ UNCHANGED <<Session, pool, refs, net, rest>>

FindID(t) ==
  /\ Step(t, "FindID", IF Session[th[t].slot].SessionID # th[t].arg THEN "EndCall"
                       ELSE IF th[t].msg = NoPack THEN "Disconnect" ELSE "Enqueue")
  /\ UNCHANGED <<Session, pool, refs, net, rest>>

\* The rest of Disconnect.
Disconnect(t) ==
  /\ Step(t, "Disconnect", "EndCall")
  /\ ShutDown(Session[th[t].slot].sock)
  /\ UNCHANGED <<Session, pool, refs, rest>>

\* Slip: the packet is queued without Add().
Slip_EnqueueNoAdd(t) ==
  /\ At(t, "Enqueue")
  /\ Session' = [Session EXCEPT ![th[t].slot].SendQ = Append(@, th[t].msg)]
  /\ Goto(t, "PostSend")
  /\ UNCHANGED <<refs, net, pool, rest>>

\* Slip: the packet is put at the front of SendQ.
Slip_EnqueueFront(t) ==
  /\ At(t, "Enqueue")
  /\ refs' = [refs EXCEPT ![th[t].msg] = @ + 1]
  /\ Session' = [Session EXCEPT ![th[t].slot].SendQ = <<th[t].msg>> \o @]
  /\ Goto(t, "PostSend")
  /\ UNCHANGED <<net, pool, rest>>

\* pack->Add() and SendQ.Enqueue.  When the queue is full SendPacket shuts the
\* socket down and returns: it neither frees the packet nor gives back the
\* reference FindLockSession took.
Enqueue(t) ==
  LET s == th[t].slot
      p == th[t].msg IN
  /\ At(t, "Enqueue")
  /\ refs' = [refs EXCEPT ![p] = @ + 1]
  /\ \/ /\ Len(Session[s].SendQ) < QueueMax
        /\ Session' = [Session EXCEPT ![s].SendQ = Append(@, p)]
        /\ Goto(t, "PostSend")
        /\ UNCHANGED net
     \/ /\ Len(Session[s].SendQ) >= QueueMax
        /\ ShutDown(Session[s].sock)
        /\ th' = [th EXCEPT ![t].held = @ \ {"call"}, ![t].pc = "FreeMsg"]
        /\ UNCHANGED Session
  /\ UNCHANGED <<pool, rest>>

\* The application frees its packet when SendPacket has returned.
FreeMsg(t) ==
  LET p == th[t].msg IN
  /\ At(t, "FreeMsg")
  /\ refs' = IF p = NoPack THEN refs ELSE [refs EXCEPT ![p] = @ - 1]
  /\ th' = [th EXCEPT ![t].msg = NoPack, ![t].arg = NoConn, ![t].pc = AfterCall(t)]
  /\ UNCHANGED <<Session, pool, net, rest>>

-----------------------------------------------------------------------------
(* PostSend and PostRecv *)

PostSend(t) ==
  /\ At(t, "PostSend") /\ Take(t, "post", "SetFlag")
  /\ UNCHANGED <<pool, refs, net, rest>>

\* Slip: the flag is set whatever it was.
Slip_SetFlag(t) ==
  /\ Step(t, "SetFlag", "Dequeue")
  /\ Session' = [Session EXCEPT ![th[t].slot].SendFlag = TRUE]
  /\ UNCHANGED <<pool, refs, net, rest>>

\* InterlockedCompareExchange(&SendFlag, TRUE, FALSE): one sender at a time.
SetFlag(t) ==
  /\ Step(t, "SetFlag", IF Session[th[t].slot].SendFlag THEN "EndPost" ELSE "Dequeue")
  /\ Session' = [Session EXCEPT ![th[t].slot].SendFlag = TRUE]
  /\ UNCHANGED <<pool, refs, net, rest>>

\* One turn of the loop that fills buf[].  The queue is asked before Cnt is
\* compared, so the packet that finds buf[] full is taken out and left.
Dequeue(t) ==
  LET s == th[t].slot
      q == Session[s].SendQ
      n == Len(th[t].batch) IN
  /\ At(t, "Dequeue")
  /\ \/ /\ q = <<>>
        /\ Goto(t, IF n = 0 THEN "EndPostEmpty" ELSE "WSASend")
        /\ UNCHANGED Session
     \/ /\ q # <<>> /\ n < SendbufMax
        /\ th' = [th EXCEPT ![t].batch = Append(@, Head(q))]
        /\ Session' = [Session EXCEPT ![s].SendQ = Tail(@),
                                      ![s].SendPack = Append(@, Head(q))]
     \/ /\ q # <<>> /\ n >= SendbufMax
        /\ Goto(t, "WSASend")
        /\ Session' = [Session EXCEPT ![s].SendQ = Tail(@)]
  /\ UNCHANGED <<pool, refs, net, rest>>

\* Nothing was there to send: the flag is cleared after IODecrement.
ClearFlag(t) ==
  /\ Step(t, "ClearFlag", AfterPost(t))
  /\ Session' = [Session EXCEPT ![th[t].slot].SendFlag = FALSE]
  /\ UNCHANGED <<pool, refs, net, rest>>

\* The call hands the batch, and the reference, to the kernel; when it fails
\* the socket is shut down and SendFlag stays set.
WSASend(t) ==
  LET s == th[t].slot
      c == Session[s].sock
      b == th[t].batch IN
  /\ At(t, "WSASend")
  /\ \/ /\ MayPost(c)
        /\ Session' = [Session EXCEPT ![s].SendOver = Append(@, [sock |-> c, buf |-> b])]
        /\ net' = [net EXCEPT ![c].wire = @ \o [i \in 1 .. Len(b) |-> b[i][2]]]
        /\ th' = [th EXCEPT ![t].batch = <<>>, ![t].held = @ \ {"post"},
                            ![t].pc = AfterPost(t)]
     \/ /\ MayFail(c)
        /\ ShutDown(c)
        /\ th' = [th EXCEPT ![t].batch = <<>>, ![t].pc = "EndPost"]
        /\ UNCHANGED Session
  /\ UNCHANGED <<pool, refs, rest>>

PostRecv(t) ==
  /\ At(t, "PostRecv") /\ Take(t, "post", "WSARecv")
  /\ UNCHANGED <<pool, refs, net, rest>>

\* A receive is posted for the free part of RecvQ; without room, or when the
\* call fails, the socket is shut down and the reference given back.
WSARecv(t) ==
  LET s == th[t].slot
      c == Session[s].sock
      room == Len(Session[s].RecvQ) < RecvMax IN
  /\ At(t, "WSARecv")
  /\ \/ /\ room /\ MayPost(c)
        /\ Session' = [Session EXCEPT ![s].RecvOver = Append(@, c)]
        /\ th' = [th EXCEPT ![t].held = @ \ {"post"}, ![t].pc = "EndEvent"]
        /\ UNCHANGED net
     \/ /\ ~room \/ MayFail(c)
        /\ ShutDown(c)
        /\ Goto(t, "EndPost")
        /\ UNCHANGED Session
  /\ UNCHANGED <<pool, refs, rest>>

-----------------------------------------------------------------------------
(* AcceptThread *)

\* Slip: the free slot is looked up but stays on the stack.
Slip_Accept ==
  /\ At(Acceptor, "idle") /\ main = "run"
  /\ \E c \in Conns :
       /\ net[c].sock = "none" /\ \A d \in 1 .. c - 1 : net[d].sock # "none"
       /\ \/ /\ emptySession = <<>>
             /\ net' = [net EXCEPT ![c].sock = "closed"]
             /\ Goto(Acceptor, "done")
          \/ /\ emptySession # <<>>
             /\ net' = [net EXCEPT ![c].sock = "open", ![c].index = Last(emptySession)]
             /\ th' = [th EXCEPT ![Acceptor].slot = Last(emptySession),
                                 ![Acceptor].arg = c, ![Acceptor].pc = "TakeSlot"]
  /\ UNCHANGED <<Session, pool, refs, rest>>

\* accept() returns the next connection.  With no slot free the socket is closed
\* and the thread leaves its loop for good; only this thread pops.
Accept ==
  /\ At(Acceptor, "idle") /\ main = "run"
  /\ \E c \in Conns :
       /\ net[c].sock = "none" /\ \A d \in 1 .. c - 1 : net[d].sock # "none"
       /\ \/ /\ emptySession = <<>>
             /\ net' = [net EXCEPT ![c].sock = "closed"]
             /\ Goto(Acceptor, "done")
             /\ UNCHANGED emptySession
          \/ /\ emptySession # <<>>
             /\ net' = [net EXCEPT ![c].sock = "open", ![c].index = Last(emptySession)]
             /\ emptySession' = Front(emptySession)
             /\ th' = [th EXCEPT ![Acceptor].slot = Last(emptySession),
                                 ![Acceptor].arg = c, ![Acceptor].pc = "TakeSlot"]
  /\ UNCHANGED <<Session, UseSessionCnt, refs, rest>>

\* accept() fails once Stop has closed the listening socket.
AcceptEnd ==
  /\ main # "run" /\ Step(Acceptor, "idle", "done")
  /\ UNCHANGED <<Session, pool, refs, net, rest>>

TakeSlot ==
  /\ At(Acceptor, "TakeSlot") /\ Take(Acceptor, "event", "SetSock")
  /\ UNCHANGED <<pool, refs, net, rest>>

\* The fields of the slot are written one by one.
SetSock ==
  /\ Step(Acceptor, "SetSock", "SetID")
  /\ Session' = [Session EXCEPT ![th[Acceptor].slot].sock = th[Acceptor].arg]
  /\ UNCHANGED <<pool, refs, net, rest>>

SetID ==
  /\ Step(Acceptor, "SetID", "SetUse")
  /\ Session' = [Session EXCEPT ![th[Acceptor].slot].SessionID = th[Acceptor].arg]
  /\ UNCHANGED <<pool, refs, net, rest>>

SetUse ==
  /\ Step(Acceptor, "SetUse", "ResetFlag")
  /\ Session' = [Session EXCEPT ![th[Acceptor].slot].UseFlag = TRUE]
  /\ UNCHANGED <<pool, refs, net, rest>>

\* SendFlag = false, the counter, and the registration with the IOCP.
ResetFlag ==
  /\ Step(Acceptor, "ResetFlag", "Join")
  /\ Session' = [Session EXCEPT ![th[Acceptor].slot].SendFlag = FALSE]
  /\ UseSessionCnt' = UseSessionCnt + 1
  /\ UNCHANGED <<emptySession, refs, net, rest>>

\* OnClientJoin(p->SessionID).  Refused, the session is released at once, with
\* the reference of this thread still counted and nobody left to give it back.
Join ==
  LET c == Session[th[Acceptor].slot].SessionID IN
  /\ At(Acceptor, "Join")
  /\ \/ /\ "greet" \in OnJoin
        /\ net' = [net EXCEPT ![c].joins = @ + 1]
        /\ Call(Acceptor, c, <<c, 0>>)
     \/ /\ "accept" \in OnJoin
        /\ net' = [net EXCEPT ![c].joins = @ + 1]
        /\ Goto(Acceptor, "PostRecv")
        /\ UNCHANGED refs
     \/ /\ "reject" \in OnJoin
        /\ th' = [th EXCEPT ![Acceptor].held = {}, ![Acceptor].back = "idle",
                            ![Acceptor].pc = "Release"]
        /\ UNCHANGED <<net, refs>>
  /\ UNCHANGED <<Session, pool, rest>>

AcceptThread == \/ Accept \/ AcceptEnd \/ TakeSlot \/ SetSock \/ SetID \/ SetUse
                \/ ResetFlag \/ Join

-----------------------------------------------------------------------------
(* WorkerThread: a completion is dequeued together with its arrival *)

\* The worker takes over the reference of a finished operation.
Begin(w, s, l) ==
  /\ At(w, "idle")
  /\ th' = [th EXCEPT ![w].slot = s, ![w].held = {"event"}, ![w].pc = l]

\* n units have been received into the buffer; MoveWritePos shows them.  Here it shows all
\* that was received: a receive that fills an empty buffer from its first place, whose last
\* byte MoveWritePos drops, is left to RingBuffer (EveryByteKept), for it takes as many bytes
\* in one go as the buffer has.
RecvDone(w) ==
  \E s \in Slots : \E i \in DOMAIN Session[s].RecvOver : \E n \in 1 .. RecvMax :
    LET c == Session[s].RecvOver[i] IN
    /\ Begin(w, s, "Parse")
    /\ net[c].sock # "closed"
    /\ n <= Len(net[c].inbound) /\ Len(Session[s].RecvQ) + n <= RecvMax
    /\ Session' = [Session EXCEPT ![s].RecvOver = RemoveAt(@, i),
                                  ![s].RecvQ = @ \o SubSeq(net[c].inbound, 1, n)]
    /\ net' = [net EXCEPT ![c].inbound = SubSeq(@, n + 1, Len(@))]
    /\ UNCHANGED <<pool, refs, rest>>

\* All bytes of a WSASend have been sent.
SendDone(w) ==
  \E s \in Slots : \E i \in DOMAIN Session[s].SendOver :
    /\ Begin(w, s, "FreeSent")
    /\ net[Session[s].SendOver[i].sock].sock # "closed"
    /\ Session' = [Session EXCEPT ![s].SendOver = RemoveAt(@, i)]
    /\ UNCHANGED <<pool, refs, net, rest>>

\* A completion with Transferred = 0: the connection ended or was reset, or the
\* socket was shut down or closed.
ZeroDone(w) ==
  \E s \in Slots :
    /\ Begin(w, s, "Zero")
    /\ \/ \E i \in DOMAIN Session[s].RecvOver :
             /\ ~Healthy(Session[s].RecvOver[i])
             /\ Session' = [Session EXCEPT ![s].RecvOver = RemoveAt(@, i)]
       \/ \E i \in DOMAIN Session[s].SendOver :
             /\ ~Healthy(Session[s].SendOver[i].sock)
             /\ Session' = [Session EXCEPT ![s].SendOver = RemoveAt(@, i)]
    /\ UNCHANGED <<pool, refs, net, rest>>

Zero(w) ==
  /\ Step(w, "Zero", "EndEvent")
  /\ ShutDown(Session[th[w].slot].sock)
  /\ UNCHANGED <<Session, pool, refs, rest>>

\* Slip: the quit packet is not posted again.
Slip_Quit(w) ==
  /\ quit /\ Step(w, "idle", "done")
  /\ quit' = FALSE
  /\ UNCHANGED <<Session, pool, refs, net, calls, main, sweep, crashed>>

\* The quit packet is posted again for the next worker.
Quit(w) ==
  /\ quit /\ Step(w, "idle", "done")
  /\ UNCHANGED <<Session, pool, refs, net, rest>>

\* One turn of the packet loop: stop when no whole packet is there or the header
\* is wrong, else take the packet out and call OnRecv(p->SessionID, Pack).
Parse(w) ==
  LET s == th[w].slot
      q == Session[s].RecvQ
      c == Session[s].SessionID
      whole == Len(q) >= 2 /\ q[1].kind = "head" IN
  /\ At(w, "Parse")
  /\ \/ /\ ~whole
        /\ IF q # <<>> /\ q[1].kind # "head" THEN ShutDown(Session[s].sock) ELSE UNCHANGED net
        /\ Goto(w, "PostRecv")
        /\ UNCHANGED <<Session, refs>>
     \/ /\ whole
        /\ Session' = [Session EXCEPT ![s].RecvQ = SubSeq(@, 3, Len(@))]
        /\ \/ "echo" \in OnRecv /\ Call(w, c, <<c, q[2].n>>)
           \/ "disconnect" \in OnRecv /\ Call(w, c, NoPack)
           \/ "ignore" \in OnRecv /\ UNCHANGED <<th, refs>>
        /\ UNCHANGED net
  /\ UNCHANGED <<pool, rest>>

\* Free the packets of the finished WSASend, then let the next sender in.
FreeSent(w) ==
  LET s == th[w].slot
      q == Session[s].SendPack IN
  /\ At(w, "FreeSent")
  /\ \/ /\ q # <<>>
        /\ refs' = [refs EXCEPT ![Last(q)] = @ - 1]
        /\ Session' = [Session EXCEPT ![s].SendPack = Front(@)]
        /\ UNCHANGED th
     \/ /\ q = <<>>
        /\ Session' = [Session EXCEPT ![s].SendFlag = FALSE]
        /\ Goto(w, "Recheck")
        /\ UNCHANGED refs
  /\ UNCHANGED <<pool, net, rest>>

\* Packets queued while SendFlag was set are this thread's to send.
Recheck(w) ==
  /\ Step(w, "Recheck", IF Session[th[w].slot].SendQ # <<>> THEN "PostSend" ELSE "EndEvent")
  /\ UNCHANGED <<Session, pool, refs, net, rest>>

WorkerThread(w) == \/ RecvDone(w) \/ SendDone(w) \/ ZeroDone(w) \/ Zero(w) \/ Quit(w)
                   \/ Parse(w) \/ FreeSent(w) \/ Recheck(w)

-----------------------------------------------------------------------------
(* Application threads, clients and Stop *)

\* An application thread may use any id OnClientJoin was told of, however old.
AppCall(t) ==
  /\ At(t, "idle")
  /\ calls < MaxCalls /\ calls' = calls + 1
  /\ \E c \in Conns :
       /\ net[c].joins > 0
       /\ \/ Call(t, c, NoPack)
          \/ refs[<<c, MaxMsgs + 1>>] = 0 /\ Call(t, c, <<c, MaxMsgs + 1>>)
  /\ UNCHANGED <<Session, pool, net, main, sweep, quit, crashed>>

\* A client sends a request; one with a wrong header has no use for a body.
PeerSend(c) ==
  LET n == net[c].asked + 1
      requests == {<<[kind |-> "head", n |-> n], [kind |-> "body", n |-> n]>>}
                  \cup (IF BadHeaders THEN {<<[kind |-> "bad", n |-> n]>>} ELSE {}) IN
  /\ net[c].sock # "none" /\ net[c].peer = "up" /\ n <= MaxMsgs
  /\ \E r \in requests : net' = [net EXCEPT ![c].asked = n, ![c].inbound = @ \o r]
  /\ UNCHANGED <<Session, pool, th, refs, rest>>

\* A client closes or resets its end; what it has sent may still arrive.
PeerClose(c) ==
  /\ net[c].sock # "none" /\ net[c].peer = "up"
  /\ net' = [net EXCEPT ![c].peer = "gone"]
  /\ UNCHANGED <<Session, pool, th, refs, rest>>

\* Stop closes the listening socket,
StopListen ==
  /\ Stoppable /\ main = "run" /\ ~crashed
  /\ main' = "shut"
  /\ UNCHANGED <<Session, pool, th, refs, net, calls, sweep, quit, crashed>>

\* shuts down the slots whose UseFlag is set, one after the other,
StopShut ==
  /\ main = "shut" /\ sweep \in Slots /\ ~crashed
  /\ IF Session[sweep].UseFlag THEN ShutDown(Session[sweep].sock) ELSE UNCHANGED net
  /\ sweep' = sweep + 1
  /\ UNCHANGED <<Session, pool, th, refs, calls, main, quit, crashed>>

\* posts one quit packet (the wait before it is on a bad handle and returns),
StopQuit ==
  /\ main = "shut" /\ sweep = SessionMax /\ ~crashed
  /\ quit' = TRUE /\ main' = "wait"
  /\ UNCHANGED <<Session, pool, th, refs, net, calls, sweep, crashed>>

\* and waits for the accept thread and the workers to end.
StopWait ==
  /\ main = "wait"
  /\ \A t \in Workers \cup {Acceptor} : At(t, "done")
  /\ main' = "off"
  /\ UNCHANGED <<Session, pool, th, refs, net, calls, sweep, quit, crashed>>

Stop == StopListen \/ StopShut \/ StopQuit \/ StopWait

Client(c) == PeerSend(c) \/ PeerClose(c)

\* The functions every kind of thread runs.
Common(t) ==
  \/ EndPost(t) \/ EndPostEmpty(t) \/ EndCall(t) \/ EndEvent(t) \/ SessionRelease(t)
  \/ Find(t) \/ FindUse(t) \/ FindID(t) \/ Disconnect(t) \/ Enqueue(t) \/ FreeMsg(t)
  \/ PostSend(t) \/ SetFlag(t) \/ Dequeue(t) \/ ClearFlag(t) \/ WSASend(t)
  \/ PostRecv(t) \/ WSARecv(t)

Next ==
  \/ \E t \in Threads : Common(t)
  \/ AcceptThread
  \/ \E w \in Workers : WorkerThread(w)
  \/ \E t \in Callers : AppCall(t)
  \/ \E c \in Conns : Client(c)
  \/ Stop

Spec == Init /\ [][Next]_vars

\* The scheduler runs every thread that can go on, and a thread waiting in
\* GetQueuedCompletionStatus when a completion is there.  Nothing is assumed
\* of the clients: they need not connect, send or close.
Fairness ==
  /\ \A t \in Threads : WF_vars(Common(t))
  /\ WF_vars(AcceptThread /\ ~Accept)
  /\ \A w \in Workers : WF_vars(WorkerThread(w))
  /\ WF_vars(Stop /\ ~StopListen)

FairSpec == Spec /\ Fairness
=============================================================================
