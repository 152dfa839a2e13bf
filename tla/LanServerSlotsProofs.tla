----------------------- MODULE LanServerSlotsProofs -----------------------
(***************************************************************************)
(* A slot is released when nothing refers to it any more, and a session    *)
(* has one sender, for every number of slots, workers and connections, as  *)
(* long as no thread of the application calls with an id it has kept; and  *)
(* if the application refuses no connection, every slot is accounted for.  *)
(***************************************************************************)
EXTENDS LanServerProofs

-----------------------------------------------------------------------------
(* The inductive invariant *)

\* Where a thread has its slot for itself: filling it in, or releasing it.
Owning == Releasing \cup {"TakeSlot", "SetSock", "SetID", "SetUse", "ResetFlag", "Join"}

Quiet(s) == Session[s].RecvOver = <<>> /\ Session[s].SendOver = <<>>

Works(t, s) == th[t].slot = s /\ (th[t].held # {} \/ th[t].pc \in Owning)

\* Nothing refers to the slot of t but t.
Lone(t) == Quiet(th[t].slot) /\ \A u \in Threads \ {t} : ~Works(u, th[t].slot)

FreeSlots ==
  /\ IsInjective(emptySession)
  /\ \A s \in ToSet(emptySession) : Quiet(s) /\ \A t \in Threads : ~Works(t, s)

OwnedSlots == \A t \in Threads : th[t].pc \in Owning => Lone(t)

\* The IODecrement that releases is the last of a handler, and the slot is in use.
ClosingSlots ==
  \A t \in Threads : th[t].pc \in Releasing => th[t].back = "idle" /\ InUse(th[t].slot)

Parted == FreeSlots /\ OwnedSlots /\ ClosingSlots

SlotsInv == RefsInv /\ Parted /\ OneSender

-----------------------------------------------------------------------------
(* Steps of one thread *)

\* An owner stays alone with its slot when a thread takes up only what it works on, what
\* has operations outstanding, or what nobody works on.
LEMMA OwnersStay ==
  ASSUME OwnedSlots, TypeOK, NEW t \in Threads, Alone(t), NEW u \in Threads \ {t},
         \A x \in Slots : Quiet(x) /\ ~Quiet(x)' => Works(t, x) /\ th[t].pc \notin Owning,
         \A x \in Slots : Works(t, x)' => \/ Works(t, x) \/ ~Quiet(x)
                                          \/ \A v \in Threads : ~Works(v, x)
  PROVE  (th[u].pc \in Owning => Lone(u))'
<1> SUFFICES ASSUME th'[u].pc \in Owning PROVE Lone(u)'
  OBVIOUS
<1>1. th'[u] = th[u]
  BY DEF Alone
<1>2. PICK x \in Slots : x = th[u].slot
  BY Typed
<1>3. Quiet(x) /\ (\A v \in Threads \ {u} : ~Works(v, x)) /\ Works(u, x)
  BY <1>1, <1>2 DEF OwnedSlots, Lone, Works
<1>4. Quiet(x)'
  BY <1>3
<1>5. ~Works(t, x)'
  BY <1>3
<1>6. \A v \in Threads \ {u} : ~Works(v, x)'
  BY <1>3, <1>5 DEF Works, Alone
<1> QED
  BY <1>1, <1>2, <1>4, <1>6 DEF Lone

LEMMA SlotStep ==
  ASSUME Parted, TypeOK, NEW t \in Threads, Alone(t), UNCHANGED emptySession,
         \A x \in Slots : InUse(x) => InUse(x)',
         \A x \in Slots : Quiet(x) /\ ~Quiet(x)' => Works(t, x) /\ th[t].pc \notin Owning,
         \A x \in Slots : Works(t, x)' => Works(t, x) \/ ~Quiet(x),
         th'[t].pc \in Owning => Lone(t)',
         th'[t].pc \in Releasing => th'[t].back = "idle" /\ InUse(th[t].slot)'
  PROVE  Parted'
<1>1. FreeSlots'
  <2>1. ToSet(emptySession) \subseteq Slots
    BY DEF TypeOK, ToSet
  <2>2. ASSUME NEW x \in ToSet(emptySession)
        PROVE  Quiet(x)' /\ \A u \in Threads : ~Works(u, x)'
    <3>1. x \in Slots /\ Quiet(x) /\ \A u \in Threads : ~Works(u, x)
      BY <2>1, <2>2 DEF Parted, FreeSlots
    <3>2. Quiet(x)' /\ ~Works(t, x)'
      BY <3>1
    <3>3. \A u \in Threads \ {t} : ~Works(u, x)'
      BY <3>1 DEF Works, Alone
    <3> QED
      BY <3>2, <3>3
  <2> QED
    BY <2>2 DEF Parted, FreeSlots, ToSet
<1>2. OwnedSlots'
  <2>1. ASSUME NEW u \in Threads \ {t} PROVE (th[u].pc \in Owning => Lone(u))'
    BY OwnersStay DEF Parted
  <2> QED
    BY <2>1 DEF OwnedSlots
<1>3. ClosingSlots'
  <2>1. ASSUME NEW u \in Threads \ {t}, th'[u].pc \in Releasing
        PROVE  th'[u].back = "idle" /\ InUse(th[u].slot)'
    <3>1. th'[u] = th[u] /\ th[u].slot \in Slots
      BY Typed DEF Alone
    <3> QED
      BY <2>1, <3>1 DEF Parted, ClosingSlots, InUse
  <2> QED
    BY <2>1 DEF ClosingSlots
<1> QED
  BY <1>1, <1>2, <1>3 DEF Parted

-----------------------------------------------------------------------------
(* Counting senders *)

Senders(s) == {t \in Threads : th[t].slot = s /\ th[t].pc \in Sender}
Part(t, s) == IF th[t].slot = s /\ th[t].pc \in Sender THEN 1 ELSE 0
Flag(s) == IF Session[s].SendFlag THEN 1 ELSE 0

LEMMA SendersFinite ==
  ASSUME NEW T \in SUBSET Threads
  PROVE  IsFiniteSet(T) /\ Cardinality(T) \in Nat
<1>1. IsFiniteSet(Threads)
  <2>1. IsFiniteSet(Workers \cup Callers)
    BY ThreadsAssumption, FS_Union
  <2> QED
    BY <2>1, FS_AddElement DEF Threads
<1> QED
  BY <1>1, FS_Subset, FS_CardinalityType

LEMMA CountSplit ==
  ASSUME NEW T \in SUBSET Threads, NEW t \in Threads
  PROVE  Cardinality(T) = Cardinality(T \ {t}) + (IF t \in T THEN 1 ELSE 0)
<1> DEFINE others == T \ {t}
<1>1. IsFiniteSet(others) /\ Cardinality(others) \in Nat
  BY SendersFinite
<1>2. T = IF t \in T THEN others \cup {t} ELSE others
  OBVIOUS
<1>3. t \notin others
  OBVIOUS
<1> HIDE DEF others
<1>4. Cardinality(T) = Cardinality(others) + (IF t \in T THEN 1 ELSE 0)
  BY <1>1, <1>2, <1>3, FS_AddElement
<1> QED
  BY <1>4 DEF others

\* Who sends, and what is being sent, may grow only with the flag.
LEMMA SenderStep ==
  ASSUME TypeOK, TypeOK', OneSender, NEW t \in Threads, Alone(t),
         \A x \in Slots : Len(Session'[x].SendOver) + Part(t, x)' - Flag(x)'
                            <= Len(Session[x].SendOver) + Part(t, x) - Flag(x)
  PROVE  OneSender'
<1> SUFFICES ASSUME NEW x \in Slots
             PROVE  Cardinality(Senders(x)') + Len(Session'[x].SendOver) <= Flag(x)'
  BY DEF OneSender, Senders, Flag
<1> DEFINE n     == Cardinality(Senders(x) \ {t})
           over  == Len(Session[x].SendOver)
           over2 == Len(Session'[x].SendOver)
<1>1. Senders(x)' \ {t} = Senders(x) \ {t}
  BY DEF Senders, Alone
<1>2. Cardinality(Senders(x)) = n + Part(t, x)
  BY CountSplit DEF Senders, Part
<1>3. Cardinality(Senders(x)') = n + Part(t, x)'
  <2>1. Cardinality(Senders(x)') = Cardinality(Senders(x)' \ {t}) + Part(t, x)'
    BY CountSplit DEF Senders, Part
  <2> QED
    BY <1>1, <2>1
<1>4. n \in Nat
  BY SendersFinite DEF Senders
<1>5. over \in Nat /\ over2 \in Nat
  <2>1. Session[x] \in SessionType /\ Session'[x] \in SessionType
    BY DEF TypeOK
  <2> QED
    BY <2>1, SessionNumbers
<1>6. Cardinality(Senders(x)) + over <= Flag(x)
  BY DEF OneSender, Senders, Flag
<1>7. over2 + Part(t, x)' - Flag(x)' <= over + Part(t, x) - Flag(x)
  OBVIOUS
<1>8. /\ Part(t, x) \in Nat /\ Part(t, x)' \in Nat
      /\ Flag(x) \in Nat /\ Flag(x)' \in Nat
  BY DEF Part, Flag
<1> HIDE DEF n, over, over2
<1>9. Cardinality(Senders(x)') + over2 <= Flag(x)'
  BY <1>2, <1>3, <1>4, <1>5, <1>6, <1>7, <1>8
<1> QED
  BY <1>9 DEF over2

-----------------------------------------------------------------------------
(* Steps that neither post nor finish an operation *)

OversSame == \A s \in Slots :
  /\ Session'[s].RecvOver = Session[s].RecvOver /\ Session'[s].SendOver = Session[s].SendOver
  /\ InUse(s) => InUse(s)'

WorkSame == OversSame /\ \A s \in Slots : Session'[s].SendFlag = Session[s].SendFlag

LEMMA WorkKept ==
  ASSUME TypeOK, NEW s \in Slots
  PROVE  /\ UNCHANGED Session => WorkSame
         /\ \A x : Session' = [Session EXCEPT ![s].IOCount = x] => WorkSame
         /\ \A x : Session' = [Session EXCEPT ![s].UseFlag = x] => WorkSame
         /\ \A x : Session' = [Session EXCEPT ![s].sock = x] => WorkSame
         /\ \A x : Session' = [Session EXCEPT ![s].SendQ = x] => WorkSame
         /\ \A x : Session' = [Session EXCEPT ![s].SendPack = x] => WorkSame
         /\ \A x, y : Session' = [Session EXCEPT ![s].SendQ = x, ![s].SendPack = y]
                        => WorkSame
         /\ \A x : Session' = [Session EXCEPT ![s].RecvQ = x] => WorkSame
<1>1. UNCHANGED Session => WorkSame
  BY DEF TypeOK, SessionType, WorkSame, OversSame, InUse
<1>2. \A x : Session' = [Session EXCEPT ![s].IOCount = x] => WorkSame
  BY DEF TypeOK, SessionType, WorkSame, OversSame, InUse
<1>3. \A x : Session' = [Session EXCEPT ![s].UseFlag = x] => WorkSame
  BY DEF TypeOK, SessionType, WorkSame, OversSame, InUse
<1>4. \A x : Session' = [Session EXCEPT ![s].sock = x] => WorkSame
  BY DEF TypeOK, SessionType, WorkSame, OversSame, InUse
<1>5. \A x : Session' = [Session EXCEPT ![s].SendQ = x] => WorkSame
  BY DEF TypeOK, SessionType, WorkSame, OversSame, InUse
<1>6. \A x : Session' = [Session EXCEPT ![s].SendPack = x] => WorkSame
  BY DEF TypeOK, SessionType, WorkSame, OversSame, InUse
<1>7. ASSUME NEW x, NEW y, Session' = [Session EXCEPT ![s].SendQ = x, ![s].SendPack = y]
      PROVE  WorkSame
  <2>1. SessionSame
    BY <1>7, SessionKept
  <2>2. \A z \in Slots : Session'[z].SendFlag = Session[z].SendFlag
    BY <1>7 DEF TypeOK, SessionType
  <2> QED
    BY <2>1, <2>2 DEF SessionSame, WorkSame, OversSame, InUse
<1>8. \A x : Session' = [Session EXCEPT ![s].RecvQ = x] => WorkSame
  BY DEF TypeOK, SessionType, WorkSame, OversSame, InUse
<1> QED
  BY <1>1, <1>2, <1>3, <1>4, <1>5, <1>6, <1>7, <1>8

\* A thread that stays on its slot keeps an operation's work apart from the others'.
LEMMA OrdinarySlots ==
  ASSUME TypeOK, Parted, OversSame, UNCHANGED emptySession,
         NEW t \in Threads, NEW l, NEW b, NEW h, Moves(t, l, b, th[t].slot, h),
         h # {} \/ l \in Owning => Works(t, th[t].slot),
         l \in Owning => Lone(t),
         l \in Releasing => b = "idle" /\ InUse(th[t].slot)
  PROVE  Parted'
<1>1. Alone(t) /\ th'[t].slot = th[t].slot /\ th[t].slot \in Slots
  BY Typed DEF Moves
<1>2. \A x \in Slots : (InUse(x) => InUse(x)') /\ Quiet(x)' = Quiet(x)
  BY DEF OversSame, Quiet
<1>3. \A x \in Slots : Works(t, x)' => Works(t, x)
  BY DEF Works, Moves
<1>4. th'[t].pc \in Owning => Lone(t)'
  <2>1. \A u \in Threads \ {t}, x \in Slots : Works(u, x)' = Works(u, x)
    BY <1>1 DEF Works, Alone
  <2> QED
    BY <1>1, <1>2, <2>1 DEF Lone, Moves, Quiet
<1>5. th'[t].pc \in Releasing => th'[t].back = "idle" /\ InUse(th[t].slot)'
  BY <1>1, <1>2 DEF Moves, InUse
<1> QED
  BY <1>1, <1>2, <1>3, <1>4, <1>5, SlotStep

LEMMA OrdinaryStep ==
  ASSUME TypeOK', SlotsInv, WorkSame, UNCHANGED emptySession,
         NEW t \in Threads, NEW l, NEW b, NEW h, Moves(t, l, b, th[t].slot, h),
         h # {} \/ l \in Owning => Works(t, th[t].slot),
         l \in Owning => Lone(t),
         l \in Releasing => b = "idle" /\ InUse(th[t].slot),
         l \in Sender => th[t].pc \in Sender
  PROVE  Parted' /\ OneSender'
<1>1. TypeOK /\ Parted /\ OneSender
  BY DEF SlotsInv, RefsInv
<1>2. Parted'
  BY <1>1, OrdinarySlots DEF WorkSame
<1>3. OneSender'
  <2>1. ASSUME NEW x \in Slots
        PROVE  Len(Session'[x].SendOver) + Part(t, x)' - Flag(x)'
                 <= Len(Session[x].SendOver) + Part(t, x) - Flag(x)
    <3>1. Session'[x].SendOver = Session[x].SendOver /\ Flag(x)' = Flag(x)
      BY DEF WorkSame, OversSame, Flag
    <3>2. Part(t, x) \in {0, 1} /\ Part(t, x)' \in {0, 1} /\ Part(t, x)' <= Part(t, x)
      BY DEF Part, Moves
    <3>3. Flag(x) \in {0, 1}
      BY DEF Flag
    <3> DEFINE over == Len(Session[x].SendOver)
    <3>4. over \in Nat
      BY <1>1, SessionNumbers DEF TypeOK
    <3> HIDE DEF over
    <3>5. over + Part(t, x)' - Flag(x) <= over + Part(t, x) - Flag(x)
      BY <3>2, <3>3, <3>4
    <3> QED
      BY <3>1, <3>5 DEF over
  <2> QED
    BY <1>1, <2>1, SenderStep DEF Moves
<1> QED
  BY <1>2, <1>3

\* A thread that takes nothing, and does not come to own its slot or to send.
LEMMA PlainSlots ==
  ASSUME TypeOK', SlotsInv, WorkSame, UNCHANGED emptySession,
         NEW t \in Threads, NEW l, NEW h \in SUBSET th[t].held,
         Moves(t, l, th[t].back, th[t].slot, h),
         l \in Owning => th[t].pc \in Owning,
         l \in Releasing => th[t].pc \in Releasing,
         l \in Sender => th[t].pc \in Sender
  PROVE  Parted' /\ OneSender'
<1>1. h # {} \/ l \in Owning => Works(t, th[t].slot)
  BY DEF Works
<1>2. l \in Owning => Lone(t)
  BY DEF SlotsInv, Parted, OwnedSlots
<1>3. l \in Releasing => th[t].back = "idle" /\ InUse(th[t].slot)
  BY DEF SlotsInv, Parted, ClosingSlots
<1> QED
  BY <1>1, <1>2, <1>3, OrdinaryStep

LEMMA GotoSlots ==
  ASSUME TypeOK', SlotsInv, WorkSame, UNCHANGED emptySession,
         NEW t \in Threads, NEW l \in Labels, Goto(t, l),
         l \in Owning => th[t].pc \in Owning,
         l \in Releasing => th[t].pc \in Releasing,
         l \in Sender => th[t].pc \in Sender
  PROVE  Parted' /\ OneSender'
<1>1. Moves(t, l, th[t].back, th[t].slot, th[t].held)
  BY ThreadMoves DEF SlotsInv, RefsInv, Goto
<1>2. th[t].held \in SUBSET th[t].held
  OBVIOUS
<1> QED
  BY <1>1, <1>2, PlainSlots

\* A turn of a loop that leaves its thread where it is.
LEMMA TurnSlots ==
  ASSUME TypeOK', SlotsInv, WorkSame, UNCHANGED <<emptySession, th>>, NEW t \in Threads
  PROVE  Parted' /\ OneSender'
<1>1. Moves(t, th[t].pc, th[t].back, th[t].slot, th[t].held)
  BY DEF Moves, Alone
<1>2. th[t].held \in SUBSET th[t].held
  OBVIOUS
<1> QED
  BY <1>1, <1>2, PlainSlots

-----------------------------------------------------------------------------
(* SessionRelease, and the steps of SendPacket and Disconnect *)

LEMMA SessionReleaseSlots ==
  ASSUME TypeOK', SlotsInv, NEW t \in Threads, SessionRelease(t), ~PushSlot(t)
  PROVE  Parted' /\ OneSender'
<1> DEFINE s == th[t].slot
<1>1. TypeOK /\ s \in Slots /\ UNCHANGED emptySession
  BY Typed DEF SlotsInv, RefsInv, SessionRelease, Release, Leave, Close, DrainQ, DrainPack, pool
<1>2. WorkSame
  <2>1. \/ UNCHANGED Session
        \/ Session' = [Session EXCEPT ![s].RecvQ = <<>>]
        \/ Session' = [Session EXCEPT ![s].SendQ = Tail(@)]
        \/ Session' = [Session EXCEPT ![s].SendPack = Front(@)]
    BY DEF SessionRelease, Release, Leave, Close, DrainQ, DrainPack
  <2> QED
    BY <1>1, <2>1, WorkKept
<1>3. th[t].pc \in Releasing
  BY DEF SessionRelease, Release, Leave, Close, DrainQ, DrainPack, Step, At, Releasing
<1>4. th[t].back = "idle"
  BY <1>3 DEF SlotsInv, Parted, ClosingSlots
<1>5. UNCHANGED th \/ \E l \in Releasing \cup {"idle"} : Goto(t, l)
  BY <1>4 DEF SessionRelease, Release, Leave, Close, DrainQ, DrainPack, Step, Releasing
<1>6. CASE UNCHANGED th
  BY <1>1, <1>2, <1>6, TurnSlots
<1>7. CASE \E l \in Releasing \cup {"idle"} : Goto(t, l)
  <2>1. PICK l \in Releasing \cup {"idle"} : Goto(t, l)
    BY <1>7
  <2>2. l \in Labels /\ l \notin Sender /\ (l \in Owning => l \in Releasing)
    BY DEF Labels, Releasing, Sender, Owning
  <2>3. th[t].pc \in Owning
    BY <1>3 DEF Owning
  <2> QED
    BY <1>1, <1>2, <1>3, <2>1, <2>2, <2>3, GotoSlots
<1> QED
  BY <1>5, <1>6, <1>7

\* The slot pushed is that of the thread, which is not free and which only it works on.
LEMMA PushSlotSlots ==
  ASSUME TypeOK', SlotsInv, NEW t \in Threads, PushSlot(t)
  PROVE  Parted' /\ OneSender'
<1>1. /\ TypeOK /\ HoldingOf(t) /\ th[t].pc = "PushSlot" /\ th[t].back = "idle"
      /\ th[t].held \in SUBSET Kinds /\ th[t].pc \in Releasing /\ th[t].pc \in Owning
      /\ InUse(th[t].slot) /\ Lone(t) /\ emptySession \in Seq(Slots)
  BY Typed, ThreadFields DEF SlotsInv, RefsInv, Holding, Parted, OwnedSlots, ClosingSlots,
       PushSlot, Step, At, Owning, Releasing, TypeOK
<1>2. PICK s \in Slots : s = th[t].slot
  BY <1>1, Typed
<1>3. emptySession' = Append(emptySession, s)
  BY <1>1, <1>2 DEF SlotsInv, RefsInv, Naming, Named, PushSlot
<1>4. th[t].held = {}
  BY <1>1 DEF HoldingOf, Where, Carries, Posting, Calling, Sending, Kinds
<1>5. Moves(t, "idle", "idle", s, {})
  <2>1. "idle" \in Labels /\ Goto(t, "idle")
    BY <1>1 DEF Labels, PushSlot, Step
  <2>2. Moves(t, "idle", th[t].back, th[t].slot, th[t].held)
    BY <1>1, <2>1, ThreadMoves DEF Goto
  <2> QED
    BY <1>1, <1>2, <1>4, <2>2
<1>6. UNCHANGED Session /\ \A x \in Slots : Quiet(x)' = Quiet(x) /\ InUse(x)' = InUse(x)
  BY DEF PushSlot, Quiet, InUse
<1>7. s \notin ToSet(emptySession)
  BY <1>1, <1>2 DEF SlotsInv, Parted, FreeSlots, Works
<1>8. /\ \A x \in Slots : ~Works(t, x)'
      /\ \A u \in Threads \ {t}, x \in Slots : Works(u, x)' = Works(u, x)
  BY <1>5 DEF Works, Moves, Alone, Owning, Releasing
<1>9. FreeSlots'
  <2>1. DOMAIN emptySession = 1 .. Len(emptySession) /\ Len(emptySession) \in Nat
    BY <1>1
  <2>2. /\ \A i \in 1 .. Len(emptySession) : emptySession'[i] = emptySession[i]
        /\ emptySession'[Len(emptySession) + 1] = s
        /\ DOMAIN emptySession' = 1 .. Len(emptySession) + 1
    BY <1>1, <1>3
  <2>3. \A i \in 1 .. Len(emptySession) : emptySession[i] \in ToSet(emptySession) \cap Slots
    BY <1>1, <2>1 DEF ToSet
  <2>4. IsInjective(emptySession)'
    <3>1. ASSUME NEW i \in DOMAIN emptySession', NEW j \in DOMAIN emptySession',
                 emptySession'[i] = emptySession'[j]
          PROVE  i = j
      BY <1>7, <2>1, <2>2, <2>3, <3>1 DEF SlotsInv, Parted, FreeSlots, IsInjective
    <3> QED
      BY <3>1 DEF IsInjective
  <2>5. ASSUME NEW x \in ToSet(emptySession)'
        PROVE  Quiet(x)' /\ \A u \in Threads : ~Works(u, x)'
    <3>1. x = s \/ x \in ToSet(emptySession) \cap Slots
      BY <2>1, <2>2, <2>3 DEF ToSet
    <3>2. x \in Slots /\ Quiet(x) /\ \A u \in Threads \ {t} : ~Works(u, x)
      BY <1>1, <1>2, <3>1 DEF Lone, SlotsInv, Parted, FreeSlots
    <3> QED
      BY <1>6, <1>8, <3>2
  <2> QED
    BY <2>4, <2>5 DEF FreeSlots
<1>10. OwnedSlots'
  <2>1. ASSUME NEW u \in Threads \ {t} PROVE (th[u].pc \in Owning => Lone(u))'
    <3>1. Alone(t) /\ OwnedSlots
      BY <1>5 DEF Moves, SlotsInv, Parted
    <3> QED
      BY <1>1, <1>6, <1>8, <3>1, OwnersStay
  <2>2. th'[t].pc \notin Owning
    BY <1>5 DEF Moves, Owning, Releasing
  <2> QED
    BY <2>1, <2>2 DEF OwnedSlots
<1>11. ClosingSlots'
  <2>1. ASSUME NEW u \in Threads, th'[u].pc \in Releasing PROVE u # t /\ th'[u] = th[u]
    BY <1>5, <2>1 DEF Moves, Alone, Releasing
  <2> QED
    BY <1>6, <2>1 DEF SlotsInv, Parted, ClosingSlots, InUse
<1>12. OneSender'
  <2>1. \A x \in Slots : Senders(x)' = Senders(x)
    BY <1>1, <1>5 DEF Senders, Moves, Alone, Sender
  <2> QED
    BY <1>6, <2>1 DEF SlotsInv, OneSender, Senders
<1> QED
  BY <1>9, <1>10, <1>11, <1>12 DEF Parted

LEMMA FindLockSessionSlots ==
  ASSUME TypeOK', SlotsInv, NEW t \in Threads, FindUse(t) \/ FindID(t) \/ Disconnect(t)
  PROVE  Parted' /\ OneSender'
<1>1. WorkSame /\ UNCHANGED emptySession
  BY WorkKept, ConstantTypes DEF SlotsInv, RefsInv, FindUse, FindID, Disconnect, pool
<1>2. PICK l \in {"FindID", "EndCall", "Disconnect", "Enqueue"} : Goto(t, l)
  BY DEF FindUse, FindID, Disconnect, Step
<1>3. l \in Labels /\ l \notin Owning \cup Sender
  BY DEF Labels, Owning, Releasing, Sender
<1>4. l \notin Releasing
  BY <1>3 DEF Owning
<1> QED
  BY <1>1, <1>2, <1>3, <1>4, GotoSlots

LEMMA EnqueueSlots ==
  ASSUME TypeOK', SlotsInv, NEW t \in Threads, Enqueue(t) \/ FreeMsg(t)
  PROVE  Parted' /\ OneSender'
<1> DEFINE s == th[t].slot
<1>1. TypeOK /\ s \in Slots /\ th[t].held \in SUBSET Kinds /\ UNCHANGED emptySession
  BY Typed, ThreadFields DEF SlotsInv, RefsInv, Enqueue, FreeMsg, pool
<1>2. WorkSame
  <2>1. \/ UNCHANGED Session
        \/ Session' = [Session EXCEPT ![s].SendQ = Append(@, th[t].msg)]
    BY DEF Enqueue, FreeMsg
  <2> QED
    BY <1>1, <2>1, WorkKept
<1>3. PICK l \in {"PostSend", "FreeMsg", "PostRecv", "Parse", "idle"}, h \in SUBSET th[t].held :
        Moves(t, l, th[t].back, s, h)
  <2>1. {"PostSend", "FreeMsg", "PostRecv", "Parse", "idle"} \subseteq Labels
    BY DEF Labels
  <2>2. AfterCall(t) \in {"PostRecv", "Parse", "idle"}
    BY DEF AfterCall
  <2>3. CASE FreeMsg(t)
    <3>1. th' = [th EXCEPT ![t].msg = NoPack, ![t].arg = NoConn, ![t].pc = AfterCall(t)]
      BY <2>3 DEF FreeMsg
    <3>2. AfterCall(t) \in Labels
      BY <2>1, <2>2
    <3>3. Moves(t, AfterCall(t), th[t].back, s, th[t].held)
      BY <1>1, <3>1, <3>2, ThreadMoves, ConstantTypes
    <3> QED
      BY <2>2, <3>3
  <2>4. CASE Enqueue(t) /\ Goto(t, "PostSend")
    <3>1. Moves(t, "PostSend", th[t].back, s, th[t].held)
      BY <1>1, <2>1, <2>4, ThreadMoves DEF Goto
    <3> QED
      BY <3>1
  <2>5. CASE th' = [th EXCEPT ![t].held = th[t].held \ {"call"}, ![t].pc = "FreeMsg"]
    <3>1. th[t].held \ {"call"} \in SUBSET Kinds
      BY <1>1
    <3>2. Moves(t, "FreeMsg", th[t].back, s, th[t].held \ {"call"})
      BY <1>1, <2>1, <2>5, <3>1, ThreadMoves
    <3> QED
      BY <3>2
  <2> QED
    BY <2>3, <2>4, <2>5 DEF Enqueue
<1>4. l \notin Owning \cup Sender \cup Releasing
  BY DEF Owning, Releasing, Sender
<1> QED
  BY <1>1, <1>2, <1>3, <1>4, PlainSlots

-----------------------------------------------------------------------------
(* IODecrement *)

\* The last reference counted is the only one.
LEMMA LastReference ==
  ASSUME RefsInv, NEW t \in Threads, NEW k \in th[t].held, Session[th[t].slot].IOCount = 1
  PROVE  /\ Quiet(th[t].slot) /\ th[t].held = {k}
         /\ \A u \in Threads \ {t} : th[u].slot = th[t].slot => th[u].held = {}
<1>1. PICK s \in Slots : s = th[t].slot
  BY Typed DEF RefsInv
<1>2. IsFiniteSet(Holds(s)) /\ Cardinality(Holds(s)) \in Nat
  BY KindsFinite, FS_Subset, FS_CardinalityType DEF Holds
<1>3. Session[s] \in SessionType
  BY DEF RefsInv, TypeOK
<1> DEFINE recv == Session[s].RecvOver
           send == Session[s].SendOver
<1>4. recv \in Seq(Ids) /\ send \in Seq([sock : Ids, buf : Seq(Packets)])
  BY <1>3, SessionFields
<1>5. Cardinality(Holds(s)) + Len(recv) + Len(send) <= 1
  BY <1>1 DEF RefsInv, RefsCovered, References
<1>6. <<t, k>> \in Holds(s)
  BY <1>1, Typed, ThreadFields DEF RefsInv, Holds
<1>7. ASSUME NEW p \in Holds(s), p # <<t, k>> PROVE FALSE
  <2>1. IsFiniteSet({p}) /\ Cardinality({p}) = 1
    BY FS_Singleton
  <2>2. Cardinality({p} \cup {<<t, k>>}) = 2
    <3>1. PICK q : q = <<t, k>>
      OBVIOUS
    <3>2. q \notin {p}
      BY <1>7, <3>1
    <3>3. Cardinality({p} \cup {q}) = Cardinality({p}) + 1
      BY <2>1, <3>2, FS_AddElement
    <3> QED
      BY <2>1, <3>1, <3>3
  <2>3. {p} \cup {<<t, k>>} \subseteq Holds(s)
    BY <1>6
  <2>4. Cardinality({p} \cup {<<t, k>>}) <= Cardinality(Holds(s))
    BY <1>2, <2>3, FS_Subset
  <2>5. Len(recv) \in Nat /\ Len(send) \in Nat
    BY <1>4
  <2> HIDE DEF recv, send
  <2> QED
    BY <1>2, <1>5, <2>2, <2>4, <2>5
<1>8. Quiet(s)
  <2>1. Cardinality(Holds(s)) # 0
    BY <1>2, <1>6, FS_EmptySet
  <2>2. Len(recv) \in Nat /\ Len(send) \in Nat
    BY <1>4
  <2>3. Len(recv) = 0 /\ Len(send) = 0
    <3> HIDE DEF recv, send
    <3> QED
      BY <1>2, <1>5, <2>1, <2>2
  <2> QED
    BY <1>4, <2>3 DEF Quiet
<1>9. ASSUME NEW u \in Threads, NEW j \in th[u].held, th[u].slot = s
      PROVE  u = t /\ j = k
  <2>1. <<u, j>> \in Holds(s)
    BY <1>9, Typed, ThreadFields DEF RefsInv, Holds
  <2> QED
    BY <1>7, <2>1
<1> QED
  BY <1>1, <1>8, <1>9

LEMMA IODecrementSlots ==
  ASSUME Callers = {}, TypeOK', SlotsInv, NEW t \in Threads,
         EndPost(t) \/ EndPostEmpty(t) \/ EndCall(t) \/ EndEvent(t)
  PROVE  Parted' /\ OneSender'
<1> DEFINE h == th[t].held
           s == th[t].slot
           count == Session[s].IOCount
<1>1. HoldingOf(t) /\ NamingOf(t) /\ TypeOK /\ s \in Slots
  BY Typed DEF SlotsInv, RefsInv, Holding, Naming
<1>2. PICK k \in Kinds, l \in Ends :
        /\ IODecrement(t, k, l) /\ k \in h
        /\ k = "event" => l = "idle"
        /\ l \in Sender => th[t].pc \in Sender
        /\ th[t].pc \in {"EndPost", "EndPostEmpty", "EndCall", "EndEvent"}
  <2>1. Carries(t, th[t].pc, h)
    <3>1. th[t].pc \notin Releasing
      BY DEF EndPost, EndPostEmpty, EndCall, EndEvent, At, Releasing
    <3> QED
      BY <1>1, <3>1 DEF HoldingOf, Where
  <2>2. CASE EndPost(t)
    <3>1. IODecrement(t, "post", AfterPost(t)) /\ th[t].pc = "EndPost"
      BY <2>2 DEF EndPost, At
    <3>2. "post" \in h /\ "post" \in Kinds /\ AfterPost(t) \in Ends \ Sender
      BY <2>1, <3>1 DEF Carries, Posting, Kinds, AfterPost, Ends, Sender
    <3> QED
      BY <3>1, <3>2
  <2>3. CASE EndPostEmpty(t)
    <3>1. IODecrement(t, "post", "ClearFlag") /\ th[t].pc = "EndPostEmpty"
      BY <2>3 DEF EndPostEmpty, At
    <3>2. "post" \in h /\ "post" \in Kinds /\ "ClearFlag" \in Ends
      BY <2>1, <3>1 DEF Carries, Posting, Kinds, Ends
    <3>3. th[t].pc \in Sender
      BY <3>1 DEF Sender
    <3> QED
      BY <3>1, <3>2, <3>3
  <2>4. CASE EndCall(t)
    <3>1. IODecrement(t, "call", "FreeMsg") /\ th[t].pc = "EndCall"
      BY <2>4 DEF EndCall, At
    <3>2. "call" \in h /\ "call" \in Kinds /\ "FreeMsg" \in Ends \ Sender
      BY <2>1, <3>1 DEF Carries, Calling, Kinds, Ends, Sender
    <3> QED
      BY <3>1, <3>2
  <2>5. CASE EndEvent(t)
    <3>1. IODecrement(t, "event", "idle") /\ th[t].pc = "EndEvent"
      BY <2>5 DEF EndEvent, At
    <3>2. "event" \in h /\ "event" \in Kinds /\ "idle" \in Ends \ Sender
      BY <2>1, <3>1 DEF Carries, Kinds, Ends, Sender
    <3> QED
      BY <3>1, <3>2
  <2> QED
    BY <2>2, <2>3, <2>4, <2>5
<1>3. "event" \in h
  BY <1>1, <1>2 DEF HoldingOf, Where, Releasing, Carries
<1>4. WorkSame /\ UNCHANGED emptySession
  BY <1>1, <1>2, WorkKept DEF IODecrement, pool
<1> DEFINE l2 == IF count = 1 THEN "Release" ELSE l
<1>5. Moves(t, l2, l, s, h \ {k})
  <2>1. l2 \in Labels /\ l \in Labels
    BY DEF Labels, Ends
  <2>2. h \ {k} \in SUBSET Kinds
    BY <1>1, Typed, ThreadFields
  <2>3. th' = [th EXCEPT ![t].held = h \ {k}, ![t].back = l, ![t].pc = l2]
    BY <1>2 DEF IODecrement
  <2> HIDE DEF l2
  <2> QED
    BY <1>1, <2>1, <2>2, <2>3, ThreadMoves
<1>6. Works(t, s)
  BY <1>3 DEF Works
<1>7. CASE count = 1
  <2>1. /\ Quiet(s) /\ h = {"event"}
        /\ \A u \in Threads \ {t} : th[u].slot = s => th[u].held = {}
    BY <1>3, <1>7, LastReference DEF SlotsInv
  <2>2. ASSUME NEW u \in Threads \ {t} PROVE ~Works(u, s)
    <3>1. th[u].pc \in Owning => ~Works(t, th[u].slot)
      BY DEF SlotsInv, Parted, OwnedSlots, Lone
    <3> QED
      BY <1>6, <2>1, <3>1 DEF Works
  <2>3. Lone(t)
    BY <2>1, <2>2 DEF Lone
  <2>4. l = "idle" /\ InUse(s)
    BY <1>1, <1>2, <2>1 DEF NamingOf
  <2>5. l2 = "Release" /\ "Release" \notin Sender
    BY <1>7 DEF Sender
  <2> HIDE DEF l2
  <2> QED
    BY <1>4, <1>5, <1>6, <2>3, <2>4, <2>5, OrdinaryStep
<1>8. CASE count # 1
  <2>1. l2 = l /\ l \notin Owning /\ l \notin Releasing
    BY <1>8 DEF Ends, Owning, Releasing
  <2> HIDE DEF l2
  <2> QED
    BY <1>2, <1>4, <1>5, <1>6, <2>1, OrdinaryStep
<1> QED
  BY <1>7, <1>8

-----------------------------------------------------------------------------
(* A reference taken *)

LEMMA TakeSlots ==
  ASSUME Callers = {}, TypeOK', SlotsInv, NEW t \in Threads, NEW k \in Kinds,
         NEW l \in {"SetFlag", "WSARecv", "SetSock"}, Take(t, k, l), Works(t, th[t].slot),
         l \in Owning => th[t].pc \in Owning, UNCHANGED emptySession
  PROVE  Parted' /\ OneSender'
<1>1. TypeOK /\ th[t].slot \in Slots
  BY Typed DEF SlotsInv, RefsInv
<1>2. WorkSame
  BY <1>1, WorkKept DEF Take
<1>3. Moves(t, l, th[t].back, th[t].slot, th[t].held \cup {k})
  <2>1. l \in Labels /\ th[t].held \cup {k} \in SUBSET Kinds
    BY <1>1, Typed, ThreadFields DEF Labels
  <2> QED
    BY <1>1, <2>1, ThreadMoves DEF Take
<1>4. l \in Owning => Lone(t)
  BY DEF SlotsInv, Parted, OwnedSlots
<1>5. l \notin Releasing \cup Sender
  BY DEF Releasing, Sender
<1> QED
  BY <1>2, <1>3, <1>4, <1>5, OrdinaryStep

LEMMA PostSlots ==
  ASSUME Callers = {}, TypeOK', SlotsInv, NEW t \in Threads, PostSend(t) \/ PostRecv(t)
  PROVE  Parted' /\ OneSender'
<1>1. PICK l \in {"SetFlag", "WSARecv"} : Take(t, "post", l)
  BY DEF PostSend, PostRecv
<1>2. "event" \in th[t].held
  <2>1. HoldingOf(t)
    BY DEF SlotsInv, RefsInv, Holding
  <2> QED
    BY <2>1 DEF PostSend, PostRecv, At, HoldingOf, Where, Releasing, Carries
<1>3. Works(t, th[t].slot) /\ "post" \in Kinds /\ l \notin Owning /\ UNCHANGED emptySession
  BY <1>2 DEF Works, Kinds, Owning, Releasing, PostSend, PostRecv, pool
<1> QED
  BY <1>1, <1>3, TakeSlots

\* A thread without a reference of its own would take one on a slot it does not work on.
LEMMA FindSlots ==
  ASSUME Callers = {}, TypeOK', SlotsInv, NEW t \in Threads, Find(t)
  PROVE  Parted' /\ OneSender'
<1> DEFINE h == th[t].held
           s == th[t].slot
<1>1. HoldingOf(t) /\ NamingOf(t) /\ TypeOK /\ th[t].pc = "Find" /\ s \in Slots
  BY Typed DEF SlotsInv, RefsInv, Holding, Naming, Find, At
<1>2. net[th[t].arg].index = s
  BY <1>1 DEF NamingOf, Named
<1>3. WorkSame /\ UNCHANGED emptySession
  BY <1>1, <1>2, WorkKept DEF Find, pool
<1>4. PICK l \in {"EndCall", "FindUse"} : Moves(t, l, th[t].back, s, h \cup {"call"})
  <2>1. PICK l \in {"EndCall", "FindUse"} :
          th' = [th EXCEPT ![t].slot = s, ![t].held = h \cup {"call"}, ![t].pc = l]
    BY <1>2 DEF Find
  <2>2. l \in Labels /\ h \cup {"call"} \in SUBSET Kinds
    BY <1>1, Typed, ThreadFields DEF Labels, Kinds
  <2> HIDE DEF h
  <2>3. Moves(t, l, th[t].back, s, h \cup {"call"})
    BY <1>1, <2>1, <2>2, ThreadMoves
  <2> QED
    BY <2>3
<1>5. Works(t, s)
  BY <1>1 DEF Works, HoldingOf, Where, Releasing, Carries
<1>6. l \notin Owning /\ l \notin Releasing /\ l \notin Sender
  BY DEF Owning, Releasing, Sender
<1> QED
  BY <1>3, <1>4, <1>5, <1>6, OrdinaryStep

-----------------------------------------------------------------------------
(* SendFlag *)

\* SendFlag is written by a thread that goes on.
LEMMA FlagSlots ==
  ASSUME TypeOK', SlotsInv, UNCHANGED emptySession, NEW t \in Threads, NEW v \in BOOLEAN,
         Session' = [Session EXCEPT ![th[t].slot].SendFlag = v],
         NEW l \in Labels \ Releasing, Goto(t, l), l \in Owning => th[t].pc \in Owning
  PROVE  /\ Parted' /\ OversSame /\ Moves(t, l, th[t].back, th[t].slot, th[t].held)
         /\ Session'[th[t].slot].SendFlag = v
         /\ \A x \in Slots \ {th[t].slot} : Session'[x].SendFlag = Session[x].SendFlag
<1>1. TypeOK /\ Parted /\ th[t].slot \in Slots
  BY Typed DEF SlotsInv, RefsInv
<1>2. PICK s \in Slots : s = th[t].slot
  BY <1>1
<1>3. /\ OversSame /\ Session'[s].SendFlag = v
      /\ \A x \in Slots \ {s} : Session'[x].SendFlag = Session[x].SendFlag
  BY <1>1, <1>2 DEF TypeOK, SessionType, OversSame, InUse
<1>4. Moves(t, l, th[t].back, th[t].slot, th[t].held)
  BY <1>1, ThreadMoves DEF Goto
<1>5. l \in Owning => Lone(t)
  BY <1>1 DEF Parted, OwnedSlots
<1>6. th[t].held # {} \/ l \in Owning => Works(t, th[t].slot)
  BY DEF Works
<1>7. Parted'
  BY <1>1, <1>3, <1>4, <1>5, <1>6, OrdinarySlots
<1> QED
  BY <1>2, <1>3, <1>4, <1>7

\* The flag goes up with the one that sends, and down with it.
LEMMA FlagStep ==
  ASSUME TypeOK', SlotsInv, UNCHANGED emptySession, NEW t \in Threads, NEW v \in BOOLEAN,
         Session' = [Session EXCEPT ![th[t].slot].SendFlag = v],
         NEW l \in Labels \ (Releasing \cup Owning), Goto(t, l),
         \/ /\ v = TRUE /\ th[t].pc \notin Sender
            /\ Session[th[t].slot].SendFlag => l \notin Sender
         \/ v = FALSE /\ th[t].pc \in Sender /\ l \notin Sender
  PROVE  Parted' /\ OneSender'
<1>1. /\ Parted' /\ OversSame /\ Moves(t, l, th[t].back, th[t].slot, th[t].held)
      /\ Session'[th[t].slot].SendFlag = v
      /\ \A x \in Slots \ {th[t].slot} : Session'[x].SendFlag = Session[x].SendFlag
  BY FlagSlots
<1>2. TypeOK /\ OneSender
  BY DEF SlotsInv, RefsInv
<1>3. ASSUME NEW x \in Slots
      PROVE  Len(Session'[x].SendOver) + Part(t, x)' - Flag(x)'
               <= Len(Session[x].SendOver) + Part(t, x) - Flag(x)
  <2> DEFINE over == Len(Session[x].SendOver)
  <2>1. over \in Nat /\ Len(Session'[x].SendOver) = over
    BY <1>1, <1>2, SessionNumbers DEF OversSame, TypeOK
  <2>2. /\ Part(t, x) \in {0, 1} /\ Part(t, x)' \in {0, 1}
        /\ Flag(x) \in {0, 1} /\ Flag(x)' \in {0, 1}
    BY DEF Part, Flag
  <2>3. \/ Part(t, x)' = 0 /\ Part(t, x) = 0 /\ Flag(x)' = Flag(x)
        \/ Flag(x)' = 1 /\ Flag(x) = 0
        \/ Flag(x)' = 1 /\ Part(t, x)' = 0 /\ Part(t, x) = 0
        \/ Flag(x)' = 0 /\ Part(t, x)' = 0 /\ Part(t, x) = 1
    BY <1>1 DEF Part, Flag, Moves
  <2> HIDE DEF over
  <2>4. over + Part(t, x)' - Flag(x)' <= over + Part(t, x) - Flag(x)
    BY <2>1, <2>2, <2>3
  <2> QED
    BY <2>1, <2>4
<1>4. OneSender'
  BY <1>1, <1>2, <1>3, SenderStep DEF Moves
<1> QED
  BY <1>1, <1>4

LEMMA SetFlagSlots ==
  ASSUME TypeOK', SlotsInv, NEW t \in Threads, SetFlag(t) \/ ClearFlag(t)
  PROVE  Parted' /\ OneSender'
<1>1. UNCHANGED emptySession
  BY DEF SetFlag, ClearFlag, pool
<1>2. CASE SetFlag(t)
  <2>1. PICK l \in {"EndPost", "Dequeue"} :
          Goto(t, l) /\ (Session[th[t].slot].SendFlag => l \notin Sender)
    BY <1>2 DEF SetFlag, Step, Sender
  <2>2. l \in Labels \ (Releasing \cup Owning)
    BY DEF Labels, Releasing, Owning
  <2>3. th[t].pc \notin Sender
    BY <1>2 DEF SetFlag, Step, At, Sender
  <2>4. Session' = [Session EXCEPT ![th[t].slot].SendFlag = TRUE]
    BY <1>2 DEF SetFlag
  <2> QED
    BY <1>1, <2>1, <2>2, <2>3, <2>4, FlagStep
<1>3. CASE ClearFlag(t)
  <2>1. PICK l \in {"EndCall", "EndEvent"} : Goto(t, l)
    BY <1>3 DEF ClearFlag, Step, AfterPost
  <2>2. l \in Labels \ (Releasing \cup Owning) /\ l \notin Sender
    BY DEF Labels, Releasing, Owning, Sender
  <2>3. th[t].pc \in Sender
    BY <1>3 DEF ClearFlag, Step, At, Sender
  <2>4. Session' = [Session EXCEPT ![th[t].slot].SendFlag = FALSE]
    BY <1>3 DEF ClearFlag
  <2> QED
    BY <1>1, <2>1, <2>2, <2>3, <2>4, FlagStep
<1> QED
  BY <1>2, <1>3

LEMMA FreeSentSlots ==
  ASSUME TypeOK', SlotsInv, NEW w \in Workers, FreeSent(w)
  PROVE  Parted' /\ OneSender'
<1>1. TypeOK /\ w \in Threads /\ th[w].slot \in Slots /\ UNCHANGED emptySession
  BY ConstantTypes, Typed DEF SlotsInv, RefsInv, FreeSent, pool
<1>2. CASE UNCHANGED th /\ Session' = [Session EXCEPT ![th[w].slot].SendPack = Front(@)]
  <2>1. WorkSame
    BY <1>1, <1>2, WorkKept
  <2> QED
    BY <1>1, <1>2, <2>1, TurnSlots
<1>3. CASE Goto(w, "Recheck") /\ Session' = [Session EXCEPT ![th[w].slot].SendFlag = FALSE]
  <2>1. "Recheck" \in Labels \ (Releasing \cup Owning) /\ "Recheck" \notin Sender
    BY DEF Labels, Releasing, Owning, Sender
  <2>2. th[w].pc \in Sender
    BY DEF FreeSent, At, Sender
  <2> QED
    BY <1>1, <1>3, <2>1, <2>2, FlagStep
<1> QED
  BY <1>2, <1>3 DEF FreeSent

LEMMA DequeueSlots ==
  ASSUME TypeOK', SlotsInv, NEW t \in Threads, Dequeue(t)
  PROVE  Parted' /\ OneSender'
<1> DEFINE s == th[t].slot
           q == Session[s].SendQ
<1>1. /\ TypeOK /\ s \in Slots /\ UNCHANGED emptySession /\ th[t].pc = "Dequeue"
      /\ th[t].batch \in Seq(Packets) /\ q \in Seq(Packets)
  BY Typed, ThreadFields, SessionFields DEF SlotsInv, RefsInv, Dequeue, At, pool
<1>2. WorkSame
  <2>1. \/ UNCHANGED Session
        \/ \E x : Session' = [Session EXCEPT ![s].SendQ = x]
        \/ \E x, y : Session' = [Session EXCEPT ![s].SendQ = x, ![s].SendPack = y]
    BY DEF Dequeue
  <2> QED
    BY <1>1, <2>1, WorkKept
<1>3. \/ \E l \in {"EndPostEmpty", "WSASend"} : Goto(t, l)
      \/ q # <<>> /\ th' = [th EXCEPT ![t].batch = Append(th[t].batch, Head(q))]
  BY DEF Dequeue
<1>4. CASE \E l \in {"EndPostEmpty", "WSASend"} : Goto(t, l)
  <2>1. PICK l \in {"EndPostEmpty", "WSASend"} : Goto(t, l)
    BY <1>4
  <2>2. l \in Labels /\ l \notin Owning /\ l \notin Releasing
    BY DEF Labels, Owning, Releasing
  <2>3. th[t].pc \in Sender
    BY <1>1 DEF Sender
  <2> QED
    BY <1>1, <1>2, <2>1, <2>2, <2>3, GotoSlots
<1>5. CASE q # <<>> /\ th' = [th EXCEPT ![t].batch = Append(th[t].batch, Head(q))]
  <2>1. Append(th[t].batch, Head(q)) \in Seq(Packets)
    <3> HIDE DEF q
    <3>1. Head(q) \in Packets
      BY <1>1, <1>5
    <3> QED
      BY <1>1, <3>1
  <2>2. Moves(t, th[t].pc, th[t].back, s, th[t].held)
    BY <1>1, <1>5, <2>1, ThreadMoves
  <2>3. th[t].held \in SUBSET th[t].held
    OBVIOUS
  <2> QED
    BY <1>1, <1>2, <2>2, <2>3, PlainSlots
<1> QED
  BY <1>3, <1>4, <1>5

-----------------------------------------------------------------------------
(* Operations handed to the kernel *)

\* A thread with a reference may put an operation on the slot it works on.
LEMMA PostedSlots ==
  ASSUME TypeOK, Parted, UNCHANGED emptySession, NEW t \in Threads, NEW l, NEW h,
         Moves(t, l, th[t].back, th[t].slot, h), l \notin Owning,
         th[t].held # {}, th[t].pc \notin Owning,
         \A x \in Slots \ {th[t].slot} : Session'[x] = Session[x],
         Session'[th[t].slot].SessionID = Session[th[t].slot].SessionID
  PROVE  Parted'
<1>1. Alone(t) /\ th'[t].slot = th[t].slot /\ th[t].slot \in Slots
  BY Typed DEF Moves
<1>2. Works(t, th[t].slot)
  BY DEF Works
<1>3. \A x \in Slots : InUse(x) => InUse(x)'
  BY DEF InUse
<1>4. \A x \in Slots : Quiet(x) /\ ~Quiet(x)' => Works(t, x) /\ th[t].pc \notin Owning
  <2> TAKE x \in Slots
  <2>1. CASE x = th[t].slot
    BY <1>2, <2>1
  <2>2. CASE x # th[t].slot
    BY <2>2 DEF Quiet
  <2> QED
    BY <2>1, <2>2
<1>5. \A x \in Slots : Works(t, x)' => Works(t, x) \/ ~Quiet(x)
  BY <1>1, <1>2 DEF Works
<1>6. th'[t].pc \notin Owning /\ th'[t].pc \notin Releasing
  BY DEF Moves, Owning
<1> QED
  BY <1>1, <1>3, <1>4, <1>5, <1>6, SlotStep

LEMMA SendOverAppend ==
  ASSUME TypeOK, NEW s \in Slots, NEW e \in [sock : Ids, buf : Seq(Packets)],
         Session' = [Session EXCEPT ![s].SendOver = Append(Session[s].SendOver, e)]
  PROVE  /\ Len(Session'[s].SendOver) = Len(Session[s].SendOver) + 1
         /\ Session'[s].SendFlag = Session[s].SendFlag
<1> DEFINE send == Session[s].SendOver
<1>1. Session[s] \in SessionType /\ Session \in [Slots -> SessionType]
  BY DEF TypeOK
<1>2. send \in Seq([sock : Ids, buf : Seq(Packets)])
  BY <1>1, SessionFields
<1>3. Session'[s].SendOver = Append(send, e) /\ Session'[s].SendFlag = Session[s].SendFlag
  <2>1. PICK q : q = Append(send, e) /\ Session' = [Session EXCEPT ![s].SendOver = q]
    OBVIOUS
  <2>2. Session'[s].SendOver = q /\ Session'[s].SendFlag = Session[s].SendFlag
    BY <1>1, <2>1 DEF SessionType
  <2> QED
    BY <2>1, <2>2
<1> HIDE DEF send
<1>4. Len(Append(send, e)) = Len(send) + 1
  BY <1>2
<1> QED
  BY <1>3, <1>4 DEF send

LEMMA WSASendSlots ==
  ASSUME TypeOK', SlotsInv, NEW t \in Threads, WSASend(t)
  PROVE  Parted' /\ OneSender'
<1> DEFINE s == th[t].slot
           c == Session[s].sock
           b == th[t].batch
<1>1. /\ TypeOK /\ Parted /\ OneSender /\ HoldingOf(t) /\ th[t].pc = "WSASend"
      /\ th[t].held \in SUBSET Kinds /\ UNCHANGED emptySession
  BY Typed, ThreadFields DEF SlotsInv, RefsInv, Holding, WSASend, At, pool
<1>2. /\ s \in Slots /\ c \in Ids /\ b \in Seq(Packets) /\ <<>> \in Seq(Packets)
      /\ th[t].held \ {"post"} \in SUBSET Kinds
  BY <1>1, Typed, SessionFields, ThreadFields
<1>3. th[t].pc \in Sender /\ th[t].pc \notin Owning /\ "post" \in th[t].held
  BY <1>1 DEF Sender, Owning, Releasing, HoldingOf, Where, Carries, Posting
<1>4. CASE /\ Session' = [Session EXCEPT ![s].SendOver = Append(@, [sock |-> c, buf |-> b])]
           /\ th' = [th EXCEPT ![t].batch = <<>>, ![t].held = @ \ {"post"}, ![t].pc = AfterPost(t)]
  <2>1. PICK l \in {"EndCall", "EndEvent"} : l = AfterPost(t)
    BY DEF AfterPost
  <2>2. l \in Labels /\ l \notin Owning /\ l \notin Sender
    BY DEF Labels, Owning, Releasing, Sender
  <2>3. Moves(t, l, th[t].back, s, th[t].held \ {"post"})
    <3>1. th' = [th EXCEPT ![t].batch = <<>>, ![t].held = th[t].held \ {"post"}, ![t].pc = l]
      BY <1>4, <2>1
    <3> QED
      BY <1>1, <1>2, <2>2, <3>1, ThreadMoves
  <2>4. [sock |-> c, buf |-> b] \in [sock : Ids, buf : Seq(Packets)]
    BY <1>2
  <2>5. PICK e \in [sock : Ids, buf : Seq(Packets)] :
          Session' = [Session EXCEPT ![s].SendOver = Append(Session[s].SendOver, e)]
    BY <1>4, <2>4
  <2>6. /\ \A x \in Slots \ {s} : Session'[x] = Session[x]
        /\ Session'[s].SessionID = Session[s].SessionID
    BY <1>1, <1>2, <2>5, OverOnly
  <2>7. Parted'
    BY <1>1, <1>3, <2>2, <2>3, <2>6, PostedSlots
  <2>8. ASSUME NEW x \in Slots
        PROVE  Len(Session'[x].SendOver) + Part(t, x)' - Flag(x)'
                 <= Len(Session[x].SendOver) + Part(t, x) - Flag(x)
    <3>1. Flag(x) \in {0, 1} /\ Len(Session[x].SendOver) \in Nat
      BY <1>1, SessionNumbers DEF Flag, TypeOK
    <3>2. Part(t, x)' = 0
      BY <2>2, <2>3 DEF Part, Moves
    <3>3. CASE x = s
      <4>1. Part(t, x) = 1
        BY <1>3, <3>3 DEF Part
      <4>2. Len(Session'[x].SendOver) = Len(Session[x].SendOver) + 1 /\ Flag(x)' = Flag(x)
        BY <1>1, <1>2, <2>5, <3>3, SendOverAppend DEF Flag
      <4> HIDE DEF s
      <4> QED
        BY <3>1, <3>2, <4>1, <4>2
    <3>4. CASE x # s
      <4>1. Part(t, x) = 0
        BY <3>4 DEF Part
      <4>2. Len(Session'[x].SendOver) = Len(Session[x].SendOver) /\ Flag(x)' = Flag(x)
        BY <2>6, <3>4 DEF Flag
      <4> HIDE DEF s
      <4> QED
        BY <3>1, <3>2, <4>1, <4>2
    <3> QED
      BY <3>3, <3>4
  <2>9. OneSender'
    BY <1>1, <2>3, <2>8, SenderStep DEF Moves
  <2> QED
    BY <2>7, <2>9
<1>5. CASE UNCHANGED Session /\ th' = [th EXCEPT ![t].batch = <<>>, ![t].pc = "EndPost"]
  <2>1. "EndPost" \in Labels /\ "EndPost" \notin Owning \cup Releasing \cup Sender
    BY DEF Labels, Owning, Releasing, Sender
  <2>2. Moves(t, "EndPost", th[t].back, s, th[t].held)
    BY <1>1, <1>2, <1>5, <2>1, ThreadMoves
  <2>3. WorkSame /\ th[t].held \in SUBSET th[t].held
    BY <1>1, <1>2, <1>5, WorkKept
  <2> QED
    BY <1>1, <2>1, <2>2, <2>3, PlainSlots
<1> QED
  BY <1>4, <1>5 DEF WSASend

LEMMA WSARecvSlots ==
  ASSUME TypeOK', SlotsInv, NEW t \in Threads, WSARecv(t)
  PROVE  Parted' /\ OneSender'
<1> DEFINE s == th[t].slot
           c == Session[s].sock
<1>1. /\ TypeOK /\ Parted /\ OneSender /\ HoldingOf(t) /\ th[t].pc = "WSARecv"
      /\ th[t].held \in SUBSET Kinds /\ UNCHANGED emptySession
      /\ s \in Slots /\ th[t].held \ {"post"} \in SUBSET Kinds
  BY Typed, ThreadFields DEF SlotsInv, RefsInv, Holding, WSARecv, At, pool
<1>2. th[t].pc \notin Sender /\ th[t].pc \notin Owning /\ "post" \in th[t].held
  BY <1>1 DEF Sender, Owning, Releasing, HoldingOf, Where, Carries, Posting
<1>3. CASE /\ Session' = [Session EXCEPT ![s].RecvOver = Append(@, c)]
           /\ th' = [th EXCEPT ![t].held = @ \ {"post"}, ![t].pc = "EndEvent"]
  <2>1. "EndEvent" \in Labels /\ "EndEvent" \notin Owning /\ "EndEvent" \notin Sender
    BY DEF Labels, Owning, Releasing, Sender
  <2>2. Moves(t, "EndEvent", th[t].back, s, th[t].held \ {"post"})
    <3>1. th' = [th EXCEPT ![t].held = th[t].held \ {"post"}, ![t].pc = "EndEvent"]
      BY <1>3
    <3> QED
      BY <1>1, <2>1, <3>1, ThreadMoves
  <2>3. PICK q : Session' = [Session EXCEPT ![s].RecvOver = q]
    BY <1>3
  <2>4. /\ \A x \in Slots \ {s} : Session'[x] = Session[x]
        /\ Session'[s].SessionID = Session[s].SessionID
    BY <1>1, <2>3, OverOnly
  <2>5. Parted'
    BY <1>1, <1>2, <2>1, <2>2, <2>4, PostedSlots
  <2>6. \A x \in Slots : /\ Session'[x].SendOver = Session[x].SendOver
                         /\ Session'[x].SendFlag = Session[x].SendFlag
    <3> HIDE DEF s
    <3> QED
      BY <1>1, <2>3 DEF TypeOK, SessionType
  <2>7. \A x \in Slots : Senders(x)' = Senders(x)
    BY <1>2, <2>1, <2>2 DEF Senders, Moves, Alone
  <2>8. OneSender'
    BY <1>1, <2>6, <2>7 DEF OneSender, Senders
  <2> QED
    BY <2>5, <2>8
<1>4. CASE UNCHANGED Session /\ Goto(t, "EndPost")
  <2>1. "EndPost" \in Labels /\ "EndPost" \notin Owning \cup Releasing \cup Sender
    BY DEF Labels, Owning, Releasing, Sender
  <2>2. WorkSame
    BY <1>1, <1>4, WorkKept
  <2> QED
    BY <1>1, <1>4, <2>1, <2>2, GotoSlots
<1> QED
  BY <1>3, <1>4 DEF WSARecv

-----------------------------------------------------------------------------
(* Completions *)

\* A worker that takes a completion comes to work on a slot that is not quiet.
LEMMA FinishedSlots ==
  ASSUME TypeOK', SlotsInv, UNCHANGED emptySession, NEW w \in Workers, NEW s \in Slots,
         NEW l \in {"Parse", "FreeSent", "Zero"}, Begin(w, s, l), ~Quiet(s),
         \A x \in Slots \ {s} : Session'[x] = Session[x],
         Session'[s].SessionID = Session[s].SessionID,
         Session'[s].SendFlag = Session[s].SendFlag,
         Len(Session'[s].SendOver)
           <= Len(Session[s].SendOver) - (IF l = "FreeSent" THEN 1 ELSE 0)
  PROVE  Parted' /\ OneSender'
<1>1. /\ TypeOK /\ Parted /\ OneSender /\ w \in Threads /\ th[w].pc = "idle"
  BY ConstantTypes DEF SlotsInv, RefsInv, Begin, At
<1>2. l \in Labels /\ l \notin Owning /\ l \notin Releasing /\ th[w].pc \notin Sender
  BY <1>1 DEF Labels, Owning, Releasing, Sender
<1>3. Moves(w, l, th[w].back, s, {"event"})
  <2>1. {"event"} \in SUBSET Kinds
    BY DEF Kinds
  <2> QED
    BY <1>1, <1>2, <2>1, ThreadMoves DEF Begin
<1>4. Parted'
  <2>1. \A x \in Slots : InUse(x) => InUse(x)'
    BY DEF InUse
  <2>2. \A x \in Slots : Quiet(x) => Quiet(x)'
    BY DEF Quiet
  <2>3. \A x \in Slots : Works(w, x)' => Works(w, x) \/ ~Quiet(x)
    BY <1>3 DEF Works, Moves
  <2> QED
    BY <1>1, <1>2, <1>3, <2>1, <2>2, <2>3, SlotStep DEF Moves
<1>5. ASSUME NEW x \in Slots
      PROVE  Len(Session'[x].SendOver) + Part(w, x)' - Flag(x)'
               <= Len(Session[x].SendOver) + Part(w, x) - Flag(x)
  <2>1. /\ Flag(x) \in {0, 1} /\ Len(Session[x].SendOver) \in Nat
        /\ Len(Session'[x].SendOver) \in Nat
    BY <1>1, SessionNumbers DEF Flag, TypeOK
  <2>2. Part(w, x) = 0
    BY <1>2 DEF Part
  <2>3. CASE x = s
    <3>1. Part(w, x)' = IF l = "FreeSent" THEN 1 ELSE 0
      BY <1>3, <2>3 DEF Part, Moves, Sender
    <3>2. Flag(x)' = Flag(x)
      BY <2>3 DEF Flag
    <3>3. Len(Session'[x].SendOver) <= Len(Session[x].SendOver) - (IF l = "FreeSent" THEN 1 ELSE 0)
      BY <2>3
    <3> DEFINE over  == Len(Session[x].SendOver)
               over2 == Len(Session'[x].SendOver)
               one   == IF l = "FreeSent" THEN 1 ELSE 0
    <3>4. one \in {0, 1} /\ over \in Nat /\ over2 \in Nat /\ over2 <= over - one
      BY <2>1, <3>3
    <3>5. Part(w, x)' = one
      BY <3>1
    <3> HIDE DEF over, over2, one
    <3>6. over2 + one - Flag(x) <= over + 0 - Flag(x)
      BY <2>1, <3>4
    <3>7. over2 + Part(w, x)' - Flag(x)' <= over + Part(w, x) - Flag(x)
      BY <2>2, <3>2, <3>5, <3>6
    <3> QED
      BY <3>7 DEF over, over2
  <2>4. CASE x # s
    <3>1. Part(w, x)' = 0
      BY <1>3, <2>4 DEF Part, Moves
    <3>2. Len(Session'[x].SendOver) = Len(Session[x].SendOver) /\ Flag(x)' = Flag(x)
      BY <2>4 DEF Flag
    <3> QED
      BY <2>1, <2>2, <3>1, <3>2
  <2> QED
    BY <2>3, <2>4
<1>6. OneSender'
  BY <1>1, <1>3, <1>5, SenderStep DEF Moves
<1> QED
  BY <1>4, <1>6

LEMMA SendRemoved ==
  ASSUME TypeOK, NEW s \in Slots, NEW i \in DOMAIN Session[s].SendOver,
         Session' = [Session EXCEPT ![s].SendOver = RemoveAt(Session[s].SendOver, i)]
  PROVE  /\ Len(Session'[s].SendOver) = Len(Session[s].SendOver) - 1
         /\ Session'[s].SendFlag = Session[s].SendFlag /\ ~Quiet(s)
<1> DEFINE send == Session[s].SendOver
<1>1. Session[s] \in SessionType /\ Session \in [Slots -> SessionType]
  BY DEF TypeOK
<1>2. send \in Seq([sock : Ids, buf : Seq(Packets)])
  BY <1>1, SessionFields
<1>3. PICK q : q = RemoveAt(send, i)
  OBVIOUS
<1>4. Session' = [Session EXCEPT ![s].SendOver = q]
  BY <1>3
<1>5. Session'[s].SendOver = q /\ Session'[s].SendFlag = Session[s].SendFlag
  <2> HIDE DEF send
  <2> QED
    BY <1>1, <1>4 DEF SessionType
<1>6. send # <<>>
  OBVIOUS
<1>7. Len(q) = Len(send) - 1
  BY <1>2, <1>3, RemoveAtLength
<1> QED
  BY <1>5, <1>6, <1>7 DEF Quiet

LEMMA RecvRemoved ==
  ASSUME TypeOK, NEW s \in Slots, NEW i \in DOMAIN Session[s].RecvOver, NEW q,
         \/ Session' = [Session EXCEPT ![s].RecvOver = q]
         \/ \E y : Session' = [Session EXCEPT ![s].RecvOver = q, ![s].RecvQ = y]
  PROVE  /\ Session'[s].SendOver = Session[s].SendOver
         /\ Session'[s].SendFlag = Session[s].SendFlag /\ ~Quiet(s)
<1>1. Session \in [Slots -> SessionType]
  BY DEF TypeOK
<1>2. Session'[s].SendOver = Session[s].SendOver /\ Session'[s].SendFlag = Session[s].SendFlag
  BY <1>1 DEF SessionType
<1>3. Session[s].RecvOver # <<>>
  OBVIOUS
<1> QED
  BY <1>2, <1>3 DEF Quiet

LEMMA CompletionsSlots ==
  ASSUME TypeOK', SlotsInv, NEW w \in Workers, RecvDone(w) \/ SendDone(w) \/ ZeroDone(w)
  PROVE  Parted' /\ OneSender'
<1>1. TypeOK /\ UNCHANGED emptySession
  BY DEF SlotsInv, RefsInv, RecvDone, SendDone, ZeroDone, pool
<1>2. PICK s \in Slots, l \in {"Parse", "FreeSent", "Zero"} :
        /\ Begin(w, s, l)
        /\ \/ \E i \in DOMAIN Session[s].SendOver :
                Session' = [Session EXCEPT ![s].SendOver = RemoveAt(Session[s].SendOver, i)]
           \/ /\ l # "FreeSent"
              /\ \E i \in DOMAIN Session[s].RecvOver : \E q :
                   \/ Session' = [Session EXCEPT ![s].RecvOver = q]
                   \/ \E y : Session' = [Session EXCEPT ![s].RecvOver = q, ![s].RecvQ = y]
  <2>1. CASE RecvDone(w)
    <3> DEFINE Received(s, i, n) ==
                 LET c == Session[s].RecvOver[i] IN
                 /\ Begin(w, s, "Parse")
                 /\ Session' = [Session EXCEPT
                      ![s].RecvOver = RemoveAt(Session[s].RecvOver, i),
                      ![s].RecvQ = Session[s].RecvQ \o SubSeq(net[c].inbound, 1, n)]
                 /\ net' = [net EXCEPT
                      ![c].inbound = SubSeq(net[c].inbound, n + 1, Len(net[c].inbound))]
    <3>1. PICK s \in Slots : \E i \in DOMAIN Session[s].RecvOver : \E n \in 1 .. RecvMax :
            Received(s, i, n)
      BY <2>1 DEF RecvDone
    <3>2. PICK i \in DOMAIN Session[s].RecvOver : \E n \in 1 .. RecvMax : Received(s, i, n)
      BY <3>1
    <3>3. PICK n \in 1 .. RecvMax : Received(s, i, n)
      BY <3>2
    <3>4. Begin(w, s, "Parse")
      BY <3>3
    <3>5. \E q, y : Session' = [Session EXCEPT ![s].RecvOver = q, ![s].RecvQ = y]
      BY <3>3
    <3> HIDE DEF Received
    <3> QED
      BY <3>4, <3>5
  <2>2. CASE SendDone(w)
    BY <2>2 DEF SendDone
  <2>3. CASE ZeroDone(w)
    BY <2>3 DEF ZeroDone
  <2> QED
    BY <2>1, <2>2, <2>3
<1>3. Len(Session[s].SendOver) \in Nat
  BY <1>1, SessionNumbers DEF TypeOK
<1>4. CASE \E i \in DOMAIN Session[s].SendOver :
             Session' = [Session EXCEPT ![s].SendOver = RemoveAt(Session[s].SendOver, i)]
  <2>1. /\ Len(Session'[s].SendOver) = Len(Session[s].SendOver) - 1
        /\ Session'[s].SendFlag = Session[s].SendFlag /\ ~Quiet(s)
    BY <1>1, <1>4, SendRemoved
  <2>2. /\ \A x \in Slots \ {s} : Session'[x] = Session[x]
        /\ Session'[s].SessionID = Session[s].SessionID
    BY <1>1, <1>4, OverOnly
  <2>3. Len(Session'[s].SendOver)
          <= Len(Session[s].SendOver) - (IF l = "FreeSent" THEN 1 ELSE 0)
    BY <1>3, <2>1
  <2> QED
    BY <1>1, <1>2, <2>1, <2>2, <2>3, FinishedSlots
<1>5. CASE /\ l # "FreeSent"
           /\ \E i \in DOMAIN Session[s].RecvOver : \E q :
                \/ Session' = [Session EXCEPT ![s].RecvOver = q]
                \/ \E y : Session' = [Session EXCEPT ![s].RecvOver = q, ![s].RecvQ = y]
  <2>1. /\ Session'[s].SendOver = Session[s].SendOver
        /\ Session'[s].SendFlag = Session[s].SendFlag /\ ~Quiet(s)
    BY <1>1, <1>5, RecvRemoved
  <2>2. /\ \A x \in Slots \ {s} : Session'[x] = Session[x]
        /\ Session'[s].SessionID = Session[s].SessionID
    BY <1>1, <1>5, OverOnly
  <2>3. Len(Session'[s].SendOver)
          <= Len(Session[s].SendOver) - (IF l = "FreeSent" THEN 1 ELSE 0)
    BY <1>3, <1>5, <2>1
  <2> QED
    BY <1>1, <1>2, <2>1, <2>2, <2>3, FinishedSlots
<1> QED
  BY <1>2, <1>4, <1>5

\* The steps of a worker that change nothing the slots are parted by.
LEMMA WorkerStepsSlots ==
  ASSUME TypeOK', SlotsInv, NEW w \in Workers, Zero(w) \/ Quit(w) \/ Recheck(w)
  PROVE  Parted' /\ OneSender'
<1>1. w \in Threads /\ TypeOK /\ UNCHANGED emptySession
  BY ConstantTypes DEF SlotsInv, RefsInv, Zero, Quit, Recheck, pool
<1>2. WorkSame
  <2>1. UNCHANGED Session /\ th[w].slot \in Slots
    BY <1>1, Typed DEF Zero, Quit, Recheck
  <2> QED
    BY <1>1, <2>1, WorkKept
<1>3. PICK l \in {"EndEvent", "done", "PostSend"} : Goto(w, l)
  BY DEF Zero, Quit, Recheck, Step
<1>4. l \in Labels /\ l \notin Owning /\ l \notin Releasing /\ l \notin Sender
  BY DEF Labels, Owning, Releasing, Sender
<1> QED
  BY <1>1, <1>2, <1>3, <1>4, GotoSlots

\* A call from a callback stays with the slot of its thread.
LEMMA CallSlots ==
  ASSUME TypeOK', SlotsInv, WorkSame, UNCHANGED emptySession, NEW t \in Threads,
         NEW c \in Conns, NEW p \in Packets, Call(t, c, p)
  PROVE  Parted' /\ OneSender'
<1>1. Moves(t, "Find", th[t].back, th[t].slot, th[t].held)
  <2>1. "Find" \in Labels /\ c \in Ids /\ TypeOK
    BY ConstantTypes DEF Labels, SlotsInv, RefsInv
  <2>2. \A l \in Labels, d \in Ids, q \in Packets :
          th' = [th EXCEPT ![t].pc = l, ![t].arg = d, ![t].msg = q]
          => Moves(t, l, th[t].back, th[t].slot, th[t].held)
    BY <2>1, ThreadMoves
  <2>3. th' = [th EXCEPT ![t].pc = "Find", ![t].arg = c, ![t].msg = p]
    BY DEF Call
  <2> QED
    BY <2>1, <2>2, <2>3
<1>2. "Find" \notin Owning /\ "Find" \notin Releasing /\ "Find" \notin Sender
  BY DEF Owning, Releasing, Sender
<1>3. th[t].held \in SUBSET th[t].held
  OBVIOUS
<1> QED
  BY <1>1, <1>2, <1>3, PlainSlots

LEMMA ParseSlots ==
  ASSUME TypeOK', SlotsInv, NEW w \in Workers, Parse(w)
  PROVE  Parted' /\ OneSender'
<1> DEFINE q == Session[th[w].slot].RecvQ
<1>1. /\ HoldingOf(w) /\ NamingOf(w) /\ TypeOK /\ th[w].pc = "Parse" /\ UNCHANGED emptySession
      /\ w \in Threads /\ w \notin Callers /\ th[w].slot \in Slots
  BY ConstantTypes, ThreadsAssumption, Typed
     DEF SlotsInv, RefsInv, Holding, Naming, Parse, At, pool
<1>2. PICK s \in Slots : s = th[w].slot
  BY <1>1
<1>3. InUse(s)
  BY <1>1, <1>2 DEF HoldingOf, NamingOf, Where, Releasing, Carries
<1>4. PICK c \in Conns : c = Session[s].SessionID
  BY <1>3 DEF SlotsInv, RefsInv, Naming, Named
<1>5. WorkSame
  <2>1. UNCHANGED Session \/ \E x : Session' = [Session EXCEPT ![s].RecvQ = x]
    BY <1>2 DEF Parse
  <2> QED
    BY <1>1, <2>1, WorkKept
<1>6. CASE UNCHANGED th
  BY <1>1, <1>5, <1>6, TurnSlots
<1>7. CASE Goto(w, "PostRecv")
  <2>1. /\ "PostRecv" \in Labels /\ "PostRecv" \notin Owning
        /\ "PostRecv" \notin Releasing /\ "PostRecv" \notin Sender
    BY DEF Labels, Owning, Releasing, Sender
  <2> QED
    BY <1>1, <1>5, <1>7, <2>1, GotoSlots
<1>8. CASE \/ Call(w, c, <<c, q[2].n>>) /\ <<c, q[2].n>> \in Packets
           \/ Call(w, c, NoPack)
  BY <1>1, <1>5, <1>8, CallSlots, ConstantTypes
<1>9. Len(q) >= 2 => <<c, q[2].n>> \in Packets
  <2>1. q \in Seq(Units)
    BY <1>1, Typed, SessionFields
  <2> HIDE DEF q
  <2>2. ASSUME Len(q) >= 2 PROVE q[2] \in Units
    BY <2>1, <2>2
  <2>3. c \in Ids
    BY ConstantTypes
  <2>4. ASSUME NEW u \in Units PROVE u.n \in 0 .. MaxMsgs + 1
    <3>1. u.n \in 1 .. MaxMsgs
      BY DEF Units
    <3> QED
      BY <3>1, SizesAssumption
  <2> QED
    BY <2>2, <2>3, <2>4 DEF Packets
<1> QED
  BY <1>2, <1>4, <1>6, <1>7, <1>8, <1>9 DEF Parse

LEMMA OutsideSlots ==
  ASSUME TypeOK', SlotsInv, Stop \/ UNCHANGED vars \/ \E c \in Conns : Client(c)
  PROVE  Parted' /\ OneSender'
<1>1. UNCHANGED <<Session, th, emptySession>>
  BY DEF Stop, StopListen, StopShut, StopQuit, StopWait, Client, PeerSend, PeerClose, vars, pool
<1>2. TypeOK /\ Acceptor \in Threads /\ th[Acceptor].slot \in Slots
  BY ConstantTypes, Typed DEF SlotsInv, RefsInv
<1>3. WorkSame
  BY <1>1, <1>2, WorkKept
<1> QED
  BY <1>1, <1>2, <1>3, TurnSlots

-----------------------------------------------------------------------------
(* AcceptThread *)

LEMMA SlotPopped ==
  ASSUME emptySession \in Seq(Slots), IsInjective(emptySession), emptySession # <<>>,
         emptySession' = Front(emptySession)
  PROVE  \E s \in Slots :
           /\ s = Last(emptySession) /\ s \in ToSet(emptySession)
           /\ ToSet(emptySession)' = ToSet(emptySession) \ {s}
           /\ ToSet(emptySession) \subseteq Slots
           /\ IsInjective(emptySession)' /\ Len(emptySession') = Len(emptySession) - 1
<1> DEFINE n == Len(emptySession)
<1>1. n \in Nat \ {0} /\ DOMAIN emptySession = 1 .. n
  OBVIOUS
<1>2. PICK s \in Slots : s = emptySession[n] /\ s = Last(emptySession)
  BY <1>1 DEF Last
<1>3. /\ DOMAIN emptySession' = 1 .. n - 1 /\ Len(emptySession') = n - 1
      /\ \A i \in 1 .. n - 1 : emptySession'[i] = emptySession[i]
  <2>1. emptySession' = SubSeq(emptySession, 1, n - 1)
    BY DEF Front
  <2> HIDE DEF n
  <2>2. 1 .. n - 1 \subseteq 1 .. n /\ n - 1 \in Nat
    BY <1>1
  <2> QED
    BY <1>1, <2>1, <2>2
<1> HIDE DEF n
<1>4. 1 .. n - 1 \subseteq 1 .. n /\ n \in 1 .. n /\ n \notin 1 .. n - 1
      /\ 1 .. n = 1 .. n - 1 \cup {n}
  BY <1>1
<1>5. \A i, j \in 1 .. n : emptySession[i] = emptySession[j] => i = j
  BY <1>1 DEF IsInjective
<1>6. s \in ToSet(emptySession) /\ ToSet(emptySession) \subseteq Slots
  <2>1. \A i \in 1 .. n : emptySession[i] \in Slots
    BY <1>1
  <2> QED
    BY <1>1, <1>2, <1>4, <2>1 DEF ToSet
<1>7. ToSet(emptySession)' = ToSet(emptySession) \ {s}
  <2>1. ToSet(emptySession)' = {emptySession'[i] : i \in 1 .. n - 1}
    BY <1>3 DEF ToSet
  <2>2. ToSet(emptySession) = {emptySession[i] : i \in 1 .. n}
    BY <1>1 DEF ToSet
  <2>3. ASSUME NEW x \in ToSet(emptySession)' PROVE x # s /\ x \in ToSet(emptySession)
    <3>1. PICK i \in 1 .. n - 1 : x = emptySession[i]
      BY <1>3, <2>1, <2>3
    <3>2. i \in 1 .. n /\ n \in 1 .. n /\ i # n
      BY <1>4
    <3> QED
      BY <1>2, <1>5, <2>2, <3>1, <3>2
  <2>4. ASSUME NEW x \in ToSet(emptySession), x # s PROVE x \in ToSet(emptySession)'
    <3>1. PICK i \in 1 .. n : x = emptySession[i]
      BY <2>2, <2>4
    <3>2. i \in 1 .. n - 1
      BY <1>2, <1>4, <2>4, <3>1
    <3> QED
      BY <1>3, <2>1, <3>1, <3>2
  <2> QED
    BY <2>3, <2>4
<1>8. IsInjective(emptySession)'
  BY <1>3, <1>4, <1>5 DEF IsInjective
<1> QED
  BY <1>2, <1>3, <1>6, <1>7, <1>8 DEF n

\* The slot popped was free, and so nobody's.
LEMMA AcceptSlots ==
  ASSUME TypeOK', SlotsInv, Accept
  PROVE  Parted' /\ OneSender'
<1>1. /\ TypeOK /\ Parted /\ OneSender /\ Acceptor \in Threads
      /\ th[Acceptor].pc = "idle" /\ th[Acceptor].held = {}
      /\ emptySession \in Seq(Slots) /\ UNCHANGED Session
  BY AcceptorHolds, ConstantTypes DEF SlotsInv, RefsInv, Accept, At, TypeOK
<1>2. WorkSame
  <2>1. th[Acceptor].slot \in Slots
    BY <1>1, Typed
  <2> QED
    BY <1>1, <2>1, WorkKept
<1>3. PICK c \in Conns :
        \/ Goto(Acceptor, "done") /\ UNCHANGED emptySession
        \/ /\ emptySession # <<>>
           /\ emptySession' = Front(emptySession)
           /\ th' = [th EXCEPT ![Acceptor].slot = Last(emptySession),
                               ![Acceptor].arg = c, ![Acceptor].pc = "TakeSlot"]
  BY DEF Accept
<1>4. CASE Goto(Acceptor, "done") /\ UNCHANGED emptySession
  <2>1. "done" \in Labels /\ "done" \notin Owning /\ "done" \notin Releasing /\ "done" \notin Sender
    BY DEF Labels, Owning, Releasing, Sender
  <2> QED
    BY <1>1, <1>2, <1>4, <2>1, GotoSlots
<1>5. CASE /\ emptySession # <<>>
           /\ emptySession' = Front(emptySession)
           /\ th' = [th EXCEPT ![Acceptor].slot = Last(emptySession),
                               ![Acceptor].arg = c, ![Acceptor].pc = "TakeSlot"]
  <2>1. PICK s \in Slots :
          /\ s = Last(emptySession) /\ s \in ToSet(emptySession)
          /\ ToSet(emptySession)' = ToSet(emptySession) \ {s}
          /\ ToSet(emptySession) \subseteq Slots /\ IsInjective(emptySession)'
    BY <1>1, <1>5, SlotPopped DEF Parted, FreeSlots
  <2>2. Moves(Acceptor, "TakeSlot", th[Acceptor].back, s, {})
    <3>1. "TakeSlot" \in Labels /\ c \in Ids
      BY ConstantTypes DEF Labels
    <3>2. th' = [th EXCEPT ![Acceptor].slot = s, ![Acceptor].arg = c, ![Acceptor].pc = "TakeSlot"]
      BY <1>5, <2>1
    <3>3. \A l \in Labels, x \in Slots, d \in Ids :
            th' = [th EXCEPT ![Acceptor].slot = x, ![Acceptor].arg = d, ![Acceptor].pc = l]
            => Moves(Acceptor, l, th[Acceptor].back, x, th[Acceptor].held)
      BY <1>1, ThreadMoves
    <3>4. Moves(Acceptor, "TakeSlot", th[Acceptor].back, s, th[Acceptor].held)
      BY <3>1, <3>2, <3>3
    <3> QED
      BY <1>1, <3>4
  <2>3. Quiet(s) /\ \A u \in Threads : ~Works(u, s)
    BY <1>1, <2>1 DEF Parted, FreeSlots
  <2>4. /\ \A x \in Slots : Quiet(x)' = Quiet(x) /\ InUse(x)' = InUse(x)
        /\ \A x \in Slots : Works(Acceptor, x)' => x = s
        /\ \A u \in Threads \ {Acceptor}, x \in Slots : Works(u, x)' = Works(u, x)
    BY <1>1, <2>2 DEF Quiet, InUse, Works, Moves, Alone
  <2>5. FreeSlots'
    <3>1. ASSUME NEW x \in ToSet(emptySession)'
          PROVE  Quiet(x)' /\ \A u \in Threads : ~Works(u, x)'
      <4>1. x \in Slots /\ x # s /\ Quiet(x) /\ \A u \in Threads : ~Works(u, x)
        BY <1>1, <2>1, <3>1 DEF Parted, FreeSlots
      <4> QED
        BY <2>4, <4>1
    <3> QED
      BY <2>1, <3>1 DEF FreeSlots
  <2>6. OwnedSlots'
    <3>1. Lone(Acceptor)'
      BY <2>2, <2>3, <2>4 DEF Lone, Moves
    <3>2. \A x \in Slots : Quiet(x) /\ ~Quiet(x)' => Works(Acceptor, x) /\ th[Acceptor].pc \notin Owning
      BY <2>4
    <3>3. \A x \in Slots : Works(Acceptor, x)' => \/ Works(Acceptor, x) \/ ~Quiet(x)
                                                  \/ \A v \in Threads : ~Works(v, x)
      BY <2>3, <2>4
    <3>4. ASSUME NEW u \in Threads \ {Acceptor} PROVE (th[u].pc \in Owning => Lone(u))'
      <4>1. OwnedSlots /\ Alone(Acceptor)
        BY <1>1, <2>2 DEF Parted, Moves
      <4> QED
        BY <1>1, <3>2, <3>3, <4>1, OwnersStay
    <3> QED
      BY <3>1, <3>4 DEF OwnedSlots
  <2>7. ClosingSlots'
    <3>1. ASSUME NEW u \in Threads, th'[u].pc \in Releasing PROVE u # Acceptor /\ th'[u] = th[u]
      BY <2>2, <3>1 DEF Moves, Alone, Releasing
    <3> QED
      BY <1>1, <3>1 DEF Parted, ClosingSlots, InUse
  <2>8. OneSender'
    <3>1. \A x \in Slots : Senders(x)' = Senders(x)
      BY <1>1, <2>2 DEF Senders, Moves, Alone, Sender
    <3> QED
      BY <1>1, <3>1 DEF OneSender, Senders
  <2> QED
    BY <2>5, <2>6, <2>7, <2>8 DEF Parted
<1> QED
  BY <1>3, <1>4, <1>5

LEMMA AcceptEndSlots ==
  ASSUME TypeOK', SlotsInv, AcceptEnd
  PROVE  Parted' /\ OneSender'
<1>1. /\ Acceptor \in Threads /\ TypeOK /\ th[Acceptor].slot \in Slots
      /\ UNCHANGED <<Session, emptySession>>
  BY ConstantTypes, Typed DEF SlotsInv, RefsInv, AcceptEnd, pool
<1>2. WorkSame
  BY <1>1, WorkKept
<1>3. Goto(Acceptor, "done") /\ "done" \in Labels
  BY DEF AcceptEnd, Step, Labels
<1>4. "done" \notin Owning /\ "done" \notin Releasing /\ "done" \notin Sender
  BY DEF Owning, Releasing, Sender
<1> QED
  BY <1>1, <1>2, <1>3, <1>4, GotoSlots

\* The steps that fill the slot in, SendFlag apart.
LEMMA FillSlots ==
  ASSUME Callers = {}, TypeOK', SlotsInv, TakeSlot \/ SetSock \/ SetID \/ SetUse
  PROVE  Parted' /\ OneSender'
<1> DEFINE s == th[Acceptor].slot
<1>1. /\ Acceptor \in Threads /\ TypeOK /\ s \in Slots /\ UNCHANGED emptySession
      /\ th[Acceptor].pc \in Owning
  BY ConstantTypes, Typed DEF SlotsInv, RefsInv, TakeSlot, SetSock, SetID, SetUse, pool,
     Step, At, Owning
<1>2. CASE TakeSlot
  <2>1. Take(Acceptor, "event", "SetSock") /\ "event" \in Kinds /\ Works(Acceptor, s)
    BY <1>1, <1>2 DEF TakeSlot, Kinds, Works
  <2> QED
    BY <1>1, <2>1, TakeSlots
<1>3. CASE SetSock \/ SetID \/ SetUse
  <2>1. PICK l \in {"SetID", "SetUse", "ResetFlag"} : Goto(Acceptor, l)
    BY <1>3 DEF SetSock, SetID, SetUse, Step
  <2>2. l \in Labels /\ l \notin Releasing /\ l \notin Sender
    BY DEF Labels, Releasing, Sender
  <2>3. WorkSame
    <3>1. CASE SetSock \/ SetUse
      BY <1>1, <3>1, WorkKept DEF SetSock, SetUse
    <3>2. CASE SetID
      <4>1. PICK c \in Conns : c = th[Acceptor].arg
        BY <3>2 DEF SlotsInv, RefsInv, Naming, Named, SetID, Step, At
      <4>2. c # NoConn
        BY ConstantTypes DEF Conns, NoConn
      <4>3. Session' = [Session EXCEPT ![s].SessionID = c]
        BY <3>2, <4>1 DEF SetID
      <4> HIDE DEF s
      <4> QED
        BY <1>1, <4>2, <4>3 DEF TypeOK, SessionType, WorkSame, OversSame, InUse
    <3> QED
      BY <1>3, <3>1, <3>2
  <2> QED
    BY <1>1, <2>1, <2>2, <2>3, GotoSlots
<1> QED
  BY <1>2, <1>3

\* The flag left by the session before is cleared while nobody sends.
LEMMA ResetFlagSlots ==
  ASSUME TypeOK', SlotsInv, ResetFlag
  PROVE  Parted' /\ OneSender'
<1>1. /\ Acceptor \in Threads /\ TypeOK /\ OneSender /\ Holding /\ UNCHANGED emptySession
      /\ th[Acceptor].slot \in Slots /\ th[Acceptor].pc = "ResetFlag" /\ Goto(Acceptor, "Join")
  BY ConstantTypes, Typed DEF SlotsInv, RefsInv, ResetFlag, Step, At
<1>2. PICK s \in Slots : s = th[Acceptor].slot
  BY <1>1
<1>3. th[Acceptor].pc \in Owning /\ "Join" \in Labels \ Releasing /\ "Join" \notin Sender
  BY <1>1 DEF Owning, Labels, Releasing, Sender
<1>4. /\ Parted' /\ OversSame /\ Moves(Acceptor, "Join", th[Acceptor].back, s, th[Acceptor].held)
      /\ \A x \in Slots \ {s} : Session'[x].SendFlag = Session[x].SendFlag
  <2>1. Session' = [Session EXCEPT ![th[Acceptor].slot].SendFlag = FALSE] /\ FALSE \in BOOLEAN
    BY DEF ResetFlag
  <2> QED
    BY <1>1, <1>2, <1>3, <2>1, FlagSlots
<1>5. Lone(Acceptor)
  BY <1>1, <1>3 DEF SlotsInv, Parted, OwnedSlots
<1>6. \A x \in Slots : Senders(x)' = Senders(x)
  BY <1>1, <1>3, <1>4 DEF Senders, Moves, Alone, Sender
<1>7. Senders(s) = {} /\ Session[s].SendOver = <<>>
  <2>1. ASSUME NEW t \in Senders(s) PROVE FALSE
    <3>1. t \in Threads /\ th[t].slot = s /\ th[t].pc \in Sender /\ t # Acceptor
      BY <1>1, <2>1 DEF Senders, Sender
    <3>2. th[t].held # {}
      <4>1. Carries(t, th[t].pc, th[t].held)
        BY <1>1, <3>1 DEF Holding, HoldingOf, Where, Releasing, Sender
      <4> QED
        BY <3>1, <4>1 DEF Carries, Sender, Calling, Sending
    <3> QED
      BY <1>2, <1>5, <3>1, <3>2 DEF Lone, Works
  <2> QED
    BY <1>2, <1>5, <2>1 DEF Lone, Quiet
<1>8. ASSUME NEW x \in Slots
      PROVE  Cardinality(Senders(x)') + Len(Session'[x].SendOver) <= Flag(x)'
  <2>1. Session'[x].SendOver = Session[x].SendOver
    BY <1>4 DEF OversSame
  <2>2. CASE x = s
    <3>1. PICK none : none = {} /\ Cardinality(none) = 0
      BY FS_EmptySet
    <3>2. Senders(x)' = none /\ Len(Session'[x].SendOver) = 0
      BY <1>6, <1>7, <2>1, <2>2, <3>1
    <3>3. Flag(x)' \in {0, 1}
      BY DEF Flag
    <3> QED
      BY <3>1, <3>2, <3>3
  <2>3. CASE x # s
    <3>1. Flag(x)' = Flag(x)
      BY <1>4, <2>3 DEF Flag
    <3> QED
      BY <1>1, <1>6, <2>1, <3>1 DEF OneSender, Senders, Flag
  <2> QED
    BY <2>2, <2>3
<1> QED
  BY <1>4, <1>8 DEF OneSender, Senders, Flag

LEMMA JoinSlots ==
  ASSUME TypeOK', SlotsInv, Join
  PROVE  Parted' /\ OneSender'
<1>1. /\ TypeOK /\ HoldingOf(Acceptor) /\ NamingOf(Acceptor) /\ th[Acceptor].pc = "Join"
      /\ Acceptor \in Threads /\ Acceptor \notin Callers /\ th[Acceptor].slot \in Slots
      /\ UNCHANGED <<Session, emptySession>>
  BY ConstantTypes, ThreadsAssumption, Typed DEF SlotsInv, RefsInv, Holding, Naming, Join, At, pool
<1>2. WorkSame
  BY <1>1, WorkKept
<1>3. PICK s \in Slots : s = th[Acceptor].slot
  BY <1>1
<1>4. InUse(s)
  BY <1>1, <1>3 DEF HoldingOf, NamingOf, Where, Releasing, Carries
<1>5. PICK c \in Conns : c = Session[s].SessionID
  BY <1>4 DEF SlotsInv, RefsInv, Naming, Named
<1>6. CASE Call(Acceptor, c, <<c, 0>>)
  <2>1. <<c, 0>> \in Packets
    BY ConstantTypes, SizesAssumption DEF Packets
  <2> QED
    BY <1>1, <1>2, <1>6, <2>1, CallSlots
<1>7. CASE Goto(Acceptor, "PostRecv")
  <2>1. /\ "PostRecv" \in Labels /\ "PostRecv" \notin Owning
        /\ "PostRecv" \notin Releasing /\ "PostRecv" \notin Sender
    BY DEF Labels, Owning, Releasing, Sender
  <2> QED
    BY <1>1, <1>2, <1>7, <2>1, GotoSlots
<1>8. CASE th' = [th EXCEPT ![Acceptor].held = {}, ![Acceptor].back = "idle",
                            ![Acceptor].pc = "Release"]
  <2>1. Moves(Acceptor, "Release", "idle", th[Acceptor].slot, {})
    <3>1. {"Release", "idle"} \subseteq Labels /\ {} \in SUBSET Kinds
      BY DEF Labels
    <3>2. \A l, b \in Labels, x \in SUBSET Kinds :
            th' = [th EXCEPT ![Acceptor].held = x, ![Acceptor].back = b, ![Acceptor].pc = l]
            => Moves(Acceptor, l, b, th[Acceptor].slot, x)
      BY <1>1, ThreadMoves
    <3> QED
      BY <1>8, <3>1, <3>2
  <2>2. "Release" \notin Sender /\ th[Acceptor].pc \in Owning
    BY <1>1 DEF Sender, Owning
  <2>3. Lone(Acceptor) /\ Works(Acceptor, th[Acceptor].slot)
    BY <1>1, <2>2 DEF SlotsInv, Parted, OwnedSlots, Works
  <2> QED
    BY <1>1, <1>2, <1>3, <1>4, <2>1, <2>2, <2>3, OrdinaryStep
<1> QED
  BY <1>3, <1>5, <1>6, <1>7, <1>8 DEF Join

-----------------------------------------------------------------------------
(* The theorems *)

LEMMA CommonSlots ==
  ASSUME Callers = {}, TypeOK', SlotsInv, NEW t \in Threads, Common(t)
  PROVE  Parted' /\ OneSender'
<1>1. CASE EndPost(t) \/ EndPostEmpty(t) \/ EndCall(t) \/ EndEvent(t)
  BY <1>1, IODecrementSlots
<1>2. CASE SessionRelease(t)
  BY <1>2, SessionReleaseSlots, PushSlotSlots
<1>3. CASE Find(t)
  BY <1>3, FindSlots
<1>4. CASE FindUse(t) \/ FindID(t) \/ Disconnect(t)
  BY <1>4, FindLockSessionSlots
<1>5. CASE Enqueue(t) \/ FreeMsg(t)
  BY <1>5, EnqueueSlots
<1>6. CASE PostSend(t) \/ PostRecv(t)
  BY <1>6, PostSlots
<1>7. CASE SetFlag(t) \/ ClearFlag(t)
  BY <1>7, SetFlagSlots
<1>8. CASE Dequeue(t)
  BY <1>8, DequeueSlots
<1>9. CASE WSASend(t)
  BY <1>9, WSASendSlots
<1>10. CASE WSARecv(t)
  BY <1>10, WSARecvSlots
<1> QED
  BY <1>1, <1>2, <1>3, <1>4, <1>5, <1>6, <1>7, <1>8, <1>9, <1>10 DEF Common

LEMMA StepSlots == Callers = {} /\ SlotsInv /\ [Next]_vars => SlotsInv'
<1> SUFFICES ASSUME Callers = {}, SlotsInv, [Next]_vars PROVE SlotsInv'
  OBVIOUS
<1>1. TypeOK' /\ RefsInv'
  BY StepTypeOK, StepRefs DEF SlotsInv, RefsInv
<1>2. CASE \E t \in Threads : Common(t)
  BY <1>1, <1>2, CommonSlots DEF SlotsInv
<1>3. CASE AcceptThread
  BY <1>1, <1>3, AcceptSlots, AcceptEndSlots, FillSlots, ResetFlagSlots, JoinSlots
     DEF AcceptThread, SlotsInv
<1>4. CASE \E w \in Workers : WorkerThread(w)
  BY <1>1, <1>4, CompletionsSlots, WorkerStepsSlots, FreeSentSlots, ParseSlots
     DEF WorkerThread, SlotsInv
<1>5. CASE Stop \/ UNCHANGED vars \/ \E c \in Conns : Client(c)
  BY <1>1, <1>5, OutsideSlots DEF SlotsInv
<1> QED
  BY <1>2, <1>3, <1>4, <1>5 DEF Next

LEMMA InitSlots == Init => SlotsInv
<1> SUFFICES ASSUME Init PROVE SlotsInv
  OBVIOUS
<1>1. RefsInv
  BY InitRefs
<1>2. /\ \A s \in Slots : Session[s] = NewSession
      /\ \A t \in Threads : th[t] = NewThread
      /\ emptySession = [i \in 1 .. SessionMax |-> i - 1]
  BY DEF Init
<1>3. \A s \in Slots : Quiet(s) /\ ~Session[s].SendFlag
  BY <1>2 DEF Quiet, NewSession
<1>4. \A t \in Threads : th[t].pc = "idle" /\ th[t].held = {}
  BY <1>2 DEF NewThread
<1>5. FreeSlots
  <2>1. IsInjective(emptySession)
    BY <1>2, SizesAssumption DEF IsInjective
  <2>2. ToSet(emptySession) \subseteq Slots
    BY <1>1 DEF RefsInv, TypeOK, ToSet
  <2>3. \A t \in Threads, s \in Slots : ~Works(t, s)
    BY <1>4 DEF Works, Owning, Releasing
  <2> QED
    BY <1>3, <2>1, <2>2, <2>3 DEF FreeSlots
<1>6. OwnedSlots /\ ClosingSlots
  BY <1>4 DEF OwnedSlots, ClosingSlots, Owning, Releasing
<1>7. OneSender
  <2>1. ASSUME NEW s \in Slots
        PROVE  Cardinality(Senders(s)) + Len(Session[s].SendOver) <= Flag(s)
    <3>1. PICK none : none = {} /\ Cardinality(none) = 0
      BY FS_EmptySet
    <3>2. Senders(s) = none /\ Session[s].SendOver = <<>> /\ Flag(s) = 0
      BY <1>3, <1>4, <3>1 DEF Senders, Sender, Quiet, Flag
    <3> QED
      BY <3>1, <3>2
  <2> QED
    BY <2>1 DEF OneSender, Senders, Flag
<1> QED
  BY <1>1, <1>5, <1>6, <1>7 DEF SlotsInv, Parted

\* Without an application thread that keeps an id, threads share a slot only while
\* it is neither filled in nor released, and SendFlag lets one sender in.
THEOREM SlotsInvariant == Callers = {} => (Spec => []SlotsInv)
<1>1. ASSUME Callers = {} PROVE SlotsInv /\ [Next]_vars => SlotsInv'
  BY <1>1, StepSlots
<1>2. ASSUME Callers = {} PROVE Spec => []SlotsInv
  BY <1>1, <1>2, InitSlots, PTL DEF Spec
<1> QED
  BY <1>2

\* An owner is alone with its slot: a slot that is being released has no reference left.
LEMMA SlotsInvReleases == SlotsInv => ReleasedAlone
<1> SUFFICES ASSUME SlotsInv, NEW t \in Threads, th[t].pc \in Releasing
             PROVE  /\ References(th[t].slot) = 0
                    /\ \A u \in Threads \ {t} : th[u].pc \in Releasing => th[u].slot # th[t].slot
  BY DEF ReleasedAlone
<1>1. PICK s \in Slots : s = th[t].slot
  BY Typed DEF SlotsInv, RefsInv
<1>2. Lone(t) /\ th[t].back = "idle" /\ HoldingOf(t)
  BY DEF SlotsInv, RefsInv, Holding, Parted, OwnedSlots, ClosingSlots, Owning
<1>3. th[t].held = {}
  <2>1. th[t].held \in SUBSET Kinds
    BY Typed, ThreadFields DEF SlotsInv, RefsInv
  <2> QED
    BY <1>2, <2>1 DEF HoldingOf, Where, Carries, Posting, Calling, Sending, Kinds
<1>4. Holds(s) = {}
  BY <1>1, <1>2, <1>3 DEF Holds, Lone, Works
<1>5. References(s) = 0
  <2>1. PICK none : none = {} /\ Cardinality(none) = 0
    BY FS_EmptySet
  <2>2. Holds(s) = none /\ Len(Session[s].RecvOver) = 0 /\ Len(Session[s].SendOver) = 0
    BY <1>1, <1>2, <1>4, <2>1 DEF Lone, Quiet
  <2> QED
    BY <2>1, <2>2 DEF References
<1>6. \A u \in Threads \ {t} : th[u].pc \in Releasing => th[u].slot # th[t].slot
  BY <1>2 DEF Lone, Works, Owning
<1> QED
  BY <1>1, <1>5, <1>6

\* While a thread releases a slot nothing else refers to it.
THEOREM SlotReleasedAlone == Callers = {} => (Spec => []ReleasedAlone)
<1>1. ASSUME Callers = {} PROVE Spec => []ReleasedAlone
  <2>1. Spec => []SlotsInv
    BY <1>1, SlotsInvariant
  <2> QED
    BY <2>1, SlotsInvReleases, PTL
<1> QED
  BY <1>1

\* At most one WSASend of a session is put together, outstanding or cleaned up after.
THEOREM SessionHasOneSender == Callers = {} => (Spec => []OneSender)
<1>1. ASSUME Callers = {} PROVE Spec => []OneSender
  <2>1. Spec => []SlotsInv
    BY <1>1, SlotsInvariant
  <2>2. SlotsInv => OneSender
    BY DEF SlotsInv
  <2> QED
    BY <2>1, <2>2, PTL
<1> QED
  BY <1>1

-----------------------------------------------------------------------------
(* Every slot is accounted for *)

\* Where a thread has no session, or one whose UseFlag is not set yet.
Idling == {"idle", "done", "TakeSlot", "SetSock", "SetID", "SetUse"}

\* Where a thread has a slot that no reference is counted in, and where it has one
\* that _Use_Session_Cnt does not count.
Preparing == Releasing \cup {"TakeSlot"}
Going == Filling \cup {"PushSlot"}

\* A session that is worked on, or has operations outstanding, is marked in use: so a
\* release goes on, although its InterlockedCompareExchange64 stores nothing.
UsedSlots ==
  /\ \A t \in Threads : th[t].pc \notin Idling => Session[th[t].slot].UseFlag
  /\ \A s \in Slots : ~Quiet(s) => Session[s].UseFlag

Unused(s) == \/ s \in ToSet(emptySession)
             \/ \E t \in Threads : th[t].slot = s /\ th[t].pc \in Preparing

\* Nothing is counted in a slot that is free, taken or being released, and in no other.
ZeroCounts == \A s \in Slots : Session[s].IOCount = 0 <=> Unused(s)

SlotsCounted == UseSessionCnt = SessionMax - Len(emptySession) - Cardinality(Moving)

Accounts == UsedSlots /\ ZeroCounts /\ SlotsCounted

AccountsInv == SlotsInv /\ Accounts

LEMMA UsedStep ==
  ASSUME TypeOK, UsedSlots, NEW t \in Threads, Alone(t),
         \A x \in Slots : Session[x].UseFlag => Session'[x].UseFlag,
         \A x \in Slots : Quiet(x) /\ ~Quiet(x)' => Session'[x].UseFlag,
         th'[t].pc \notin Idling => Session'[th'[t].slot].UseFlag
  PROVE  UsedSlots'
<1>1. ASSUME NEW u \in Threads, th'[u].pc \notin Idling
      PROVE  Session'[th'[u].slot].UseFlag
  <2>1. CASE u = t
    BY <1>1, <2>1
  <2>2. CASE u # t
    <3>1. th'[u] = th[u] /\ th[u].slot \in Slots
      BY <2>2, Typed DEF Alone
    <3> QED
      BY <1>1, <3>1 DEF UsedSlots
  <2> QED
    BY <2>1, <2>2
<1>2. ASSUME NEW x \in Slots, ~Quiet(x)'
      PROVE  Session'[x].UseFlag
  BY <1>2 DEF UsedSlots
<1> QED
  BY <1>1, <1>2 DEF UsedSlots

\* A thread takes a slot out of the count, or puts it back, as it goes.
OnItsWay(t) == IF th[t].pc \in Going THEN 1 ELSE 0

LEMMA CountStep ==
  ASSUME TypeOK, TypeOK', SlotsCounted, NEW t \in Threads, Alone(t),
         UseSessionCnt' + Len(emptySession') + OnItsWay(t)'
           = UseSessionCnt + Len(emptySession) + OnItsWay(t)
  PROVE  SlotsCounted'
<1> DEFINE n    == Cardinality(Moving \ {t})
           len  == Len(emptySession)
           len2 == Len(emptySession')
<1>1. Moving' \ {t} = Moving \ {t}
  BY DEF Moving, Alone
<1>2. Cardinality(Moving) = n + OnItsWay(t)
  <2>1. Moving \in SUBSET Threads /\ (t \in Moving <=> th[t].pc \in Going)
    BY DEF Moving, Going
  <2>2. Cardinality(Moving) = n + (IF t \in Moving THEN 1 ELSE 0)
    BY <2>1, CountSplit
  <2> QED
    BY <2>1, <2>2 DEF OnItsWay
<1>3. Cardinality(Moving') = n + OnItsWay(t)'
  <2>1. Moving' \in SUBSET Threads /\ (t \in Moving' <=> th'[t].pc \in Going)
    BY DEF Moving, Going
  <2>2. Cardinality(Moving') = Cardinality(Moving' \ {t}) + (IF t \in Moving' THEN 1 ELSE 0)
    BY <2>1, CountSplit
  <2> QED
    BY <1>1, <2>1, <2>2 DEF OnItsWay
<1>4. n \in Nat /\ len \in Nat /\ len2 \in Nat
  <2>1. Moving \ {t} \in SUBSET Threads
    BY DEF Moving
  <2> QED
    BY <2>1, SendersFinite DEF TypeOK
<1>5. /\ UseSessionCnt \in Int /\ UseSessionCnt' \in Int /\ SessionMax \in Int
      /\ OnItsWay(t) \in Int /\ OnItsWay(t)' \in Int
  BY SizesAssumption DEF TypeOK, OnItsWay
<1>6. UseSessionCnt = SessionMax - len - Cardinality(Moving)
  BY DEF SlotsCounted
<1>7. UseSessionCnt' + len2 + OnItsWay(t)' = UseSessionCnt + len + OnItsWay(t)
  OBVIOUS
<1> HIDE DEF n, len, len2
<1>8. UseSessionCnt' = SessionMax - len2 - Cardinality(Moving')
  <2>1. \A m, m2, c, c2, o, o2 \in Int :
          /\ m = n + o /\ m2 = n + o2 /\ c = SessionMax - len - m
          /\ c2 + len2 + o2 = c + len + o
          => c2 = SessionMax - len2 - m2
    BY ONLY <1>4, <1>5
  <2>2. Cardinality(Moving) \in Int /\ Cardinality(Moving') \in Int
    BY ONLY <1>2, <1>3, <1>4, <1>5
  <2> QED
    BY ONLY <1>2, <1>3, <1>5, <1>6, <1>7, <2>1, <2>2
<1> QED
  BY <1>8 DEF SlotsCounted, len2

\* What is free, taken or released is so by a thread or by emptySession.
LEMMA UnusedKept ==
  ASSUME NEW t \in Threads, Alone(t), NEW s \in Slots,
         s \in ToSet(emptySession') <=> s \in ToSet(emptySession),
         th'[t].slot = s /\ th'[t].pc \in Preparing <=> th[t].slot = s /\ th[t].pc \in Preparing
  PROVE  Unused(s)' <=> Unused(s)
<1>1. \A u \in Threads : th'[u].slot = s /\ th'[u].pc \in Preparing
                         <=> th[u].slot = s /\ th[u].pc \in Preparing
  BY DEF Alone
<1>2. ToSet(emptySession)' = ToSet(emptySession')
  OBVIOUS
<1> QED
  BY <1>1, <1>2 DEF Unused

-----------------------------------------------------------------------------
(* Steps that leave IOCount, UseFlag and the free slots alone *)

FieldsSame == \A s \in Slots : /\ Session'[s].IOCount = Session[s].IOCount
                               /\ Session'[s].UseFlag = Session[s].UseFlag

OnlyAt(s) == \A x \in Slots \ {s} : Session'[x] = Session[x]

LEMMA FieldsKept ==
  ASSUME TypeOK, NEW s \in Slots
  PROVE  /\ UNCHANGED Session => FieldsSame /\ OnlyAt(s)
         /\ \A x : Session' = [Session EXCEPT ![s].sock = x] => FieldsSame /\ OnlyAt(s)
         /\ \A x : Session' = [Session EXCEPT ![s].SessionID = x] => FieldsSame /\ OnlyAt(s)
         /\ \A x : Session' = [Session EXCEPT ![s].SendFlag = x] => FieldsSame /\ OnlyAt(s)
         /\ \A x : Session' = [Session EXCEPT ![s].SendQ = x] => FieldsSame /\ OnlyAt(s)
         /\ \A x : Session' = [Session EXCEPT ![s].SendPack = x] => FieldsSame /\ OnlyAt(s)
         /\ \A x, y : Session' = [Session EXCEPT ![s].SendQ = x, ![s].SendPack = y]
                        => FieldsSame /\ OnlyAt(s)
         /\ \A x : Session' = [Session EXCEPT ![s].RecvQ = x] => FieldsSame /\ OnlyAt(s)
         /\ \A x : Session' = [Session EXCEPT ![s].RecvOver = x] => FieldsSame /\ OnlyAt(s)
         /\ \A x, y : Session' = [Session EXCEPT ![s].RecvOver = x, ![s].RecvQ = y]
                        => FieldsSame /\ OnlyAt(s)
         /\ \A x : Session' = [Session EXCEPT ![s].SendOver = x] => FieldsSame /\ OnlyAt(s)
<1>0. Session \in [Slots -> SessionType]
  BY DEF TypeOK
<1>1. UNCHANGED Session => FieldsSame /\ OnlyAt(s)
  BY DEF FieldsSame, OnlyAt
<1>2. \A x : Session' = [Session EXCEPT ![s].sock = x] => FieldsSame /\ OnlyAt(s)
  BY <1>0 DEF SessionType, FieldsSame, OnlyAt
<1>3. \A x : Session' = [Session EXCEPT ![s].SessionID = x] => FieldsSame /\ OnlyAt(s)
  BY <1>0 DEF SessionType, FieldsSame, OnlyAt
<1>4. \A x : Session' = [Session EXCEPT ![s].SendFlag = x] => FieldsSame /\ OnlyAt(s)
  BY <1>0 DEF SessionType, FieldsSame, OnlyAt
<1>5. \A x : Session' = [Session EXCEPT ![s].SendQ = x] => FieldsSame /\ OnlyAt(s)
  BY <1>0 DEF SessionType, FieldsSame, OnlyAt
<1>6. \A x : Session' = [Session EXCEPT ![s].SendPack = x] => FieldsSame /\ OnlyAt(s)
  BY <1>0 DEF SessionType, FieldsSame, OnlyAt
<1>7. \A x, y : Session' = [Session EXCEPT ![s].SendQ = x, ![s].SendPack = y]
                  => FieldsSame /\ OnlyAt(s)
  BY <1>0 DEF SessionType, FieldsSame, OnlyAt
<1>8. \A x : Session' = [Session EXCEPT ![s].RecvQ = x] => FieldsSame /\ OnlyAt(s)
  BY <1>0 DEF SessionType, FieldsSame, OnlyAt
<1>9. \A x : Session' = [Session EXCEPT ![s].RecvOver = x] => FieldsSame /\ OnlyAt(s)
  BY <1>0 DEF SessionType, FieldsSame, OnlyAt
<1>10. \A x, y : Session' = [Session EXCEPT ![s].RecvOver = x, ![s].RecvQ = y]
                   => FieldsSame /\ OnlyAt(s)
  BY <1>0 DEF SessionType, FieldsSame, OnlyAt
<1>11. \A x : Session' = [Session EXCEPT ![s].SendOver = x] => FieldsSame /\ OnlyAt(s)
  BY <1>0 DEF SessionType, FieldsSame, OnlyAt
<1> QED
  BY <1>1, <1>2, <1>3, <1>4, <1>5, <1>6, <1>7, <1>8, <1>9, <1>10, <1>11

\* Thread t goes on at l, on the slot it works on.
Stays(t, l) == Alone(t) /\ th'[t].slot = th[t].slot /\ th'[t].pc = l

LEMMA ThreadStays ==
  ASSUME TypeOK, NEW t \in Threads
  PROVE  /\ UNCHANGED th => Stays(t, th[t].pc)
         /\ \A l : Goto(t, l) => Stays(t, l)
         /\ \A x, l : th' = [th EXCEPT ![t].held = x, ![t].pc = l] => Stays(t, l)
         /\ \A x, y, l : th' = [th EXCEPT ![t].held = x, ![t].back = y, ![t].pc = l]
                           => Stays(t, l)
         /\ \A x, y, l : th' = [th EXCEPT ![t].msg = x, ![t].arg = y, ![t].pc = l]
                           => Stays(t, l)
         /\ \A x, y : Call(t, x, y) => Stays(t, "Find")
         /\ \A x : th' = [th EXCEPT ![t].batch = x] => Stays(t, th[t].pc)
         /\ \A x, l : th' = [th EXCEPT ![t].batch = x, ![t].pc = l] => Stays(t, l)
         /\ \A x, y, l : th' = [th EXCEPT ![t].batch = x, ![t].held = y, ![t].pc = l]
                           => Stays(t, l)
<1>0. th \in [Threads -> ThreadType]
  BY DEF TypeOK
<1>1. UNCHANGED th => Stays(t, th[t].pc)
  BY DEF Stays, Alone
<1>2. \A l : Goto(t, l) => Stays(t, l)
  BY <1>0 DEF ThreadType, Goto, Stays, Alone
<1>3. \A x, l : th' = [th EXCEPT ![t].held = x, ![t].pc = l] => Stays(t, l)
  BY <1>0 DEF ThreadType, Stays, Alone
<1>4. \A x, y, l : th' = [th EXCEPT ![t].held = x, ![t].back = y, ![t].pc = l] => Stays(t, l)
  BY <1>0 DEF ThreadType, Stays, Alone
<1>5. \A x, y, l : th' = [th EXCEPT ![t].msg = x, ![t].arg = y, ![t].pc = l] => Stays(t, l)
  BY <1>0 DEF ThreadType, Stays, Alone
<1>6. \A x, y : Call(t, x, y) => Stays(t, "Find")
  BY <1>0 DEF ThreadType, Call, Stays, Alone
<1>7. \A x : th' = [th EXCEPT ![t].batch = x] => Stays(t, th[t].pc)
  BY <1>0 DEF ThreadType, Stays, Alone
<1>8. \A x, l : th' = [th EXCEPT ![t].batch = x, ![t].pc = l] => Stays(t, l)
  BY <1>0 DEF ThreadType, Stays, Alone
<1>9. \A x, y, l : th' = [th EXCEPT ![t].batch = x, ![t].held = y, ![t].pc = l] => Stays(t, l)
  BY <1>0 DEF ThreadType, Stays, Alone
<1> QED
  BY <1>1, <1>2, <1>3, <1>4, <1>5, <1>6, <1>7, <1>8, <1>9

LEMMA StayAccounts ==
  ASSUME TypeOK', AccountsInv, FieldsSame, UNCHANGED pool,
         NEW t \in Threads, NEW l, Stays(t, l), OnlyAt(th[t].slot),
         th[t].pc \in Idling => l \in Idling /\ \A x \in Slots : Quiet(x) => Quiet(x)',
         l \in Preparing <=> th[t].pc \in Preparing,
         l \in Going <=> th[t].pc \in Going
  PROVE  Accounts'
<1>1. /\ TypeOK /\ Accounts /\ Alone(t) /\ th'[t].slot = th[t].slot /\ th'[t].pc = l
      /\ UNCHANGED <<emptySession, UseSessionCnt>>
  BY DEF AccountsInv, SlotsInv, RefsInv, Stays, pool
<1>2. PICK s \in Slots : s = th[t].slot
  BY <1>1, Typed
<1>3. UsedSlots'
  <2>1. \A x \in Slots : Session[x].UseFlag => Session'[x].UseFlag
    BY DEF FieldsSame
  <2>2. th[t].pc \notin Idling => Session[s].UseFlag
    BY <1>1, <1>2 DEF Accounts, UsedSlots
  <2>3. ASSUME NEW x \in Slots, Quiet(x), ~Quiet(x)' PROVE Session'[x].UseFlag
    <3>1. x = s /\ th[t].pc \notin Idling
      BY <1>2, <2>3 DEF OnlyAt, Quiet
    <3> QED
      BY <2>1, <2>2, <3>1
  <2>4. th'[t].pc \notin Idling => Session'[th'[t].slot].UseFlag
    BY <1>1, <1>2, <2>1, <2>2
  <2> QED
    BY <1>1, <2>1, <2>3, <2>4, UsedStep DEF Accounts
<1>4. ZeroCounts'
  <2>1. ASSUME NEW x \in Slots PROVE Unused(x)' <=> Unused(x)
    BY <1>1, UnusedKept
  <2> QED
    BY <1>1, <2>1 DEF Accounts, ZeroCounts, FieldsSame
<1>5. SlotsCounted'
  <2>1. OnItsWay(t)' = OnItsWay(t)
    BY <1>1 DEF OnItsWay
  <2> QED
    BY <1>1, <2>1, CountStep DEF Accounts
<1> QED
  BY <1>3, <1>4, <1>5 DEF Accounts

LEMMA PlainAccounts ==
  ASSUME TypeOK', AccountsInv, FieldsSame, UNCHANGED pool,
         NEW t \in Threads, NEW l, Stays(t, l), OnlyAt(th[t].slot),
         th[t].pc \notin Idling \cup Preparing \cup Going, l \notin Preparing \cup Going
  PROVE  Accounts'
BY StayAccounts

LEMMA FindLockSessionAccounts ==
  ASSUME TypeOK', AccountsInv, NEW t \in Threads,
         FindUse(t) \/ FindID(t) \/ Disconnect(t) \/ FreeMsg(t)
  PROVE  Accounts'
<1>1. /\ TypeOK /\ th[t].slot \in Slots /\ UNCHANGED pool /\ UNCHANGED Session
      /\ th[t].pc \in {"FindUse", "FindID", "Disconnect", "FreeMsg"}
  BY Typed DEF AccountsInv, SlotsInv, RefsInv, FindUse, FindID, Disconnect, FreeMsg, Step, At
<1>2. FieldsSame /\ OnlyAt(th[t].slot)
  BY <1>1, FieldsKept
<1>3. th[t].pc \notin Idling \cup Preparing \cup Going
  BY <1>1 DEF Idling, Preparing, Releasing, Going, Filling
<1>4. PICK l \in {"FindID", "EndCall", "Disconnect", "Enqueue", "PostRecv", "Parse", "idle"} :
        Stays(t, l)
  <2>1. CASE FindUse(t) \/ FindID(t) \/ Disconnect(t)
    <3>1. PICK l \in {"FindID", "EndCall", "Disconnect", "Enqueue"} : Goto(t, l)
      BY <2>1 DEF FindUse, FindID, Disconnect, Step
    <3> QED
      BY <1>1, <3>1, ThreadStays
  <2>2. CASE FreeMsg(t)
    <3>1. PICK l \in {"PostRecv", "Parse", "idle"} : l = AfterCall(t)
      BY DEF AfterCall
    <3>2. th' = [th EXCEPT ![t].msg = NoPack, ![t].arg = NoConn, ![t].pc = l]
      BY <2>2, <3>1 DEF FreeMsg
    <3>3. Stays(t, l)
      BY <1>1, <3>2, ThreadStays
    <3> QED
      BY <3>3
  <2> QED
    BY <2>1, <2>2
<1>5. l \notin Preparing \cup Going
  BY DEF Preparing, Releasing, Going, Filling
<1> QED
  BY <1>1, <1>2, <1>3, <1>4, <1>5, PlainAccounts

LEMMA SendAccounts ==
  ASSUME TypeOK', AccountsInv, NEW t \in Threads,
         Enqueue(t) \/ SetFlag(t) \/ ClearFlag(t) \/ Dequeue(t)
  PROVE  Accounts'
<1>1. /\ TypeOK /\ th[t].slot \in Slots /\ UNCHANGED pool
      /\ th[t].pc \in {"Enqueue", "SetFlag", "ClearFlag", "Dequeue"}
  BY Typed DEF AccountsInv, SlotsInv, RefsInv, Enqueue, SetFlag, ClearFlag, Dequeue, Step, At
<1>2. FieldsSame /\ OnlyAt(th[t].slot)
  <2> DEFINE s == th[t].slot
  <2>1. CASE Enqueue(t)
    <3>1. \/ UNCHANGED Session
          \/ \E x : Session' = [Session EXCEPT ![s].SendQ = x]
      BY <2>1 DEF Enqueue
    <3> QED
      BY <1>1, <3>1, FieldsKept
  <2>2. CASE SetFlag(t) \/ ClearFlag(t)
    <3>1. \E x : Session' = [Session EXCEPT ![s].SendFlag = x]
      BY <2>2 DEF SetFlag, ClearFlag
    <3> QED
      BY <1>1, <3>1, FieldsKept
  <2>3. CASE Dequeue(t)
    <3>1. \/ UNCHANGED Session
          \/ \E x : Session' = [Session EXCEPT ![s].SendQ = x]
          \/ \E x, y : Session' = [Session EXCEPT ![s].SendQ = x, ![s].SendPack = y]
      BY <2>3 DEF Dequeue
    <3> QED
      BY <1>1, <3>1, FieldsKept
  <2> QED
    BY <2>1, <2>2, <2>3
<1>3. th[t].pc \notin Idling \cup Preparing \cup Going
  BY <1>1 DEF Idling, Preparing, Releasing, Going, Filling
<1>4. PICK l \in {"PostSend", "FreeMsg", "EndPost", "Dequeue", "EndCall", "EndEvent",
                  "EndPostEmpty", "WSASend"} : Stays(t, l)
  <2>1. CASE Enqueue(t)
    <3>1. \/ Goto(t, "PostSend")
          \/ \E x : th' = [th EXCEPT ![t].held = x, ![t].pc = "FreeMsg"]
      BY <2>1 DEF Enqueue
    <3> QED
      BY <1>1, <3>1, ThreadStays
  <2>2. CASE SetFlag(t) \/ ClearFlag(t)
    <3>1. PICK l \in {"EndPost", "Dequeue", "EndCall", "EndEvent"} : Goto(t, l)
      BY <2>2 DEF SetFlag, ClearFlag, Step, AfterPost
    <3> QED
      BY <1>1, <3>1, ThreadStays
  <2>3. CASE Dequeue(t)
    <3>1. \/ \E l \in {"EndPostEmpty", "WSASend"} : Goto(t, l)
          \/ \E x : th' = [th EXCEPT ![t].batch = x]
      BY <2>3 DEF Dequeue
    <3>2. th[t].pc = "Dequeue"
      BY <2>3 DEF Dequeue, At
    <3> QED
      BY <1>1, <3>1, <3>2, ThreadStays
  <2> QED
    BY <2>1, <2>2, <2>3
<1>5. l \notin Preparing \cup Going
  BY DEF Preparing, Releasing, Going, Filling
<1> QED
  BY <1>1, <1>2, <1>3, <1>4, <1>5, PlainAccounts

\* An operation is posted on a session that is in use, by the thread that works on it.
LEMMA PostedAccounts ==
  ASSUME TypeOK', AccountsInv, NEW t \in Threads, WSASend(t) \/ WSARecv(t)
  PROVE  Accounts'
<1>1. /\ TypeOK /\ th[t].slot \in Slots /\ UNCHANGED pool
      /\ th[t].pc \in {"WSASend", "WSARecv"}
  BY Typed DEF AccountsInv, SlotsInv, RefsInv, WSASend, WSARecv, At
<1>2. FieldsSame /\ OnlyAt(th[t].slot)
  <2>1. \/ UNCHANGED Session
        \/ \E x : Session' = [Session EXCEPT ![th[t].slot].SendOver = x]
        \/ \E x : Session' = [Session EXCEPT ![th[t].slot].RecvOver = x]
    BY DEF WSASend, WSARecv
  <2> QED
    BY <1>1, <2>1, FieldsKept
<1>3. th[t].pc \notin Idling \cup Preparing \cup Going
  BY <1>1 DEF Idling, Preparing, Releasing, Going, Filling
<1>4. PICK l \in {"EndCall", "EndEvent", "EndPost"} : Stays(t, l)
  <2>1. PICK l \in {"EndCall", "EndEvent"} : l = AfterPost(t)
    BY DEF AfterPost
  <2>2. CASE WSASend(t)
    <3>1. PICK h : h = th[t].held \ {"post"}
      OBVIOUS
    <3>2. \/ th' = [th EXCEPT ![t].batch = <<>>, ![t].held = h, ![t].pc = AfterPost(t)]
          \/ th' = [th EXCEPT ![t].batch = <<>>, ![t].pc = "EndPost"]
      BY <2>2, <3>1 DEF WSASend
    <3>3. ASSUME th' = [th EXCEPT ![t].batch = <<>>, ![t].held = h, ![t].pc = AfterPost(t)]
          PROVE  Stays(t, l)
      <4>1. th' = [th EXCEPT ![t].batch = <<>>, ![t].held = h, ![t].pc = l]
        BY <2>1, <3>3
      <4> QED
        BY <1>1, <4>1, ThreadStays
    <3>4. ASSUME th' = [th EXCEPT ![t].batch = <<>>, ![t].pc = "EndPost"]
          PROVE  Stays(t, "EndPost")
      BY <1>1, <3>4, ThreadStays
    <3> QED
      BY <3>2, <3>3, <3>4
  <2>3. CASE WSARecv(t)
    <3>1. \/ \E x : th' = [th EXCEPT ![t].held = x, ![t].pc = "EndEvent"]
          \/ Goto(t, "EndPost")
      BY <2>3 DEF WSARecv
    <3> QED
      BY <1>1, <3>1, ThreadStays
  <2> QED
    BY <2>2, <2>3
<1>5. l \notin Preparing \cup Going
  BY DEF Preparing, Releasing, Going, Filling
<1> QED
  BY <1>1, <1>2, <1>3, <1>4, <1>5, PlainAccounts

LEMMA WorkerAccounts ==
  ASSUME TypeOK', AccountsInv, NEW w \in Workers,
         Zero(w) \/ Parse(w) \/ FreeSent(w) \/ Recheck(w)
  PROVE  Accounts'
<1>1. /\ TypeOK /\ w \in Threads /\ th[w].slot \in Slots /\ UNCHANGED pool
      /\ th[w].pc \in {"Zero", "Parse", "FreeSent", "Recheck"}
  BY ConstantTypes, Typed
     DEF AccountsInv, SlotsInv, RefsInv, Zero, Parse, FreeSent, Recheck, Step, At
<1>2. FieldsSame /\ OnlyAt(th[w].slot)
  <2>1. \/ UNCHANGED Session
        \/ \E x : Session' = [Session EXCEPT ![th[w].slot].RecvQ = x]
        \/ \E x : Session' = [Session EXCEPT ![th[w].slot].SendPack = x]
        \/ \E x : Session' = [Session EXCEPT ![th[w].slot].SendFlag = x]
    BY DEF Zero, Parse, FreeSent, Recheck
  <2> QED
    BY <1>1, <2>1, FieldsKept
<1>3. th[w].pc \notin Idling \cup Preparing \cup Going
  BY <1>1 DEF Idling, Preparing, Releasing, Going, Filling
<1>4. PICK l \in {"EndEvent", "PostSend", "PostRecv", "Recheck", "Find", "Parse", "FreeSent"} :
        Stays(w, l)
  <2>1. CASE Zero(w) \/ Recheck(w)
    <3>1. PICK l \in {"EndEvent", "PostSend"} : Goto(w, l)
      BY <2>1 DEF Zero, Recheck, Step
    <3> QED
      BY <1>1, <3>1, ThreadStays
  <2>2. CASE Parse(w)
    <3>1. UNCHANGED th \/ Goto(w, "PostRecv") \/ \E x, y : Call(w, x, y)
      BY <2>2 DEF Parse
    <3>2. th[w].pc = "Parse"
      BY <2>2 DEF Parse, At
    <3> QED
      BY <1>1, <3>1, <3>2, ThreadStays
  <2>3. CASE FreeSent(w)
    <3>1. UNCHANGED th \/ Goto(w, "Recheck")
      BY <2>3 DEF FreeSent
    <3>2. th[w].pc = "FreeSent"
      BY <2>3 DEF FreeSent, At
    <3> QED
      BY <1>1, <3>1, <3>2, ThreadStays
  <2> QED
    BY <2>1, <2>2, <2>3
<1>5. l \notin Preparing \cup Going
  BY DEF Preparing, Releasing, Going, Filling
<1> QED
  BY <1>1, <1>2, <1>3, <1>4, <1>5, PlainAccounts

-----------------------------------------------------------------------------
(* SessionRelease *)

\* The session is marked in use, so Release never turns back.
LEMMA SessionReleaseAccounts ==
  ASSUME TypeOK', AccountsInv, NEW t \in Threads, SessionRelease(t), ~PushSlot(t), ~DrainPack(t)
  PROVE  Accounts'
<1> DEFINE s == th[t].slot
<1>1. /\ TypeOK /\ s \in Slots /\ UNCHANGED pool
      /\ th[t].pc \in Releasing \ {"PushSlot"}
  BY Typed DEF AccountsInv, SlotsInv, RefsInv, SessionRelease, Release, Leave, Close, DrainQ,
     Step, At, Releasing
<1>2. FieldsSame /\ OnlyAt(s)
  <2>1. \/ UNCHANGED Session
        \/ \E x : Session' = [Session EXCEPT ![s].RecvQ = x]
        \/ \E x : Session' = [Session EXCEPT ![s].SendQ = x]
    BY DEF SessionRelease, Release, Leave, Close, DrainQ
  <2> QED
    BY <1>1, <2>1, FieldsKept
<1>3. PICK l \in Releasing \ {"PushSlot"} : Stays(t, l)
  <2>1. CASE Release(t)
    <3>1. Session[s].UseFlag
      BY <1>1, <2>1 DEF AccountsInv, Accounts, UsedSlots, Release, Step, At, Idling
    <3>2. Goto(t, "Leave") /\ "Leave" \in Releasing \ {"PushSlot"}
      BY <2>1, <3>1 DEF Release, Step, Releasing
    <3> QED
      BY <1>1, <3>2, ThreadStays
  <2>2. CASE Leave(t) \/ Close(t)
    <3>1. PICK l \in {"Close", "DrainQ"} : Goto(t, l)
      BY <2>2 DEF Leave, Close, Step
    <3>2. l \in Releasing \ {"PushSlot"}
      BY DEF Releasing
    <3> QED
      BY <1>1, <3>1, <3>2, ThreadStays
  <2>3. CASE DrainQ(t)
    <3>1. (UNCHANGED th /\ th[t].pc = "DrainQ") \/ Goto(t, "DrainPack")
      BY <2>3 DEF DrainQ, Step, At
    <3>2. {"DrainQ", "DrainPack"} \subseteq Releasing \ {"PushSlot"}
      BY DEF Releasing
    <3> QED
      BY <1>1, <3>1, <3>2, ThreadStays
  <2> QED
    BY <2>1, <2>2, <2>3 DEF SessionRelease
<1>4. /\ th[t].pc \notin Idling \cup Going /\ l \notin Going
      /\ th[t].pc \in Preparing /\ l \in Preparing
  BY <1>1 DEF Idling, Preparing, Releasing, Going, Filling
<1> QED
  BY <1>1, <1>2, <1>3, <1>4, StayAccounts

\* _Use_Session_Cnt is lowered as the thread goes to put the slot back.
LEMMA DrainPackAccounts ==
  ASSUME TypeOK', AccountsInv, NEW t \in Threads, DrainPack(t)
  PROVE  Accounts'
<1>1. /\ TypeOK /\ Accounts /\ th[t].pc = "DrainPack" /\ UNCHANGED emptySession
  BY DEF AccountsInv, SlotsInv, RefsInv, DrainPack, At, Step
<1>2. PICK s \in Slots : s = th[t].slot
  BY <1>1, Typed
<1>3. CASE UNCHANGED <<UseSessionCnt, th>> /\ \E x : Session' = [Session EXCEPT ![s].SendPack = x]
  <2>1. FieldsSame /\ OnlyAt(s) /\ Stays(t, th[t].pc) /\ UNCHANGED pool
    BY <1>1, <1>3, FieldsKept, ThreadStays DEF pool
  <2>2. th[t].pc \notin Idling
    BY <1>1 DEF Idling
  <2> QED
    BY <1>2, <2>1, <2>2, StayAccounts
<1>4. CASE /\ Goto(t, "PushSlot") /\ UseSessionCnt' = UseSessionCnt - 1 /\ UNCHANGED Session
  <2>1. Stays(t, "PushSlot")
    BY <1>1, <1>4, ThreadStays
  <2>2. Alone(t) /\ th'[t].slot = s /\ th'[t].pc = "PushSlot"
    BY <1>2, <2>1 DEF Stays
  <2>3. UsedSlots'
    <3>1. Session[s].UseFlag
      BY <1>1, <1>2 DEF Accounts, UsedSlots, Idling
    <3> QED
      BY <1>1, <1>4, <2>2, <3>1, UsedStep DEF Accounts, Quiet
  <2>4. ZeroCounts'
    <3>1. th[t].pc \in Preparing /\ "PushSlot" \in Preparing
      BY <1>1 DEF Preparing, Releasing
    <3>2. ASSUME NEW x \in Slots PROVE Unused(x)' <=> Unused(x)
      BY <1>1, <1>2, <2>2, <3>1, UnusedKept
    <3> QED
      BY <1>1, <1>4, <3>2 DEF Accounts, ZeroCounts
  <2>5. SlotsCounted'
    <3>1. OnItsWay(t) = 0 /\ OnItsWay(t)' = 1
      BY <1>1, <2>2 DEF OnItsWay, Going, Filling
    <3>2. UseSessionCnt \in Int /\ Len(emptySession) \in Int
      BY <1>1 DEF TypeOK
    <3>3. UseSessionCnt' + Len(emptySession') + OnItsWay(t)'
            = UseSessionCnt + Len(emptySession) + OnItsWay(t)
      BY <1>1, <1>4, <3>1, <3>2
    <3> QED
      BY <1>1, <2>2, <3>3, CountStep DEF Accounts
  <2> QED
    BY <2>3, <2>4, <2>5 DEF Accounts
<1> QED
  BY <1>2, <1>3, <1>4 DEF DrainPack, Step

\* The slot put back is the one the thread has released.
LEMMA PushSlotAccounts ==
  ASSUME TypeOK', AccountsInv, NEW t \in Threads, PushSlot(t)
  PROVE  Accounts'
<1>1. /\ TypeOK /\ Accounts /\ th[t].pc = "PushSlot" /\ th[t].back = "idle"
      /\ InUse(th[t].slot) /\ Lone(t) /\ emptySession \in Seq(Slots)
      /\ UNCHANGED <<Session, UseSessionCnt>>
  BY DEF AccountsInv, SlotsInv, RefsInv, Parted, OwnedSlots, ClosingSlots,
     PushSlot, Step, At, Owning, Releasing, TypeOK
<1>2. PICK s \in Slots : s = th[t].slot
  BY <1>1, Typed
<1>3. emptySession' = Append(emptySession, s)
  BY <1>1, <1>2 DEF AccountsInv, SlotsInv, RefsInv, Naming, Named, PushSlot
<1>4. Alone(t) /\ th'[t].slot = s /\ th'[t].pc = "idle"
  <2>1. Goto(t, "idle")
    BY <1>1 DEF PushSlot, Step
  <2>2. Stays(t, "idle")
    BY <1>1, <2>1, ThreadStays
  <2> QED
    BY <1>2, <2>2 DEF Stays
<1>5. UsedSlots'
  BY <1>1, <1>4, UsedStep DEF Accounts, Quiet, Idling
<1>6. ZeroCounts'
  <2>1. ToSet(emptySession') = ToSet(emptySession) \cup {s}
    <3>1. /\ Len(emptySession) \in Nat
          /\ DOMAIN emptySession = 1 .. Len(emptySession)
          /\ DOMAIN emptySession' = 1 .. Len(emptySession) + 1
          /\ \A i \in 1 .. Len(emptySession) : emptySession'[i] = emptySession[i]
          /\ emptySession'[Len(emptySession) + 1] = s
      BY <1>1, <1>3
    <3> QED
      BY <3>1 DEF ToSet
  <2>2. ASSUME NEW x \in Slots PROVE Unused(x)' <=> Unused(x)
    <3>1. CASE x = s
      <4>1. th[t].pc \in Preparing
        BY <1>1 DEF Preparing, Releasing
      <4> QED
        BY <1>2, <2>1, <3>1, <4>1 DEF Unused
    <3>2. CASE x # s
      <4>1. x \in ToSet(emptySession') <=> x \in ToSet(emptySession)
        BY <2>1, <3>2
      <4> QED
        BY <1>2, <1>4, <3>2, <4>1, UnusedKept
    <3> QED
      BY <3>1, <3>2
  <2> QED
    BY <1>1, <2>2 DEF Accounts, ZeroCounts
<1>7. SlotsCounted'
  <2>1. OnItsWay(t) = 1 /\ OnItsWay(t)' = 0
    BY <1>1, <1>4 DEF OnItsWay, Going, Filling
  <2>2. UseSessionCnt \in Int /\ Len(emptySession) \in Int /\ Len(emptySession') = Len(emptySession) + 1
    BY <1>1, <1>3 DEF TypeOK
  <2>3. UseSessionCnt' + Len(emptySession') + OnItsWay(t)'
          = UseSessionCnt + Len(emptySession) + OnItsWay(t)
    BY <1>1, <2>1, <2>2
  <2> QED
    BY <1>1, <1>4, <2>3, CountStep DEF Accounts
<1> QED
  BY <1>5, <1>6, <1>7 DEF Accounts

-----------------------------------------------------------------------------
(* References taken and given back *)

\* A step of one thread that counts in one slot.
LEMMA OneCounted ==
  ASSUME TypeOK, Accounts, NEW t \in Threads, NEW s \in Slots, Alone(t),
         th[t].slot = s, th'[t].slot = s, OnlyAt(s), UNCHANGED emptySession,
         Session'[s].IOCount = 0 <=> Unused(s)'
  PROVE  ZeroCounts'
<1>1. ASSUME NEW x \in Slots \ {s} PROVE Session'[x].IOCount = 0 <=> Unused(x)'
  <2>1. Unused(x)' <=> Unused(x)
    BY <1>1, UnusedKept
  <2>2. Session'[x] = Session[x]
    BY <1>1 DEF OnlyAt
  <2> QED
    BY <2>1, <2>2 DEF Accounts, ZeroCounts
<1> QED
  BY <1>1 DEF ZeroCounts

\* The thread still works on the slot, or nobody does.
LEMMA WorkedOn ==
  ASSUME Parted, NEW t \in Threads, NEW s \in Slots, Works(t, s), Alone(t),
         th[t].pc \notin Releasing, th[t].pc = "TakeSlot" => Lone(t),
         th'[t].pc \notin Preparing, UNCHANGED emptySession
  PROVE  ~Unused(s)'
<1>1. s \notin ToSet(emptySession)
  BY DEF Parted, FreeSlots
<1>2. ASSUME NEW u \in Threads \ {t}, th[u].slot = s, th[u].pc \in Preparing PROVE FALSE
  <2>1. Lone(u)
    BY <1>2 DEF Parted, OwnedSlots, Owning, Preparing
  <2> QED
    BY <1>2, <2>1 DEF Lone
<1> QED
  BY <1>1, <1>2 DEF Unused, Alone

LEMMA CountsUp ==
  ASSUME TypeOK, NEW s \in Slots,
         Session' = [Session EXCEPT ![s].IOCount = Session[s].IOCount + 1]
  PROVE  /\ OnlyAt(s) /\ Session'[s].IOCount = Session[s].IOCount + 1
         /\ \A x \in Slots : Session'[x].UseFlag = Session[x].UseFlag /\ Quiet(x)' = Quiet(x)
         /\ Session[s].IOCount \in Int
<1>1. Session \in [Slots -> SessionType] /\ Session[s].IOCount \in Int
  BY SessionNumbers DEF TypeOK
<1> QED
  BY <1>1 DEF SessionType, OnlyAt, Quiet

\* A reference is taken by a thread that has one, or has the slot for itself.
LEMMA TakenAccounts ==
  ASSUME TypeOK', AccountsInv, NEW t \in Threads, NEW s \in Slots, NEW l, Stays(t, l),
         th[t].slot = s, UNCHANGED pool,
         Session' = [Session EXCEPT ![s].IOCount = Session[s].IOCount + 1],
         Works(t, s), th[t].pc \notin Releasing, l \notin Preparing,
         l \in Going <=> th[t].pc \in Going, th[t].pc \in Idling => l \in Idling
  PROVE  Accounts'
<1>1. /\ TypeOK /\ Accounts /\ Parted /\ RefsInv /\ Alone(t) /\ th'[t].slot = s /\ th'[t].pc = l
      /\ UNCHANGED <<emptySession, UseSessionCnt>>
  BY DEF AccountsInv, SlotsInv, RefsInv, Stays, pool
<1>2. /\ OnlyAt(s) /\ Session'[s].IOCount = Session[s].IOCount + 1
      /\ \A x \in Slots : Session'[x].UseFlag = Session[x].UseFlag /\ Quiet(x)' = Quiet(x)
  BY <1>1, CountsUp
<1>3. UsedSlots'
  <2>1. l \notin Idling => Session[s].UseFlag
    BY <1>1 DEF Accounts, UsedSlots
  <2> QED
    BY <1>1, <1>2, <2>1, UsedStep DEF Accounts
<1>4. ZeroCounts'
  <2>1. ~Unused(s)'
    <3>1. th[t].pc = "TakeSlot" => Lone(t)
      BY <1>1 DEF Parted, OwnedSlots, Owning
    <3> QED
      BY <1>1, <3>1, WorkedOn
  <2>2. Session'[s].IOCount # 0
    <3> DEFINE io == Session[s].IOCount
               n  == Cardinality(Holds(s))
               a  == Len(Session[s].RecvOver)
               b  == Len(Session[s].SendOver)
    <3>1. io >= n + a + b
      BY <1>1 DEF RefsInv, RefsCovered, References
    <3>2. n \in Nat
      BY KindsFinite, FS_Subset, FS_CardinalityType DEF Holds
    <3>3. io \in Int /\ a \in Nat /\ b \in Nat
      BY <1>1, SessionNumbers DEF TypeOK
    <3>4. Session'[s].IOCount = io + 1
      BY <1>2
    <3> HIDE DEF io, n, a, b
    <3> QED
      BY <3>1, <3>2, <3>3, <3>4
  <2> QED
    BY <1>1, <1>2, <2>1, <2>2, OneCounted
<1>5. SlotsCounted'
  <2>1. OnItsWay(t)' = OnItsWay(t)
    BY <1>1 DEF OnItsWay
  <2> QED
    BY <1>1, <2>1, CountStep DEF Accounts
<1> QED
  BY <1>3, <1>4, <1>5 DEF Accounts

LEMMA TakeAccounts ==
  ASSUME Callers = {}, TypeOK', AccountsInv, NEW t \in Threads,
         PostSend(t) \/ PostRecv(t) \/ (t = Acceptor /\ TakeSlot)
  PROVE  Accounts'
<1>1. /\ TypeOK /\ HoldingOf(t) /\ UNCHANGED pool
      /\ th[t].pc \in {"PostSend", "PostRecv", "TakeSlot"}
  BY DEF AccountsInv, SlotsInv, RefsInv, Holding, PostSend, PostRecv, TakeSlot, At
<1>2. PICK s \in Slots : s = th[t].slot
  BY <1>1, Typed
<1>3. PICK k \in Kinds, l \in {"SetFlag", "WSARecv", "SetSock"} :
        Take(t, k, l) /\ (l = "SetSock" <=> th[t].pc = "TakeSlot")
  BY DEF PostSend, PostRecv, TakeSlot, At, Kinds
<1>4. Session' = [Session EXCEPT ![s].IOCount = Session[s].IOCount + 1]
  BY <1>2, <1>3 DEF Take
<1>5. Stays(t, l)
  <2>1. PICK h : th' = [th EXCEPT ![t].held = h, ![t].pc = l]
    BY <1>3 DEF Take
  <2> QED
    BY <1>1, <2>1, ThreadStays
<1>6. Works(t, s)
  <2>1. CASE th[t].pc = "TakeSlot"
    BY <1>2, <2>1 DEF Works, Owning
  <2>2. CASE th[t].pc \in {"PostSend", "PostRecv"}
    <3>1. "event" \in th[t].held
      BY <1>1, <2>2 DEF HoldingOf, Where, Releasing, Carries
    <3> QED
      BY <1>2, <3>1 DEF Works
  <2> QED
    BY <1>1, <2>1, <2>2
<1>7. /\ th[t].pc \notin Releasing /\ l \notin Preparing
      /\ (l \in Going <=> th[t].pc \in Going) /\ (th[t].pc \in Idling => l \in Idling)
  BY <1>1, <1>3 DEF Preparing, Releasing, Going, Filling, Idling
<1> QED
  BY <1>1, <1>2, <1>4, <1>5, <1>6, <1>7, TakenAccounts

LEMMA FindAccounts ==
  ASSUME Callers = {}, TypeOK', AccountsInv, NEW t \in Threads, Find(t)
  PROVE  Accounts'
<1>1. HoldingOf(t) /\ NamingOf(t) /\ TypeOK /\ th[t].pc = "Find" /\ UNCHANGED pool
  BY DEF AccountsInv, SlotsInv, RefsInv, Holding, Naming, Find, At
<1>2. PICK s \in Slots : s = th[t].slot
  BY <1>1, Typed
<1>3. net[th[t].arg].index = s
  BY <1>1, <1>2 DEF NamingOf, Named
<1>4. Session' = [Session EXCEPT ![s].IOCount = Session[s].IOCount + 1]
  BY <1>3 DEF Find
<1>5. PICK l \in {"EndCall", "FindUse"} : Stays(t, l)
  <2>1. PICK l \in {"EndCall", "FindUse"} :
          \E h : th' = [th EXCEPT ![t].slot = s, ![t].held = h, ![t].pc = l]
    BY <1>3 DEF Find
  <2>2. Stays(t, l)
    BY <1>1, <1>2, <2>1 DEF TypeOK, ThreadType, Stays, Alone
  <2> QED
    BY <2>2
<1>6. Works(t, s)
  BY <1>1, <1>2 DEF Works, HoldingOf, Where, Releasing, Carries
<1>7. /\ th[t].pc \notin Releasing \cup Idling \cup Going
      /\ l \notin Preparing \cup Going
  BY <1>1 DEF Preparing, Releasing, Going, Filling, Idling
<1> QED
  BY <1>1, <1>2, <1>4, <1>5, <1>6, <1>7, TakenAccounts

\* The last IODecrement goes on into SessionRelease, no other leaves the slot unused.
LEMMA IODecrementAccounts ==
  ASSUME Callers = {}, TypeOK', NoCrash', AccountsInv, NEW t \in Threads,
         EndPost(t) \/ EndPostEmpty(t) \/ EndCall(t) \/ EndEvent(t)
  PROVE  Accounts'
<1> DEFINE h == th[t].held
<1>1. /\ HoldingOf(t) /\ TypeOK /\ Accounts /\ Parted
      /\ th[t].pc \in {"EndPost", "EndPostEmpty", "EndCall", "EndEvent"}
  BY DEF AccountsInv, SlotsInv, RefsInv, Holding, EndPost, EndPostEmpty, EndCall, EndEvent, At
<1>2. PICK k \in Kinds, l \in Ends : IODecrement(t, k, l)
  <2>1. {"EndCall", "EndEvent", "ClearFlag", "FreeMsg", "idle"} \subseteq Ends
    BY DEF Ends
  <2>2. AfterPost(t) \in {"EndCall", "EndEvent"}
    BY DEF AfterPost
  <2> QED
    BY <2>1, <2>2 DEF EndPost, EndPostEmpty, EndCall, EndEvent, Kinds
<1>3. PICK s \in Slots : s = th[t].slot
  BY <1>1, Typed
<1> DEFINE count == Session[s].IOCount
           l2 == IF count = 1 THEN "Release" ELSE l
<1>4. /\ Session' = [Session EXCEPT ![s].IOCount = count - 1]
      /\ ~(count - 1 < 0) /\ UNCHANGED <<emptySession, UseSessionCnt>>
  BY <1>2, <1>3 DEF IODecrement, NoCrash, pool
<1>5. /\ OnlyAt(s) /\ Session'[s].IOCount = count - 1 /\ count \in Int
      /\ \A x \in Slots : Session'[x].UseFlag = Session[x].UseFlag /\ Quiet(x)' = Quiet(x)
  <2>1. Session \in [Slots -> SessionType] /\ count \in Int
    BY <1>1, SessionNumbers DEF TypeOK
  <2> HIDE DEF count
  <2> QED
    BY <1>4, <2>1 DEF SessionType, OnlyAt, Quiet
<1>6. Alone(t) /\ th'[t].slot = s /\ th'[t].pc = l2
  <2>1. PICK x, y : th' = [th EXCEPT ![t].held = x, ![t].back = y, ![t].pc = l2]
    BY <1>2, <1>3 DEF IODecrement
  <2> HIDE DEF l2
  <2>2. Stays(t, l2)
    BY <1>1, <2>1, ThreadStays
  <2> QED
    BY <1>3, <2>2 DEF Stays
<1>7. UsedSlots'
  <2>1. Session[s].UseFlag
    BY <1>1, <1>3 DEF Accounts, UsedSlots, Idling
  <2> QED
    BY <1>1, <1>5, <1>6, <2>1, UsedStep DEF Accounts
<1>8. ZeroCounts'
  <2>1. Session'[s].IOCount = 0 <=> Unused(s)'
    <3>1. CASE count = 1
      <4>1. th'[t].pc \in Preparing
        BY <1>6, <3>1 DEF Preparing, Releasing
      <4> QED
        BY <1>5, <1>6, <3>1, <4>1 DEF Unused
    <3>2. CASE count # 1
      <4>1. Session'[s].IOCount # 0
        BY <1>5, <3>2
      <4>2. Works(t, s)
        BY <1>1, <1>3 DEF Works, HoldingOf, Where, Releasing, Carries
      <4>3. th[t].pc \notin Preparing /\ th'[t].pc \notin Preparing
        BY <1>1, <1>6, <3>2 DEF Preparing, Releasing, Ends
      <4>4. th[t].pc \notin Releasing /\ th[t].pc # "TakeSlot"
        BY <4>3 DEF Preparing
      <4>5. ~Unused(s)'
        BY <1>1, <1>4, <1>6, <4>2, <4>3, <4>4, WorkedOn
      <4> QED
        BY <4>1, <4>5
    <3> QED
      BY <3>1, <3>2
  <2> QED
    BY <1>1, <1>3, <1>4, <1>5, <1>6, <2>1, OneCounted
<1>9. SlotsCounted'
  <2>1. OnItsWay(t) = 0 /\ OnItsWay(t)' = 0
    BY <1>1, <1>6 DEF OnItsWay, Going, Filling, Ends
  <2> QED
    BY <1>1, <1>4, <1>6, <2>1, CountStep DEF Accounts
<1> QED
  BY <1>7, <1>8, <1>9 DEF Accounts

-----------------------------------------------------------------------------
(* Completions *)

\* The session of an operation that was outstanding is in use.
LEMMA CompletionsAccounts ==
  ASSUME TypeOK', AccountsInv, NEW w \in Workers, RecvDone(w) \/ SendDone(w) \/ ZeroDone(w)
  PROVE  Accounts'
<1>1. /\ TypeOK /\ Accounts /\ w \in Threads /\ UNCHANGED <<emptySession, UseSessionCnt>>
  BY ConstantTypes DEF AccountsInv, SlotsInv, RefsInv, RecvDone, SendDone, ZeroDone, pool
<1>2. PICK s \in Slots, l \in {"Parse", "FreeSent", "Zero"} :
        /\ Begin(w, s, l) /\ ~Quiet(s)
        /\ \/ \E x : Session' = [Session EXCEPT ![s].SendOver = x]
           \/ \E x : Session' = [Session EXCEPT ![s].RecvOver = x]
           \/ \E x, y : Session' = [Session EXCEPT ![s].RecvOver = x, ![s].RecvQ = y]
  <2>1. CASE RecvDone(w)
    <3> DEFINE Received(s, i, n) ==
                 LET c == Session[s].RecvOver[i] IN
                 /\ Begin(w, s, "Parse")
                 /\ Session' = [Session EXCEPT
                      ![s].RecvOver = RemoveAt(Session[s].RecvOver, i),
                      ![s].RecvQ = Session[s].RecvQ \o SubSeq(net[c].inbound, 1, n)]
                 /\ net' = [net EXCEPT
                      ![c].inbound = SubSeq(net[c].inbound, n + 1, Len(net[c].inbound))]
    <3>1. PICK s \in Slots : \E i \in DOMAIN Session[s].RecvOver : \E n \in 1 .. RecvMax :
            Received(s, i, n)
      BY <2>1 DEF RecvDone
    <3>2. PICK i \in DOMAIN Session[s].RecvOver : \E n \in 1 .. RecvMax : Received(s, i, n)
      BY <3>1
    <3>3. PICK n \in 1 .. RecvMax : Received(s, i, n)
      BY <3>2
    <3>4. /\ Begin(w, s, "Parse")
          /\ \E x, y : Session' = [Session EXCEPT ![s].RecvOver = x, ![s].RecvQ = y]
      BY <3>3
    <3>5. ~Quiet(s)
      BY <3>2 DEF Quiet
    <3> HIDE DEF Received
    <3> QED
      BY <3>4, <3>5
  <2>2. CASE SendDone(w)
    <3>1. PICK s \in Slots : \E i \in DOMAIN Session[s].SendOver :
            Begin(w, s, "FreeSent") /\ \E x : Session' = [Session EXCEPT ![s].SendOver = x]
      BY <2>2 DEF SendDone
    <3>2. ~Quiet(s)
      BY <3>1 DEF Quiet
    <3> QED
      BY <3>1, <3>2
  <2>3. CASE ZeroDone(w)
    <3>1. PICK s \in Slots :
            /\ Begin(w, s, "Zero")
            /\ \/ \E i \in DOMAIN Session[s].RecvOver : \E x :
                    Session' = [Session EXCEPT ![s].RecvOver = x]
               \/ \E i \in DOMAIN Session[s].SendOver : \E x :
                    Session' = [Session EXCEPT ![s].SendOver = x]
      BY <2>3 DEF ZeroDone
    <3>2. ~Quiet(s)
      BY <3>1 DEF Quiet
    <3> QED
      BY <3>1, <3>2
  <2> QED
    BY <2>1, <2>2, <2>3
<1>3. FieldsSame /\ OnlyAt(s)
  BY <1>1, <1>2, FieldsKept
<1>4. Alone(w) /\ th'[w].slot = s /\ th'[w].pc = l /\ th[w].pc = "idle"
  <2>1. th' = [th EXCEPT ![w].slot = s, ![w].held = {"event"}, ![w].pc = l] /\ th[w].pc = "idle"
    BY <1>2 DEF Begin, At
  <2> QED
    BY <1>1, <2>1 DEF TypeOK, ThreadType, Alone
<1>5. UsedSlots'
  <2>1. Session[s].UseFlag
    BY <1>1, <1>2 DEF Accounts, UsedSlots
  <2>2. \A x \in Slots : Session[x].UseFlag => Session'[x].UseFlag
    BY <1>3 DEF FieldsSame
  <2>3. \A x \in Slots : Quiet(x) /\ ~Quiet(x)' => Session'[x].UseFlag
    BY <1>3, <2>1, <2>2 DEF OnlyAt, Quiet
  <2> QED
    BY <1>1, <1>4, <2>1, <2>2, <2>3, UsedStep DEF Accounts
<1>6. ZeroCounts'
  <2>1. th[w].pc \notin Preparing /\ th'[w].pc \notin Preparing
    BY <1>4 DEF Preparing, Releasing
  <2>2. ASSUME NEW x \in Slots PROVE Unused(x)' <=> Unused(x)
    BY <1>1, <1>4, <2>1, UnusedKept
  <2> QED
    BY <1>1, <1>3, <2>2 DEF Accounts, ZeroCounts, FieldsSame
<1>7. SlotsCounted'
  <2>1. OnItsWay(w) = 0 /\ OnItsWay(w)' = 0
    BY <1>4 DEF OnItsWay, Going, Filling
  <2> QED
    BY <1>1, <1>4, <2>1, CountStep DEF Accounts
<1> QED
  BY <1>5, <1>6, <1>7 DEF Accounts

-----------------------------------------------------------------------------
(* AcceptThread *)

\* The slot taken from emptySession is filled in next.
LEMMA AcceptAccounts ==
  ASSUME TypeOK', AccountsInv, Accept
  PROVE  Accounts'
<1>1. /\ TypeOK /\ Accounts /\ Acceptor \in Threads /\ th[Acceptor].pc = "idle"
      /\ emptySession \in Seq(Slots) /\ IsInjective(emptySession)
      /\ UNCHANGED <<Session, UseSessionCnt>> /\ th[Acceptor].slot \in Slots
  BY ConstantTypes, Typed
     DEF AccountsInv, SlotsInv, RefsInv, Parted, FreeSlots, Accept, At, TypeOK
<1>2. CASE Goto(Acceptor, "done") /\ UNCHANGED emptySession
  <2>1. FieldsSame /\ OnlyAt(th[Acceptor].slot) /\ Stays(Acceptor, "done") /\ UNCHANGED pool
    BY <1>1, <1>2, FieldsKept, ThreadStays DEF pool
  <2>2. /\ "done" \in Idling /\ "done" \notin Preparing \cup Going
        /\ th[Acceptor].pc \notin Preparing \cup Going
    BY <1>1 DEF Idling, Preparing, Releasing, Going, Filling
  <2>3. \A x \in Slots : Quiet(x) => Quiet(x)'
    BY <1>1 DEF Quiet
  <2> QED
    BY <1>1, <2>1, <2>2, <2>3, StayAccounts
<1>3. CASE /\ emptySession # <<>> /\ emptySession' = Front(emptySession)
           /\ \E c \in Conns :
                th' = [th EXCEPT ![Acceptor].slot = Last(emptySession),
                                 ![Acceptor].arg = c, ![Acceptor].pc = "TakeSlot"]
  <2>1. PICK s \in Slots :
          /\ s = Last(emptySession) /\ s \in ToSet(emptySession)
          /\ ToSet(emptySession)' = ToSet(emptySession) \ {s}
          /\ Len(emptySession') = Len(emptySession) - 1
    BY <1>1, <1>3, SlotPopped
  <2>2. Alone(Acceptor) /\ th'[Acceptor].slot = s /\ th'[Acceptor].pc = "TakeSlot"
    <3>1. PICK c \in Conns :
            th' = [th EXCEPT ![Acceptor].slot = s, ![Acceptor].arg = c, ![Acceptor].pc = "TakeSlot"]
      BY <1>3, <2>1
    <3> QED
      BY <1>1, <3>1 DEF TypeOK, ThreadType, Alone
  <2>3. UsedSlots'
    BY <1>1, <2>2, UsedStep DEF Accounts, Quiet, Idling
  <2>4. ZeroCounts'
    <3>1. "TakeSlot" \in Preparing /\ th[Acceptor].pc \notin Preparing
      BY <1>1 DEF Preparing, Releasing
    <3>2. ASSUME NEW x \in Slots PROVE Unused(x)' <=> Unused(x)
      <4>1. CASE x = s
        BY <1>1, <2>1, <2>2, <3>1, <4>1 DEF Unused
      <4>2. CASE x # s
        <5>1. x \in ToSet(emptySession') <=> x \in ToSet(emptySession)
          BY <2>1, <4>2
        <5> QED
          BY <1>1, <2>2, <3>1, <4>2, <5>1, UnusedKept
      <4> QED
        BY <4>1, <4>2
    <3> QED
      BY <1>1, <3>2 DEF Accounts, ZeroCounts
  <2>5. SlotsCounted'
    <3>1. OnItsWay(Acceptor) = 0 /\ OnItsWay(Acceptor)' = 1
      BY <1>1, <2>2 DEF OnItsWay, Going, Filling
    <3>2. UseSessionCnt \in Int /\ Len(emptySession) \in Int
      BY <1>1 DEF TypeOK
    <3>3. UseSessionCnt' + Len(emptySession') + OnItsWay(Acceptor)'
            = UseSessionCnt + Len(emptySession) + OnItsWay(Acceptor)
      BY <1>1, <2>1, <3>1, <3>2
    <3> QED
      BY <1>1, <2>2, <3>3, CountStep DEF Accounts
  <2> QED
    BY <2>3, <2>4, <2>5 DEF Accounts
<1> QED
  BY <1>2, <1>3 DEF Accept

\* A thread that ends, and the fields written between TakeSlot and SetUse.
LEMMA FillAccounts ==
  ASSUME TypeOK', AccountsInv, NEW t \in Threads,
         \/ t = Acceptor /\ (AcceptEnd \/ SetSock \/ SetID)
         \/ Quit(t)
  PROVE  Accounts'
<1>1. /\ TypeOK /\ th[t].slot \in Slots /\ UNCHANGED pool
      /\ th[t].pc \in {"idle", "SetSock", "SetID"}
  BY Typed DEF AccountsInv, SlotsInv, RefsInv, AcceptEnd, SetSock, SetID, Quit, Step, At
<1>2. PICK l \in {"done", "SetID", "SetUse"} :
        Goto(t, l) /\ (l = "done" <=> th[t].pc = "idle")
  BY DEF AcceptEnd, SetSock, SetID, Quit, Step, At
<1>3. \/ UNCHANGED Session
      \/ \E x : Session' = [Session EXCEPT ![th[t].slot].sock = x]
      \/ \E x : Session' = [Session EXCEPT ![th[t].slot].SessionID = x]
  BY DEF AcceptEnd, SetSock, SetID, Quit
<1>4. FieldsSame /\ OnlyAt(th[t].slot) /\ Stays(t, l)
  BY <1>1, <1>2, <1>3, FieldsKept, ThreadStays
<1>5. \A x \in Slots : Quiet(x) => Quiet(x)'
  <2>1. PICK s \in Slots : s = th[t].slot
    BY <1>1
  <2>2. \/ UNCHANGED Session
        \/ \E x : Session' = [Session EXCEPT ![s].sock = x]
        \/ \E x : Session' = [Session EXCEPT ![s].SessionID = x]
    BY <1>3, <2>1
  <2>3. Session \in [Slots -> SessionType]
    BY <1>1 DEF TypeOK
  <2>4. \A y : Session' = [Session EXCEPT ![s].sock = y] => \A x \in Slots : Quiet(x) => Quiet(x)'
    BY <2>3 DEF SessionType, Quiet
  <2>5. \A y : Session' = [Session EXCEPT ![s].SessionID = y]
               => \A x \in Slots : Quiet(x) => Quiet(x)'
    BY <2>3 DEF SessionType, Quiet
  <2>6. UNCHANGED Session => \A x \in Slots : Quiet(x) => Quiet(x)'
    BY DEF Quiet
  <2> QED
    BY <2>2, <2>4, <2>5, <2>6
<1>6. /\ l \in Idling /\ l \notin Preparing /\ th[t].pc \notin Preparing
      /\ l \in Going <=> th[t].pc \in Going
  BY <1>1, <1>2 DEF Idling, Preparing, Releasing, Going, Filling
<1> QED
  BY <1>1, <1>4, <1>5, <1>6, StayAccounts

LEMMA SetUseAccounts ==
  ASSUME TypeOK', AccountsInv, SetUse
  PROVE  Accounts'
<1>1. /\ TypeOK /\ Accounts /\ Acceptor \in Threads /\ th[Acceptor].pc = "SetUse"
      /\ UNCHANGED <<emptySession, UseSessionCnt>> /\ Goto(Acceptor, "ResetFlag")
  BY ConstantTypes DEF AccountsInv, SlotsInv, RefsInv, SetUse, Step, At, pool
<1>2. PICK s \in Slots : s = th[Acceptor].slot
  BY <1>1, Typed
<1>3. /\ \A x \in Slots : /\ Session'[x].IOCount = Session[x].IOCount
                          /\ Quiet(x)' = Quiet(x)
                          /\ Session[x].UseFlag => Session'[x].UseFlag
      /\ Session'[s].UseFlag
  <2>1. Session' = [Session EXCEPT ![s].UseFlag = TRUE] /\ Session \in [Slots -> SessionType]
    BY <1>1, <1>2 DEF SetUse, TypeOK
  <2> QED
    BY <2>1 DEF SessionType, Quiet
<1>4. Alone(Acceptor) /\ th'[Acceptor].slot = s /\ th'[Acceptor].pc = "ResetFlag"
  <2>1. Stays(Acceptor, "ResetFlag")
    BY <1>1, ThreadStays
  <2> QED
    BY <1>2, <2>1 DEF Stays
<1>5. UsedSlots'
  BY <1>1, <1>3, <1>4, UsedStep DEF Accounts
<1>6. ZeroCounts'
  <2>1. th[Acceptor].pc \notin Preparing /\ th'[Acceptor].pc \notin Preparing
    BY <1>1, <1>4 DEF Preparing, Releasing
  <2>2. ASSUME NEW x \in Slots PROVE Unused(x)' <=> Unused(x)
    BY <1>1, <1>4, <2>1, UnusedKept
  <2> QED
    BY <1>1, <1>3, <2>2 DEF Accounts, ZeroCounts
<1>7. SlotsCounted'
  <2>1. OnItsWay(Acceptor) = 1 /\ OnItsWay(Acceptor)' = 1
    BY <1>1, <1>4 DEF OnItsWay, Going, Filling
  <2> QED
    BY <1>1, <1>4, <2>1, CountStep DEF Accounts
<1> QED
  BY <1>5, <1>6, <1>7 DEF Accounts

LEMMA ResetFlagAccounts ==
  ASSUME TypeOK', AccountsInv, ResetFlag
  PROVE  Accounts'
<1>1. /\ TypeOK /\ Accounts /\ Acceptor \in Threads /\ th[Acceptor].pc = "ResetFlag"
      /\ UNCHANGED emptySession /\ UseSessionCnt' = UseSessionCnt + 1 /\ Goto(Acceptor, "Join")
  BY ConstantTypes DEF AccountsInv, SlotsInv, RefsInv, ResetFlag, Step, At
<1>2. PICK s \in Slots : s = th[Acceptor].slot
  BY <1>1, Typed
<1>3. /\ \A x \in Slots : /\ Session'[x].IOCount = Session[x].IOCount
                          /\ Quiet(x)' = Quiet(x)
                          /\ Session'[x].UseFlag = Session[x].UseFlag
  <2>1. Session' = [Session EXCEPT ![s].SendFlag = FALSE] /\ Session \in [Slots -> SessionType]
    BY <1>1, <1>2 DEF ResetFlag, TypeOK
  <2> QED
    BY <2>1 DEF SessionType, Quiet
<1>4. Alone(Acceptor) /\ th'[Acceptor].slot = s /\ th'[Acceptor].pc = "Join"
  <2>1. Stays(Acceptor, "Join")
    BY <1>1, ThreadStays
  <2> QED
    BY <1>2, <2>1 DEF Stays
<1>5. UsedSlots'
  <2>1. Session[s].UseFlag
    BY <1>1, <1>2 DEF Accounts, UsedSlots, Idling
  <2> QED
    BY <1>1, <1>3, <1>4, <2>1, UsedStep DEF Accounts
<1>6. ZeroCounts'
  <2>1. th[Acceptor].pc \notin Preparing /\ th'[Acceptor].pc \notin Preparing
    BY <1>1, <1>4 DEF Preparing, Releasing
  <2>2. ASSUME NEW x \in Slots PROVE Unused(x)' <=> Unused(x)
    BY <1>1, <1>4, <2>1, UnusedKept
  <2> QED
    BY <1>1, <1>3, <2>2 DEF Accounts, ZeroCounts
<1>7. SlotsCounted'
  <2>1. OnItsWay(Acceptor) = 1 /\ OnItsWay(Acceptor)' = 0
    BY <1>1, <1>4 DEF OnItsWay, Going, Filling
  <2>2. UseSessionCnt \in Int /\ Len(emptySession) \in Int
    BY <1>1 DEF TypeOK
  <2>3. UseSessionCnt' + Len(emptySession') + OnItsWay(Acceptor)'
          = UseSessionCnt + Len(emptySession) + OnItsWay(Acceptor)
    BY <1>1, <2>1, <2>2
  <2> QED
    BY <1>1, <1>4, <2>3, CountStep DEF Accounts
<1> QED
  BY <1>5, <1>6, <1>7 DEF Accounts

\* A connection that is not refused keeps its slot.
LEMMA JoinAccounts ==
  ASSUME "reject" \notin OnJoin, TypeOK', AccountsInv, Join
  PROVE  Accounts'
<1>1. /\ TypeOK /\ Acceptor \in Threads /\ th[Acceptor].pc = "Join"
      /\ th[Acceptor].slot \in Slots /\ UNCHANGED pool /\ UNCHANGED Session
  BY ConstantTypes, Typed DEF AccountsInv, SlotsInv, RefsInv, Join, At
<1>2. FieldsSame /\ OnlyAt(th[Acceptor].slot)
  BY <1>1, FieldsKept
<1>3. PICK l \in {"Find", "PostRecv"} : Stays(Acceptor, l)
  <2>1. Goto(Acceptor, "PostRecv") \/ \E x, y : Call(Acceptor, x, y)
    BY DEF Join
  <2> QED
    BY <1>1, <2>1, ThreadStays
<1>4. th[Acceptor].pc \notin Idling \cup Preparing \cup Going /\ l \notin Preparing \cup Going
  BY <1>1 DEF Idling, Preparing, Releasing, Going, Filling
<1> QED
  BY <1>1, <1>2, <1>3, <1>4, PlainAccounts

LEMMA OutsideAccounts ==
  ASSUME TypeOK', AccountsInv, Stop \/ UNCHANGED vars \/ \E c \in Conns : Client(c)
  PROVE  Accounts'
<1>1. UNCHANGED <<Session, th, emptySession, UseSessionCnt>>
  BY DEF Stop, StopListen, StopShut, StopQuit, StopWait, Client, PeerSend, PeerClose, vars, pool
<1>2. ToSet(emptySession)' = ToSet(emptySession) /\ Moving' = Moving
  BY <1>1 DEF ToSet, Moving
<1> QED
  BY <1>1, <1>2 DEF AccountsInv, Accounts, UsedSlots, ZeroCounts, SlotsCounted, Unused, Quiet

-----------------------------------------------------------------------------
(* Every slot is free, in use, or on its way *)

LEMMA StepAccounts ==
  ASSUME Callers = {}, "reject" \notin OnJoin, AccountsInv, [Next]_vars
  PROVE  AccountsInv'
<1>1. SlotsInv'
  BY StepSlots DEF AccountsInv
<1>2. TypeOK' /\ NoCrash'
  BY <1>1 DEF SlotsInv, RefsInv
<1>3. ASSUME NEW t \in Threads, Common(t) PROVE Accounts'
  <2>1. CASE EndPost(t) \/ EndPostEmpty(t) \/ EndCall(t) \/ EndEvent(t)
    BY <1>2, <2>1, IODecrementAccounts
  <2>2. CASE SessionRelease(t)
    BY <1>2, <2>2, SessionReleaseAccounts, DrainPackAccounts, PushSlotAccounts
  <2>3. CASE Find(t) \/ PostSend(t) \/ PostRecv(t)
    BY <1>2, <2>3, FindAccounts, TakeAccounts
  <2>4. CASE FindUse(t) \/ FindID(t) \/ Disconnect(t) \/ FreeMsg(t)
    BY <1>2, <2>4, FindLockSessionAccounts
  <2>5. CASE Enqueue(t) \/ SetFlag(t) \/ ClearFlag(t) \/ Dequeue(t)
    BY <1>2, <2>5, SendAccounts
  <2>6. CASE WSASend(t) \/ WSARecv(t)
    BY <1>2, <2>6, PostedAccounts
  <2> QED
    BY <1>3, <2>1, <2>2, <2>3, <2>4, <2>5, <2>6 DEF Common
<1>4. ASSUME AcceptThread PROVE Accounts'
  <2>1. Acceptor \in Threads
    BY ConstantTypes
  <2>2. CASE Accept \/ SetUse \/ ResetFlag \/ Join
    BY <1>2, <2>2, AcceptAccounts, SetUseAccounts, ResetFlagAccounts, JoinAccounts
  <2>3. CASE AcceptEnd \/ SetSock \/ SetID
    BY <1>2, <2>1, <2>3, FillAccounts
  <2>4. CASE TakeSlot
    BY <1>2, <2>1, <2>4, TakeAccounts
  <2> QED
    BY <1>4, <2>2, <2>3, <2>4 DEF AcceptThread
<1>5. ASSUME NEW w \in Workers, WorkerThread(w) PROVE Accounts'
  <2>1. w \in Threads
    BY ConstantTypes
  <2>2. CASE Quit(w)
    BY <1>2, <2>1, <2>2, FillAccounts
  <2> QED
    BY <1>2, <1>5, <2>2, CompletionsAccounts, WorkerAccounts DEF WorkerThread
<1>6. ASSUME Stop \/ UNCHANGED vars \/ \E c \in Conns : Client(c) PROVE Accounts'
  BY <1>2, <1>6, OutsideAccounts
<1>7. Accounts'
  BY <1>3, <1>4, <1>5, <1>6 DEF Next
<1> QED
  BY <1>1, <1>7 DEF AccountsInv

LEMMA InitAccounts == Init => AccountsInv
<1> SUFFICES ASSUME Init PROVE AccountsInv
  OBVIOUS
<1>1. SlotsInv
  BY InitSlots
<1>2. /\ \A s \in Slots : Session[s] = NewSession
      /\ \A t \in Threads : th[t] = NewThread
      /\ emptySession = [i \in 1 .. SessionMax |-> i - 1] /\ UseSessionCnt = 0
  BY DEF Init
<1>3. UsedSlots
  BY <1>2 DEF UsedSlots, Quiet, Idling, NewSession, NewThread
<1>4. ZeroCounts
  <2>1. ASSUME NEW s \in Slots PROVE s \in ToSet(emptySession)
    <3>1. PICK j \in 1 .. SessionMax : j - 1 = s
      BY SizesAssumption, s + 1 \in 1 .. SessionMax DEF Slots
    <3>2. emptySession = [i \in 1 .. SessionMax |-> i - 1]
      BY <1>2
    <3>3. j \in DOMAIN emptySession /\ emptySession[j] = s
      BY ONLY <3>1, <3>2
    <3> QED
      BY <3>1, <3>3 DEF ToSet
  <2> QED
    BY <1>2, <2>1 DEF ZeroCounts, Unused, NewSession
<1>5. SlotsCounted
  <2>1. PICK none : none = {} /\ Cardinality(none) = 0
    BY FS_EmptySet
  <2>2. Moving = none
    BY <1>2, <2>1 DEF Moving, Filling, NewThread
  <2>3. Len(emptySession) = SessionMax
    BY <1>2, SizesAssumption
  <2> QED
    BY <1>2, <2>1, <2>2, <2>3, SizesAssumption DEF SlotsCounted
<1> QED
  BY <1>1, <1>3, <1>4, <1>5 DEF AccountsInv, Accounts

LEMMA AccountsHold == AccountsInv => SlotsAccounted
<1> SUFFICES ASSUME AccountsInv PROVE SlotsAccounted
  OBVIOUS
<1>1. Parted /\ Accounts
  BY DEF AccountsInv, SlotsInv
<1>2. ASSUME NEW s \in Slots
      PROVE  s \in ToSet(emptySession) <=>
               /\ Session[s].IOCount = 0
               /\ \A t \in Threads : th[t].pc \in Preparing => th[t].slot # s
  <2>1. ASSUME s \in ToSet(emptySession), NEW t \in Threads, th[t].pc \in Preparing, th[t].slot = s
        PROVE  FALSE
    BY <1>1, <2>1 DEF Parted, FreeSlots, Works, Owning, Preparing
  <2> QED
    BY <1>1, <2>1 DEF Accounts, ZeroCounts, Unused
<1> QED
  BY <1>1, <1>2 DEF SlotsAccounted, Parted, FreeSlots, Accounts, SlotsCounted, Preparing

\* No slot is lost and none is given out twice: when the application refuses no connection
\* and keeps no ids, a slot is in emptySession, once, exactly when no reference is counted in
\* it and no thread has it for itself, and _Use_Session_Cnt is the number of the others.
THEOREM SlotsAccountedFor ==
  ASSUME Callers = {}, "reject" \notin OnJoin
  PROVE  Spec => []SlotsAccounted
<1>1. AccountsInv /\ [Next]_vars => AccountsInv'
  BY StepAccounts
<1> QED
  BY <1>1, InitAccounts, AccountsHold, PTL DEF Spec
=============================================================================
