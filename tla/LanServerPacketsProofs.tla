---------------------- MODULE LanServerPacketsProofs ----------------------
(***************************************************************************)
(* iRefCnt of every packet is right, for every number of slots, workers,   *)
(* connections and requests, with the echo application on top of the       *)
(* server, whatever I/O fails and whenever clients leave and Stop is       *)
(* called, as long as SendQ and buf[] each take the greeting and the       *)
(* answers to all requests of a client.                                    *)
(***************************************************************************)
EXTENDS LanServerServiceProofs

\* SendQ has room for the greeting and the answers to all a client asks.
Roomy == Echoes /\ MaxMsgs < QueueMax

-----------------------------------------------------------------------------
(* The inductive invariant *)

\* Packet p is used by a thread that called SendPacket with it, is in SendQ or SendPack.
Used(p) == \E t \in Threads : th[t].msg = p
Given(s) == ToSet(Line(s))
Queued(p) == \E s \in Slots : p \in Given(s)

\* Only a thread in SendPacket, or back from it, has a packet, and it has it alone.
Users ==
  /\ \A t \in Threads : th[t].msg # NoPack =>
       /\ "call" \in th[t].held \/ th[t].pc \in {"Find", "FreeMsg"}
       /\ th[t].msg[2] <= MaxMsgs
  /\ \A t, u \in Threads : th[t].msg = th[u].msg /\ th[t].msg # NoPack => t = u

\* A packet is given to the session it is for, and once.
Lines == \A s \in Slots :
  /\ IsInjective(Line(s))
  /\ \A p \in Given(s) : InUse(s) /\ \E n \in 0 .. MaxMsgs : p = <<Session[s].SessionID, n>>

\* SendPack is what the one sender has in buf[], or the kernel is sending; without SendFlag,
\* and where a sender finds nothing to send, it is empty.
Unsent == {"EndPostEmpty", "ClearFlag", "PushSlot"} \cup Fill

PackAt(s) ==
  /\ ~Session[s].SendFlag \/ s \in ToSet(emptySession) => Session[s].SendPack = <<>>
  /\ \A i \in DOMAIN Session[s].SendOver : Session[s].SendOver[i].buf = Session[s].SendPack

PackOf(t) ==
  /\ th[t].pc \in Batching => th[t].batch = Session[th[t].slot].SendPack
  /\ th[t].pc \in Unsent => Session[th[t].slot].SendPack = <<>>

Packs == (\A s \in Slots : PackAt(s)) /\ (\A t \in Threads : PackOf(t))

\* A packet on its way into SendQ is not there yet.
Handled == \A t \in Threads :
  th[t].pc \in Handling /\ th[t].msg # NoPack => ~Queued(th[t].msg)

\* The replies from the m-th on were not made yet; the m-th request is the next to be read.
New(c, m) == \A n \in m .. MaxMsgs : ~Used(<<c, n>>) /\ ~Queued(<<c, n>>)
Unread(c) == Session[net[c].index].RecvQ \o net[c].inbound
Coming(c, m) == Stream(Unread(c), m, net[c].asked) /\ New(c, m)

FreshOf(c) ==
  /\ net[c].joins = 0 => New(c, 0)
  /\ net[c].joins = 1 /\ net[c].leaves = 0 => \E m \in 1 .. net[c].asked + 1 : Coming(c, m)

Fresh == \A c \in Conns : FreshOf(c)

One(b) == IF b THEN 1 ELSE 0

Counted == \A p \in Packets \ {NoPack} : refs[p] = One(Used(p)) + One(Queued(p))

Handed == Users /\ Lines /\ Handled /\ Fresh /\ Counted
Wares == Handed /\ Packs

PacketsInv == ServiceInv /\ Wares

-----------------------------------------------------------------------------
(* Lines of packets *)

\* M is the line L without x.
Without(L, M, x) ==
  /\ x \in ToSet(L) /\ ToSet(M) = ToSet(L) \ {x}
  /\ IsInjective(L) => IsInjective(M)

\* The next packet of SendQ goes to buf[] and to SendPack: it keeps its place.
LEMMA LineMoves ==
  ASSUME NEW a \in Seq(Packets), NEW q \in Seq(Packets), q # <<>>
  PROVE  Append(a, Head(q)) \o Tail(q) = a \o q
<1>1. PICK n \in Nat, m \in Nat : n = Len(a) /\ m = Len(q)
  OBVIOUS
<1>2. m >= 1
  BY <1>1
<1>3. PICK b \in Seq(Packets), r \in Seq(Packets) : b = Append(a, Head(q)) /\ r = Tail(q)
  <2>1. Append(a, Head(q)) \in Seq(Packets) /\ Tail(q) \in Seq(Packets)
    OBVIOUS
  <2> QED
    BY <2>1
<1>4. /\ Len(b) = n + 1 /\ Len(r) = m - 1 /\ b[n + 1] = q[1]
      /\ \A i \in 1 .. n : b[i] = a[i]
      /\ \A i \in 1 .. m - 1 : r[i] = q[i + 1]
  BY <1>1, <1>2, <1>3
<1>5. /\ b \o r \in Seq(Packets) /\ a \o q \in Seq(Packets)
      /\ Len(b \o r) = n + m /\ Len(a \o q) = n + m
  BY <1>1, <1>3, <1>4
<1>6. ASSUME NEW i \in 1 .. n + m PROVE (b \o r)[i] = (a \o q)[i]
  <2>1. CASE i <= n
    BY <1>1, <1>4, <2>1
  <2>2. CASE i = n + 1
    BY <1>1, <1>2, <1>4, <2>2
  <2>3. CASE i > n + 1
    <3>1. i - (n + 1) \in 1 .. m - 1 /\ i - n \in 1 .. m /\ (i - (n + 1)) + 1 = i - n
      BY <2>3
    <3>2. (b \o r)[i] = r[i - (n + 1)]
      BY <1>4, <2>3
    <3>3. (a \o q)[i] = q[i - n]
      BY <1>1, <2>3
    <3> QED
      BY ONLY <1>4, <3>1, <3>2, <3>3
  <2>4. i <= n \/ i = n + 1 \/ i > n + 1
    OBVIOUS
  <2> QED
    BY <2>1, <2>2, <2>3, <2>4, Zenon
<1>7. b \o r = a \o q
  <2>1. PICK v \in Seq(Packets), w \in Seq(Packets) : v = b \o r /\ w = a \o q
    BY <1>5
  <2>2. Len(v) = Len(w) /\ \A i \in 1 .. Len(v) : v[i] = w[i]
    BY <1>5, <1>6, <2>1
  <2>3. v = w
    BY ONLY <2>2, v \in Seq(Packets), w \in Seq(Packets), SeqEqual
  <2> QED
    BY <2>1, <2>3
<1> QED
  BY <1>3, <1>7

LEMMA LineGrows ==
  ASSUME NEW a \in Seq(Packets), NEW q \in Seq(Packets), NEW x \in Packets
  PROVE  a \o Append(q, x) = Append(a \o q, x)
OBVIOUS

LEMMA LineGiven ==
  ASSUME NEW v \in Seq(Packets), NEW x \in Packets
  PROVE  /\ ToSet(Append(v, x)) = ToSet(v) \cup {x}
         /\ IsInjective(v) /\ x \notin ToSet(v) => IsInjective(Append(v, x))
<1>1. PICK n \in Nat : n = Len(v)
  OBVIOUS
<1>2. PICK w \in Seq(Packets) : w = Append(v, x)
  <2>1. Append(v, x) \in Seq(Packets)
    OBVIOUS
  <2> QED
    BY <2>1
<1>3. /\ DOMAIN v = 1 .. n /\ DOMAIN w = 1 .. n + 1 /\ w[n + 1] = x
      /\ \A i \in 1 .. n : w[i] = v[i]
  BY <1>1, <1>2
<1>4. ToSet(w) = ToSet(v) \cup {x}
  BY <1>3 DEF ToSet
<1>5. IsInjective(v) /\ x \notin ToSet(v) => IsInjective(w)
  BY <1>3 DEF ToSet, IsInjective
<1> QED
  BY <1>2, <1>4, <1>5

\* A packet is taken from the middle.
LEMMA LineLess ==
  ASSUME NEW L \in Seq(Packets), NEW M \in Seq(Packets), NEW k \in 1 .. Len(L),
         Len(M) = Len(L) - 1,
         \A i \in 1 .. Len(L) - 1 : M[i] = L[IF i < k THEN i ELSE i + 1],
         IsInjective(L)
  PROVE  Without(L, M, L[k])
<1>1. PICK n \in Nat : n = Len(L)
  OBVIOUS
<1>2. /\ DOMAIN L = 1 .. n /\ DOMAIN M = 1 .. n - 1 /\ k \in 1 .. n
  BY <1>1
<1>3. \A i \in 1 .. n - 1 : /\ i < k => M[i] = L[i] /\ i \in 1 .. n
                            /\ i >= k => M[i] = L[i + 1] /\ i + 1 \in 1 .. n
  BY <1>1, <1>2
<1>4. \A i, j \in 1 .. n : L[i] = L[j] => i = j
  BY <1>2 DEF IsInjective
<1>5. IsInjective(M)
  <2>1. ASSUME NEW i \in 1 .. n - 1, NEW j \in 1 .. n - 1, M[i] = M[j] PROVE i = j
    <3>1. CASE i < k /\ j < k
      BY <1>3, <1>4, <2>1, <3>1
    <3>2. CASE i < k /\ j >= k
      BY <1>3, <1>4, <2>1, <3>2
    <3>3. CASE i >= k /\ j < k
      BY <1>3, <1>4, <2>1, <3>3
    <3>4. CASE i >= k /\ j >= k
      BY <1>3, <1>4, <2>1, <3>4
    <3> QED
      BY <1>2, <3>1, <3>2, <3>3, <3>4
  <2> QED
    BY <1>2, <2>1 DEF IsInjective
<1>6. ToSet(M) = ToSet(L) \ {L[k]}
  <2>1. ASSUME NEW i \in 1 .. n - 1 PROVE M[i] \in ToSet(L) \ {L[k]}
    <3>1. CASE i < k
      <4>1. M[i] = L[i] /\ i \in 1 .. n /\ i # k
        BY <1>2, <1>3, <3>1
      <4> QED
        BY ONLY <1>2, <1>4, <4>1 DEF ToSet
    <3>2. CASE i >= k
      <4>1. M[i] = L[i + 1] /\ i + 1 \in 1 .. n /\ i + 1 # k
        BY <1>2, <1>3, <3>2
      <4> QED
        BY ONLY <1>2, <1>4, <4>1 DEF ToSet
    <3> QED
      BY <1>2, <3>1, <3>2
  <2>2. ASSUME NEW j \in 1 .. n, j # k PROVE L[j] \in ToSet(M)
    <3>1. CASE j < k
      BY <1>2, <1>3, <3>1 DEF ToSet
    <3>2. CASE j > k
      <4>1. j - 1 \in 1 .. n - 1 /\ j - 1 >= k /\ (j - 1) + 1 = j
        BY <1>2, <3>2
      <4>2. M[j - 1] = L[j]
        BY <1>3, <4>1
      <4> QED
        BY <1>2, <4>1, <4>2 DEF ToSet
    <3> QED
      BY <1>2, <2>2, <3>1, <3>2
  <2> QED
    BY <1>2, <2>1, <2>2 DEF ToSet
<1> QED
  BY <1>2, <1>5, <1>6 DEF Without, ToSet

\* SendQ and SendPack are freed from the one end and from the other.
LEMMA LineFreed ==
  ASSUME NEW a \in Seq(Packets), NEW q \in Seq(Packets), IsInjective(a \o q)
  PROVE  /\ q # <<>> => Without(a \o q, a \o Tail(q), Head(q))
         /\ a # <<>> => Without(a \o q, Front(a) \o q, Last(a))
<1>1. PICK n \in Nat, m \in Nat : n = Len(a) /\ m = Len(q)
  OBVIOUS
<1>2. PICK L \in Seq(Packets) : L = a \o q
  <2>1. a \o q \in Seq(Packets)
    OBVIOUS
  <2> QED
    BY <2>1
<1>3. /\ Len(L) = n + m /\ \A i \in 1 .. n : L[i] = a[i]
      /\ \A i \in n + 1 .. n + m : L[i] = q[i - n]
  BY <1>1, <1>2
<1>4. ASSUME q # <<>> PROVE Without(L, a \o Tail(q), Head(q))
  <2>1. PICK r \in Seq(Packets) : r = Tail(q)
    <3>1. Tail(q) \in Seq(Packets)
      BY <1>4
    <3> QED
      BY <3>1
  <2>2. m >= 1 /\ Len(r) = m - 1 /\ \A i \in 1 .. m - 1 : r[i] = q[i + 1]
    BY <1>1, <1>4, <2>1
  <2>3. PICK M \in Seq(Packets) : M = a \o r
    <3>1. a \o r \in Seq(Packets)
      OBVIOUS
    <3> QED
      BY <3>1
  <2>4. Len(M) = n + m - 1 /\ \A i \in 1 .. n : M[i] = a[i]
    <3>1. Len(a \o r) = n + (m - 1)
      <4>1. Len(a \o r) = Len(a) + Len(r)
        OBVIOUS
      <4> QED
        BY <1>1, <2>2, <4>1
    <3>2. ASSUME NEW i \in 1 .. n PROVE (a \o r)[i] = a[i]
      BY <1>1
    <3> QED
      BY <2>3, <3>1, <3>2
  <2>5. \A i \in n + 1 .. n + m - 1 : M[i] = r[i - n]
    BY <1>1, <2>2, <2>3
  <2>6. \A i \in 1 .. n + m - 1 : M[i] = L[IF i < n + 1 THEN i ELSE i + 1]
    <3>1. ASSUME NEW i \in 1 .. n + m - 1 PROVE M[i] = L[IF i < n + 1 THEN i ELSE i + 1]
      <4>1. CASE i < n + 1
        BY <1>3, <2>4, <4>1
      <4>2. CASE i >= n + 1
        <5>1. i - n \in 1 .. m - 1 /\ i + 1 \in n + 1 .. n + m /\ (i + 1) - n = (i - n) + 1
          BY <4>2
        <5>2. M[i] = r[i - n] /\ L[i + 1] = q[(i - n) + 1]
          BY <1>3, <2>5, <4>2, <5>1
        <5> QED
          BY <2>2, <4>2, <5>1, <5>2
      <4> QED
        BY <4>1, <4>2
    <3> QED
      BY <3>1
  <2>7. n + 1 \in 1 .. Len(L) /\ L[n + 1] = Head(q)
    <3>1. n + 1 \in n + 1 .. n + m /\ (n + 1) - n = 1
      BY <2>2
    <3>2. L[n + 1] = q[1]
      BY <1>3, <3>1
    <3> QED
      BY <1>3, <2>2, <3>2
  <2>8. IsInjective(L)
    BY <1>2
  <2>9. Len(M) = Len(L) - 1 /\ Len(L) - 1 = n + m - 1
    BY <1>3, <2>4
  <2>10. Without(L, M, L[n + 1])
    BY ONLY <2>6, <2>7, <2>8, <2>9, L \in Seq(Packets), M \in Seq(Packets), LineLess
  <2> QED
    BY <2>1, <2>3, <2>7, <2>10
<1>5. ASSUME a # <<>> PROVE Without(L, Front(a) \o q, Last(a))
  <2>1. PICK r \in Seq(Packets) : r = Front(a)
    <3>1. Front(a) \in Seq(Packets)
      BY <1>5 DEF Front
    <3> QED
      BY <3>1
  <2>2. n >= 1 /\ Len(r) = n - 1 /\ \A i \in 1 .. n - 1 : r[i] = a[i]
    BY <1>1, <1>5, <2>1 DEF Front
  <2>3. PICK M \in Seq(Packets) : M = r \o q
    <3>1. r \o q \in Seq(Packets)
      OBVIOUS
    <3> QED
      BY <3>1
  <2>4. Len(M) = n + m - 1 /\ \A i \in 1 .. n - 1 : M[i] = r[i]
    <3>1. Len(r \o q) = (n - 1) + m
      <4>1. Len(r \o q) = Len(r) + Len(q)
        OBVIOUS
      <4> QED
        BY <1>1, <2>2, <4>1
    <3>2. ASSUME NEW i \in 1 .. n - 1 PROVE (r \o q)[i] = r[i]
      BY <2>2
    <3> QED
      BY <2>3, <3>1, <3>2
  <2>5. \A i \in n .. n + m - 1 : M[i] = q[i - (n - 1)]
    BY <1>1, <2>2, <2>3
  <2>6. \A i \in 1 .. n + m - 1 : M[i] = L[IF i < n THEN i ELSE i + 1]
    <3>1. ASSUME NEW i \in 1 .. n + m - 1 PROVE M[i] = L[IF i < n THEN i ELSE i + 1]
      <4>1. CASE i < n
        <5>1. i \in 1 .. n - 1 /\ i \in 1 .. n
          BY <2>2, <4>1
        <5> QED
          BY <1>3, <2>2, <2>4, <4>1, <5>1
      <4>2. CASE i >= n
        <5>1. i \in n .. n + m - 1 /\ i + 1 \in n + 1 .. n + m /\ (i + 1) - n = i - (n - 1)
          BY <4>2
        <5>2. M[i] = q[i - (n - 1)] /\ L[i + 1] = q[(i + 1) - n]
          BY <1>3, <2>5, <5>1
        <5> QED
          BY <4>2, <5>1, <5>2
      <4> QED
        BY <4>1, <4>2
    <3> QED
      BY <3>1
  <2>7. n \in 1 .. Len(L) /\ L[n] = Last(a)
    BY <1>1, <1>3, <1>5, <2>2 DEF Last
  <2>8. IsInjective(L)
    BY <1>2
  <2>9. Len(M) = Len(L) - 1 /\ Len(L) - 1 = n + m - 1
    BY <1>3, <2>4
  <2>10. Without(L, M, L[n])
    BY ONLY <2>6, <2>7, <2>8, <2>9, L \in Seq(Packets), M \in Seq(Packets), LineLess
  <2> QED
    BY <2>1, <2>3, <2>7, <2>10
<1> QED
  BY <1>2, <1>4, <1>5

\* A session is given no more packets than there are numbers for them.
LEMMA LineBound ==
  ASSUME NEW v \in Seq(Packets), IsInjective(v), NEW c,
         \A p \in ToSet(v) : \E n \in 0 .. MaxMsgs : p = <<c, n>>
  PROVE  Len(v) <= MaxMsgs + 1
<1>1. PICK l \in Nat : l = Len(v)
  OBVIOUS
<1> DEFINE f == [i \in 1 .. l |-> v[i][2]]
<1>2. ASSUME NEW i \in 1 .. l PROVE f[i] \in 0 .. MaxMsgs /\ v[i] = <<c, f[i]>>
  <2>1. v[i] \in ToSet(v)
    BY <1>1 DEF ToSet
  <2> QED
    BY <2>1
<1>3. ASSUME NEW i \in 1 .. l, NEW j \in 1 .. l, f[i] = f[j] PROVE i = j
  <2> HIDE DEF f
  <2>1. v[i] = <<c, f[i]>> /\ v[j] = <<c, f[j]>>
    BY <1>2
  <2>2. v[i] = v[j] /\ i \in DOMAIN v /\ j \in DOMAIN v
    BY <1>1, <1>3, <2>1
  <2> QED
    BY <2>2 DEF IsInjective
<1>4. f \in Injection(1 .. l, 0 .. MaxMsgs)
  <2>1. f \in [1 .. l -> 0 .. MaxMsgs]
    BY <1>2
  <2> QED
    BY <1>3, <2>1 DEF Injection, IsInjective
<1>5. IsFiniteSet(0 .. MaxMsgs) /\ Cardinality(0 .. MaxMsgs) = MaxMsgs + 1
  BY SizesAssumption, FS_Interval
<1>6. Cardinality(1 .. l) = l
  BY FS_Interval
<1>7. Cardinality(1 .. l) <= Cardinality(0 .. MaxMsgs)
  BY <1>4, <1>5, FS_Injection
<1> QED
  BY <1>1, <1>5, <1>6, <1>7

-----------------------------------------------------------------------------
(* What a step does to the packets *)

LEMMA LineType ==
  ASSUME TypeOK, NEW s \in Slots
  PROVE  /\ Session[s].SendPack \in Seq(Packets) /\ Session[s].SendQ \in Seq(Packets)
         /\ Line(s) \in Seq(Packets) /\ Given(s) \subseteq Packets
<1>1. Session[s].SendPack \in Seq(Packets) /\ Session[s].SendQ \in Seq(Packets)
  BY SessionFields DEF TypeOK
<1>2. PICK a \in Seq(Packets), q \in Seq(Packets) :
        a = Session[s].SendPack /\ q = Session[s].SendQ
  BY <1>1
<1>3. a \o q \in Seq(Packets)
  OBVIOUS
<1>4. Line(s) \in Seq(Packets)
  BY <1>2, <1>3 DEF Line
<1> QED
  BY <1>1, <1>4 DEF Given, ToSet

\* A packet is given to one session.
LEMMA OneGiver ==
  ASSUME AccountsInv, Lines, NEW s \in Slots, NEW r \in Slots, NEW p, p \in Given(s), p \in Given(r)
  PROVE  s = r
<1>1. InUse(s) /\ InUse(r) /\ p[1] = Session[s].SessionID /\ p[1] = Session[r].SessionID
  BY DEF Lines
<1> QED
  BY <1>1, SessionConn

LEMMA UsersStep ==
  ASSUME Users, NEW t \in Threads, Alone(t),
         th'[t].msg # NoPack =>
           /\ "call" \in th'[t].held \/ th'[t].pc \in {"Find", "FreeMsg"}
           /\ th'[t].msg[2] <= MaxMsgs
           /\ th'[t].msg = th[t].msg \/ ~Used(th'[t].msg)
  PROVE  Users'
<1>1. ASSUME NEW u \in Threads, th'[u].msg # NoPack
      PROVE  /\ "call" \in th'[u].held \/ th'[u].pc \in {"Find", "FreeMsg"}
             /\ th'[u].msg[2] <= MaxMsgs
  BY <1>1 DEF Users, Alone
<1>2. ASSUME NEW u \in Threads, NEW v \in Threads, th'[u].msg = th'[v].msg, th'[u].msg # NoPack
      PROVE  u = v
  <2>1. CASE u # t /\ v # t
    BY <1>2, <2>1 DEF Users, Alone
  <2>2. CASE u # t /\ v = t
    <3>1. th'[u].msg = th[u].msg /\ Used(th'[t].msg)
      BY <1>2, <2>2 DEF Alone, Used
    <3> QED
      BY <1>2, <2>2, <3>1 DEF Users
  <2>3. CASE u = t /\ v # t
    <3>1. th'[v].msg = th[v].msg /\ Used(th'[t].msg)
      BY <1>2, <2>3 DEF Alone, Used
    <3> QED
      BY <1>2, <2>3, <3>1 DEF Users
  <2> QED
    BY <2>1, <2>2, <2>3
<1> QED
  BY <1>1, <1>2 DEF Users

\* What becomes of the packets that thread t does not use.
LEMMA UseStep ==
  ASSUME NEW t \in Threads, Alone(t), NEW p
  PROVE  /\ th'[t].msg = th[t].msg => (Used(p)' <=> Used(p))
         /\ th[t].msg # p /\ th'[t].msg # p => (Used(p)' <=> Used(p))
         /\ th'[t].msg = p => Used(p)'
         /\ Users /\ th[t].msg = p /\ p # NoPack /\ th'[t].msg # p => ~Used(p)'
<1>1. \A u \in Threads : u # t => th'[u].msg = th[u].msg
  BY DEF Alone
<1>2. Used(p)' <=> \E u \in Threads : th'[u].msg = p
  BY DEF Used
<1>3. th'[t].msg = th[t].msg => (Used(p)' <=> Used(p))
  BY <1>1, <1>2 DEF Used
<1>4. th[t].msg # p /\ th'[t].msg # p => (Used(p)' <=> Used(p))
  BY <1>1, <1>2 DEF Used
<1>5. Users /\ th[t].msg = p /\ p # NoPack /\ th'[t].msg # p => ~Used(p)'
  BY <1>1, <1>2 DEF Users
<1> QED
  BY <1>2, <1>3, <1>4, <1>5

LEMMA HandledStep ==
  ASSUME Users, Handled, NEW t \in Threads, Alone(t),
         \A p : Queued(p)' => Queued(p) \/ p = th[t].msg,
         th'[t].pc \in Handling /\ th'[t].msg # NoPack => ~Queued(th[t].msg)',
         th'[t].pc \in Handling => th'[t].msg = th[t].msg
  PROVE  Handled'
<1>1. ASSUME NEW u \in Threads, th'[u].pc \in Handling, th'[u].msg # NoPack
      PROVE  ~Queued(th[u].msg)' /\ th'[u].msg = th[u].msg
  <2>1. CASE u = t
    BY <1>1, <2>1
  <2>2. CASE u # t
    <3>1. th'[u] = th[u] /\ th[u].msg # th[t].msg
      BY <1>1, <2>2 DEF Users, Alone
    <3> QED
      BY <1>1, <3>1 DEF Handled
  <2> QED
    BY <2>1, <2>2
<1>2. \A u \in Threads : th'[u].pc \in Handling /\ th'[u].msg # NoPack => ~Queued(th[u].msg)'
  BY <1>1
<1> QED
  BY <1>1 DEF Handled, Queued

\* What clients sent and were told of a connection stays as it was, at least until it leaves.
ConnLike(c) ==
  /\ net'[c].joins = net[c].joins /\ net'[c].asked = net[c].asked
  /\ net[c].joins = 1 /\ net'[c].leaves = 0 => net[c].leaves = 0 /\ Unread(c)' = Unread(c)

\* The packets of connection c that are to come.
LEMMA FreshConn ==
  ASSUME NEW c \in Conns, FreshOf(c), ConnLike(c),
         \A n : Used(<<c, n>>)' \/ Queued(<<c, n>>)' => Used(<<c, n>>) \/ Queued(<<c, n>>)
  PROVE  FreshOf(c)'
<1>1. ASSUME NEW m, New(c, m) PROVE New(c, m)'
  BY <1>1 DEF New
<1>2. net'[c].joins = 0 => New(c, 0)'
  BY <1>1 DEF ConnLike, FreshOf
<1>3. ASSUME net'[c].joins = 1, net'[c].leaves = 0
      PROVE  \E m \in 1 .. net'[c].asked + 1 : Coming(c, m)'
  <2>1. /\ net[c].joins = 1 /\ net[c].leaves = 0 /\ Unread(c)' = Unread(c)
        /\ net'[c].asked = net[c].asked
    BY <1>3 DEF ConnLike
  <2>2. PICK m \in 1 .. net[c].asked + 1 : Coming(c, m)
    BY <2>1 DEF FreshOf
  <2>3. New(c, m)'
    BY <1>1, <2>2 DEF Coming
  <2>4. Stream(Unread(c), m, net[c].asked)'
    BY <2>1, <2>2 DEF Coming, Stream
  <2>5. Coming(c, m)'
    BY <2>3, <2>4 DEF Coming
  <2> QED
    BY <2>1, <2>5
<1> QED
  BY <1>2, <1>3 DEF FreshOf

LEMMA FreshStep ==
  ASSUME Fresh, \A c \in Conns : ConnLike(c),
         \A p : p # NoPack /\ (Used(p)' \/ Queued(p)') => Used(p) \/ Queued(p)
  PROVE  Fresh'
<1>1. ASSUME NEW c \in Conns PROVE FreshOf(c)'
  <2>1. \A n : <<c, n>> # NoPack
    BY DEF NoPack, NoConn, Conns
  <2> QED
    BY <2>1, FreshConn DEF Fresh
<1> QED
  BY <1>1 DEF Fresh

LEMMA CountedSame ==
  ASSUME Counted, UNCHANGED refs, \A p : (Used(p)' <=> Used(p)) /\ (Queued(p)' <=> Queued(p))
  PROVE  Counted'
<1>1. ASSUME NEW p \in Packets \ {NoPack} PROVE refs'[p] = One(Used(p)') + One(Queued(p)')
  <2>1. refs[p] = One(Used(p)) + One(Queued(p))
    BY DEF Counted
  <2>2. (Used(p)' <=> Used(p)) /\ (Queued(p)' <=> Queued(p))
    OBVIOUS
  <2> QED
    BY <2>1, <2>2 DEF One
<1> QED
  BY <1>1 DEF Counted, One

\* The uses or the places of packet q change.
LEMMA CountedStep ==
  ASSUME Counted, TypeOK, NEW q \in Packets, NEW x, refs' = [refs EXCEPT ![q] = x],
         \A p : p # q /\ p # NoPack => (Used(p)' <=> Used(p)) /\ (Queued(p)' <=> Queued(p)),
         q # NoPack => x = One(Used(q)') + One(Queued(q)')
  PROVE  Counted'
<1>1. ASSUME NEW p \in Packets \ {NoPack} PROVE refs'[p] = One(Used(p)') + One(Queued(p)')
  <2>1. refs \in [Packets -> Int]
    BY DEF TypeOK
  <2>2. CASE p = q
    BY <2>1, <2>2
  <2>3. CASE p # q
    <3>1. refs'[p] = refs[p] /\ refs[p] = One(Used(p)) + One(Queued(p))
      BY <2>1, <2>3 DEF Counted
    <3>2. (Used(p)' <=> Used(p)) /\ (Queued(p)' <=> Queued(p))
      BY <2>3
    <3> QED
      BY <3>1, <3>2 DEF One
  <2> QED
    BY <2>2, <2>3
<1> QED
  BY <1>1 DEF Counted, One

LEMMA LinesStep ==
  ASSUME Lines, \A x \in Slots : Line(x)' = Line(x),
         \A x \in Slots : Given(x) = {} \/ Session'[x].SessionID = Session[x].SessionID
  PROVE  Lines' /\ \A p : Queued(p)' <=> Queued(p)
<1>1. ASSUME NEW x \in Slots PROVE Given(x)' = Given(x) /\ (IsInjective(Line(x)) <=> IsInjective(Line(x))')
  BY DEF Given
<1>2. ASSUME NEW x \in Slots
      PROVE  /\ IsInjective(Line(x))'
             /\ \A p \in Given(x)' : InUse(x)' /\ \E n \in 0 .. MaxMsgs :
                                       p = <<Session'[x].SessionID, n>>
  <2>1. IsInjective(Line(x))'
    BY <1>1 DEF Lines
  <2>2. Given(x)' = Given(x)
    BY <1>1
  <2>3. ASSUME NEW p \in Given(x)
        PROVE  InUse(x)' /\ \E n \in 0 .. MaxMsgs : p = <<Session'[x].SessionID, n>>
    BY <2>3 DEF Lines, InUse
  <2> QED
    BY <2>1, <2>2, <2>3
<1>3. \A p : Queued(p)' <=> Queued(p)
  BY <1>1 DEF Queued
<1> QED
  BY <1>2, <1>3 DEF Lines

\* The packets given to one session change.
LEMMA LinesAt ==
  ASSUME Lines, NEW s \in Slots, OnlyAt(s), Session'[s].SessionID = Session[s].SessionID,
         IsInjective(Line(s))',
         \A p \in Given(s)' : \/ p \in Given(s)
                              \/ InUse(s) /\ \E n \in 0 .. MaxMsgs : p = <<Session[s].SessionID, n>>
  PROVE  Lines' /\ \A x \in Slots \ {s} : Given(x)' = Given(x)
<1>1. ASSUME NEW x \in Slots \ {s} PROVE Line(x)' = Line(x) /\ Session'[x] = Session[x]
  BY DEF Line, OnlyAt
<1>2. ASSUME NEW x \in Slots \ {s} PROVE Given(x)' = Given(x) /\ (IsInjective(Line(x)) <=> IsInjective(Line(x))')
  BY <1>1 DEF Given
<1>3. ASSUME NEW x \in Slots
      PROVE  /\ IsInjective(Line(x))'
             /\ \A p \in Given(x)' : InUse(x)' /\ \E n \in 0 .. MaxMsgs :
                                       p = <<Session'[x].SessionID, n>>
  <2>1. CASE x = s
    <3>1. ASSUME NEW p \in Given(s)'
          PROVE  InUse(s) /\ \E n \in 0 .. MaxMsgs : p = <<Session[s].SessionID, n>>
      BY <3>1 DEF Lines
    <3> QED
      BY <2>1, <3>1 DEF InUse
  <2>2. CASE x # s
    <3>1. Given(x)' = Given(x) /\ Session'[x] = Session[x] /\ IsInjective(Line(x))'
      BY <1>1, <1>2, <2>2 DEF Lines
    <3> QED
      BY <3>1 DEF Lines, InUse
  <2> QED
    BY <2>1, <2>2
<1> QED
  BY <1>2, <1>3 DEF Lines

\* A step that leaves every packet where it was.
LEMMA StillStep ==
  ASSUME Handed, NEW t \in Threads, Alone(t), th'[t].msg = th[t].msg, UNCHANGED refs,
         th[t].msg # NoPack => "call" \in th'[t].held \/ th'[t].pc \in {"Find", "FreeMsg"},
         th'[t].pc \in Handling => th[t].pc \in Handling \/ th[t].msg = NoPack,
         \A x \in Slots : Line(x)' = Line(x),
         \A x \in Slots : Given(x) = {} \/ Session'[x].SessionID = Session[x].SessionID,
         \A c \in Conns : ConnLike(c)
  PROVE  Handed'
<1>1. Users /\ Lines /\ Handled /\ Fresh /\ Counted
  BY DEF Handed
<1>2. \A p : Used(p)' <=> Used(p)
  BY UseStep
<1>3. Lines' /\ \A p : Queued(p)' <=> Queued(p)
  BY <1>1, LinesStep
<1>4. Users'
  <2>1. th'[t].msg # NoPack => th'[t].msg[2] <= MaxMsgs
    BY <1>1 DEF Users
  <2> QED
    BY <1>1, <2>1, UsersStep
<1>5. Handled'
  <2>1. th'[t].pc \in Handling /\ th'[t].msg # NoPack => ~Queued(th[t].msg)'
    BY <1>1, <1>3 DEF Handled
  <2> QED
    BY <1>1, <1>3, <2>1, HandledStep
<1>6. Fresh'
  BY <1>1, <1>2, <1>3, FreshStep
<1>7. Counted'
  BY <1>1, <1>2, <1>3, CountedSame
<1> QED
  BY <1>3, <1>4, <1>5, <1>6, <1>7 DEF Handed

LEMMA PacksStep ==
  ASSUME TypeOK, Packs, NEW t \in Threads, Alone(t), NEW s \in Slots, OnlyAt(s),
         \/ Session'[s].SendPack = Session[s].SendPack
         \/ \A u \in Threads \ {t} : th[u].slot = s => th[u].pc \notin Batching \cup Unsent,
         ToSet(emptySession)' \ {s} \subseteq ToSet(emptySession),
         PackAt(s)', PackOf(t)'
  PROVE  Packs'
<1>1. ASSUME NEW x \in Slots PROVE PackAt(x)'
  <2>1. CASE x = s
    BY <2>1
  <2>2. CASE x # s
    <3>1. Session'[x] = Session[x] /\ PackAt(x)
      BY <2>2 DEF Packs, OnlyAt
    <3>2. x \in ToSet(emptySession)' => x \in ToSet(emptySession)
      BY <2>2
    <3> QED
      BY <3>1, <3>2 DEF PackAt
  <2> QED
    BY <2>1, <2>2
<1>2. ASSUME NEW u \in Threads PROVE PackOf(u)'
  <2>1. CASE u = t
    BY <2>1
  <2>2. CASE u # t
    <3>1. th'[u] = th[u] /\ PackOf(u) /\ th[u].slot \in Slots
      BY <2>2, Typed DEF Packs, Alone
    <3>2. CASE th[u].slot # s
      BY <3>1, <3>2 DEF PackOf, OnlyAt
    <3>3. CASE th[u].slot = s
      <4>1. CASE Session'[s].SendPack = Session[s].SendPack
        BY <3>1, <3>3, <4>1 DEF PackOf
      <4>2. CASE th[u].pc \notin Batching \cup Unsent
        BY <3>1, <4>2 DEF PackOf
      <4> QED
        BY <2>2, <3>3, <4>1, <4>2
    <3> QED
      BY <3>2, <3>3
  <2> QED
    BY <2>1, <2>2
<1> QED
  BY <1>1, <1>2 DEF Packs

\* What these steps do not write.
QueuesPlain == \A x \in Slots :
  /\ Session'[x].SendQ = Session[x].SendQ /\ Session'[x].SendPack = Session[x].SendPack
  /\ Session'[x].RecvQ = Session[x].RecvQ /\ Session'[x].SessionID = Session[x].SessionID
Plain(s) ==
  /\ OnlyAt(s) /\ QueuesPlain
  /\ Session'[s].SendOver = Session[s].SendOver /\ Session'[s].SendFlag = Session[s].SendFlag
NetPlain == \A c \in Conns :
  /\ net'[c].index = net[c].index /\ net'[c].joins = net[c].joins
  /\ net'[c].asked = net[c].asked /\ net'[c].inbound = net[c].inbound
  /\ net'[c].leaves = 0 => net[c].leaves = 0

LEMMA PlainConn ==
  ASSUME TypeOK, QueuesPlain, NetPlain
  PROVE  /\ \A x \in Slots : Line(x)' = Line(x) /\ Session'[x].SessionID = Session[x].SessionID
         /\ \A c \in Conns : ConnLike(c)
<1>1. \A c \in Conns : net[c].index \in Slots
  BY ConnFields, ConstantTypes DEF TypeOK
<1>2. ASSUME NEW c \in Conns PROVE Unread(c)' = Unread(c)
  BY <1>1 DEF Unread, QueuesPlain, NetPlain
<1>3. \A x \in Slots : Line(x)' = Line(x)
  BY DEF Line, QueuesPlain
<1> QED
  BY <1>2, <1>3 DEF ConnLike, QueuesPlain, NetPlain

LEMMA PlainUpdates ==
  ASSUME TypeOK, NEW s \in Slots
  PROVE  /\ UNCHANGED Session => Plain(s)
         /\ \A x : Session' = [Session EXCEPT ![s].IOCount = x] => Plain(s)
         /\ \A x : Session' = [Session EXCEPT ![s].UseFlag = x] => Plain(s)
         /\ \A x : Session' = [Session EXCEPT ![s].sock = x] => Plain(s)
         /\ \A x : Session' = [Session EXCEPT ![s].RecvOver = x] => Plain(s)
<1>0. Session \in [Slots -> SessionType]
  BY DEF TypeOK
<1>1. UNCHANGED Session => Plain(s)
  BY DEF Plain, OnlyAt, QueuesPlain
<1>2. \A x : Session' = [Session EXCEPT ![s].IOCount = x] => Plain(s)
  BY <1>0 DEF SessionType, Plain, OnlyAt, QueuesPlain
<1>3. \A x : Session' = [Session EXCEPT ![s].UseFlag = x] => Plain(s)
  BY <1>0 DEF SessionType, Plain, OnlyAt, QueuesPlain
<1>4. \A x : Session' = [Session EXCEPT ![s].sock = x] => Plain(s)
  BY <1>0 DEF SessionType, Plain, OnlyAt, QueuesPlain
<1>5. \A x : Session' = [Session EXCEPT ![s].RecvOver = x] => Plain(s)
  BY <1>0 DEF SessionType, Plain, OnlyAt, QueuesPlain
<1> QED
  BY <1>1, <1>2, <1>3, <1>4, <1>5

LEMMA NetAlikePlain == NetAlike => NetPlain
BY DEF NetAlike, NetPlain, CallbacksSame, ConnSame

\* A step of one thread that goes on without touching a packet.
LEMMA PlainTurn ==
  ASSUME TypeOK, Wares, NEW t \in Threads, NEW k, NEW h, Turns(t, k, h),
         Plain(th[t].slot), NetPlain, UNCHANGED <<refs, emptySession>>,
         th[t].pc \in {"Find", "FreeMsg"} => "call" \in h \/ k \in {"Find", "FreeMsg"},
         "call" \in th[t].held => "call" \in h \/ k = "FreeMsg",
         k \in Handling => th[t].pc \in Handling,
         k \in Batching => th[t].pc \in Batching,
         k \in Unsent => th[t].pc \in Unsent \/ Session[th[t].slot].SendPack = <<>>
  PROVE  Wares'
<1>1. Handed /\ Packs /\ Users
  BY DEF Wares, Handed
<1>2. PICK s \in Slots : s = th[t].slot
  BY Typed
<1>3. /\ Alone(t) /\ th'[t].pc = k /\ th'[t].held = h /\ th'[t].msg = th[t].msg
      /\ th'[t].batch = th[t].batch /\ th'[t].slot = s
  BY <1>2 DEF Turns, Stays
<1>4. Handed'
  <2>1. /\ \A x \in Slots : Line(x)' = Line(x) /\ Session'[x].SessionID = Session[x].SessionID
        /\ \A c \in Conns : ConnLike(c)
    BY PlainConn DEF Plain
  <2>2. th[t].msg # NoPack => "call" \in h \/ k \in {"Find", "FreeMsg"}
    BY <1>1 DEF Users
  <2> QED
    BY <1>1, <1>3, <2>1, <2>2, StillStep
<1>5. Packs'
  <2>1. OnlyAt(s) /\ /\ Session'[s].SendPack = Session[s].SendPack
                     /\ Session'[s].SendOver = Session[s].SendOver
                     /\ Session'[s].SendFlag = Session[s].SendFlag
    BY <1>2 DEF Plain, QueuesPlain
  <2>2. PackAt(s) /\ PackOf(t)
    BY <1>1 DEF Packs
  <2>3. ToSet(emptySession)' = ToSet(emptySession)
    BY DEF ToSet
  <2>4. PackAt(s)'
    BY <2>1, <2>2, <2>3 DEF PackAt
  <2>5. PackOf(t)'
    BY <1>2, <1>3, <2>1, <2>2 DEF PackOf
  <2> QED
    BY <1>1, <1>3, <2>1, <2>3, <2>4, <2>5, PacksStep
<1> QED
  BY <1>4, <1>5 DEF Wares

\* What a thread with SendPacket's reference, or without, may do next.
Carrying(t, k, h) ==
  /\ th[t].pc \in {"Find", "FreeMsg"} => "call" \in h \/ k \in {"Find", "FreeMsg"}
  /\ "call" \in th[t].held => "call" \in h \/ k = "FreeMsg"

-----------------------------------------------------------------------------
(* Steps that leave the packets alone *)

\* Only the IODecrement of a handler's end gives the last reference back.
LEMMA PacketsDecrements ==
  ASSUME AccountsInv, Callers = {}, Wares, NEW t \in Threads,
         EndPost(t) \/ EndPostEmpty(t) \/ EndCall(t) \/ EndEvent(t)
  PROVE  Wares'
<1>1. /\ TypeOK /\ HoldingOf(t) /\ th[t].slot \in Slots /\ PackOf(t)
  BY Parts, Typed DEF Holding, Wares, Packs
<1>2. PICK k \in {"post", "call", "event"}, l \in {"EndCall", "EndEvent", "ClearFlag", "FreeMsg",
                                                   "idle"} :
        /\ IODecrement(t, k, l)
        /\ th[t].pc \in {"EndPost", "EndPostEmpty", "EndCall", "EndEvent"}
        /\ \/ k = "post" /\ th[t].pc \in {"EndPost", "EndPostEmpty"}
           \/ k = "call" /\ l = "FreeMsg" /\ th[t].pc = "EndCall"
           \/ k = "event" /\ th[t].pc = "EndEvent"
        /\ l = "ClearFlag" => th[t].pc = "EndPostEmpty"
  <2>1. CASE EndPost(t)
    BY <2>1 DEF EndPost, At, AfterPost
  <2>2. CASE EndPostEmpty(t)
    BY <2>2 DEF EndPostEmpty, At
  <2>3. CASE EndCall(t)
    BY <2>3 DEF EndCall, At
  <2>4. CASE EndEvent(t)
    BY <2>4 DEF EndEvent, At
  <2> QED
    BY <2>1, <2>2, <2>3, <2>4
<1> DEFINE l2 == IF Session[th[t].slot].IOCount = 1 THEN "Release" ELSE l
<1>3. Turns(t, l2, th[t].held \ {k})
  BY <1>1, <1>2, ThreadTurns DEF IODecrement
<1>4. Plain(th[t].slot) /\ NetPlain /\ UNCHANGED <<refs, emptySession>>
  <2>1. NetAlike
    BY <1>1, <1>2, NetKeeps, ConstantTypes DEF IODecrement
  <2> QED
    BY <1>1, <1>2, <2>1, PlainUpdates, NetAlikePlain DEF IODecrement, pool
<1>5. Carrying(t, l2, th[t].held \ {k})
  <2>1. th[t].pc \notin Releasing \cup {"idle", "done", "TakeSlot", "Find", "FreeMsg"}
    BY <1>2 DEF Releasing
  <2>2. "event" \in th[t].held /\ Carries(t, th[t].pc, th[t].held)
    BY <1>1, <2>1, AtWork DEF HoldingOf, Where
  <2>3. k \in th[t].held /\ RefsInv
    BY <1>2, <2>2 DEF Carries, Posting, Calling, AccountsInv, SlotsInv
  <2>4. Session[th[t].slot].IOCount = 1 => th[t].held = {k}
    BY <2>3, LastReference
  <2> QED
    BY <1>2, <2>1, <2>2, <2>4 DEF Carrying
<1>6. /\ l2 \notin Handling \cup Batching
      /\ l2 \in Unsent => th[t].pc \in Unsent
  BY <1>2 DEF Handling, Batching, Unsent, Fill, Ided
<1> HIDE DEF l2
<1> QED
  BY <1>1, <1>3, <1>4, <1>5, <1>6, PlainTurn DEF Carrying

LEMMA PacketsPlain ==
  ASSUME AccountsInv, Callers = {}, Wares, NEW t \in Threads,
         \/ Release(t) \/ FindUse(t) \/ FindID(t) \/ Disconnect(t) \/ PostSend(t) \/ PostRecv(t)
         \/ Zero(t) \/ Quit(t) \/ Recheck(t)
         \/ t = Acceptor /\ (AcceptEnd \/ TakeSlot \/ SetSock \/ SetUse)
  PROVE  Wares'
<1>1. TypeOK /\ th[t].slot \in Slots /\ Session[th[t].slot].sock \in Ids /\ NoConn \in Ids
  BY Parts, Typed, SessionFields, ConstantTypes
<1>2. UNCHANGED <<refs, emptySession>>
  BY DEF Release, FindUse, FindID, Disconnect, PostSend, PostRecv, Zero, Quit, Recheck, AcceptEnd,
         TakeSlot, SetSock, SetUse, pool
<1>3. Plain(th[t].slot)
  <2>1. \/ UNCHANGED Session
        \/ \E x : Session' = [Session EXCEPT ![th[t].slot].IOCount = x]
        \/ \E x : Session' = [Session EXCEPT ![th[t].slot].UseFlag = x]
        \/ \E x : Session' = [Session EXCEPT ![th[t].slot].sock = x]
    BY DEF Release, FindUse, FindID, Disconnect, PostSend, PostRecv, Zero, Quit, Recheck,
           AcceptEnd, TakeSlot, SetSock, SetUse, Take
  <2> QED
    BY <1>1, <2>1, PlainUpdates
<1>4. NetPlain
  <2>1. UNCHANGED net \/ ShutDown(Session[th[t].slot].sock)
    BY DEF Release, FindUse, FindID, Disconnect, PostSend, PostRecv, Zero, Quit, Recheck,
           AcceptEnd, TakeSlot, SetSock, SetUse
  <2> QED
    BY <1>1, <2>1, NetKeeps, NetAlikePlain
<1>5. \E k, h : /\ Turns(t, k, h) /\ Carrying(t, k, h)
                /\ k \in Handling => th[t].pc \in Handling
                /\ k \notin Batching
                /\ k \in Unsent => th[t].pc \in Unsent
  <2>1. CASE Release(t) \/ FindUse(t) \/ FindID(t) \/ Disconnect(t)
    <3>1. PICK k \in {"idle", "Leave", "FindID", "Disconnect", "Enqueue", "EndCall"} :
            /\ Goto(t, k) /\ th[t].pc \in {"Release", "FindUse", "FindID", "Disconnect"}
            /\ k \in Handling => th[t].pc \in Handling
      <4>1. Release(t) => th[t].back = "idle"
        BY Parts DEF Parted, ClosingSlots, Release, Step, At, Releasing
      <4> QED
        BY <2>1, <4>1 DEF Release, FindUse, FindID, Disconnect, Step, At, Handling
    <3>2. Turns(t, k, th[t].held)
      BY <1>1, <3>1, ThreadTurns
    <3> QED
      BY <3>1, <3>2 DEF Carrying, Handling, Batching, Unsent, Fill, Ided
  <2>2. CASE PostSend(t) \/ PostRecv(t) \/ (t = Acceptor /\ TakeSlot)
    <3>1. PICK x \in Kinds, k \in {"SetFlag", "WSARecv", "SetSock"} :
            /\ th' = [th EXCEPT ![t].held = th[t].held \cup {x}, ![t].pc = k]
            /\ th[t].pc \in {"PostSend", "PostRecv", "TakeSlot"}
            /\ k = "SetSock" => th[t].pc = "TakeSlot"
      <4>1. PostSend(t) => /\ th' = [th EXCEPT ![t].held = @ \cup {"post"}, ![t].pc = "SetFlag"]
                           /\ th[t].pc = "PostSend"
        BY DEF PostSend, Take, At
      <4>2. PostRecv(t) => /\ th' = [th EXCEPT ![t].held = @ \cup {"post"}, ![t].pc = "WSARecv"]
                           /\ th[t].pc = "PostRecv"
        BY DEF PostRecv, Take, At
      <4>3. t = Acceptor /\ TakeSlot =>
              /\ th' = [th EXCEPT ![t].held = @ \cup {"event"}, ![t].pc = "SetSock"]
              /\ th[t].pc = "TakeSlot"
        BY DEF TakeSlot, Take, At
      <4> QED
        BY <2>2, <4>1, <4>2, <4>3 DEF Kinds
    <3>2. Turns(t, k, th[t].held \cup {x})
      BY <1>1, <3>1, ThreadTurns
    <3> QED
      BY <3>1, <3>2 DEF Carrying, Handling, Batching, Unsent, Fill, Ided
  <2>3. CASE Zero(t) \/ Quit(t) \/ Recheck(t) \/ (t = Acceptor /\ (AcceptEnd \/ SetSock \/ SetUse))
    <3>1. PICK k \in {"EndEvent", "done", "PostSend", "SetID", "ResetFlag"} :
            /\ Goto(t, k) /\ th[t].pc \in {"Zero", "idle", "Recheck", "SetSock", "SetUse"}
            /\ k \in {"SetID", "ResetFlag"} => th[t].pc \in {"SetSock", "SetUse"}
      BY <2>3 DEF Zero, Quit, Recheck, AcceptEnd, SetSock, SetUse, Step, At
    <3>2. Turns(t, k, th[t].held)
      BY <1>1, <3>1, ThreadTurns
    <3> QED
      BY <3>1, <3>2 DEF Carrying, Handling, Batching, Unsent, Fill, Ided
  <2> QED
    BY <2>1, <2>2, <2>3
<1> QED
  BY <1>1, <1>2, <1>3, <1>4, <1>5, PlainTurn DEF Carrying

LEMMA PacketsWSARecv ==
  ASSUME AccountsInv, Callers = {}, Wares, NEW t \in Threads, WSARecv(t)
  PROVE  Wares'
<1>1. TypeOK /\ th[t].slot \in Slots /\ Session[th[t].slot].sock \in Ids /\ th[t].pc = "WSARecv"
  BY Parts, Typed, SessionFields DEF WSARecv, At
<1>2. UNCHANGED <<refs, emptySession>>
  BY DEF WSARecv, pool
<1>3. Plain(th[t].slot)
  <2>1. \/ UNCHANGED Session
        \/ \E x : Session' = [Session EXCEPT ![th[t].slot].RecvOver = x]
    BY DEF WSARecv
  <2> QED
    BY <1>1, <2>1, PlainUpdates
<1>4. NetPlain
  <2>1. UNCHANGED net \/ ShutDown(Session[th[t].slot].sock)
    BY DEF WSARecv
  <2> QED
    BY <1>1, <2>1, NetKeeps, NetAlikePlain
<1>5. PICK k \in {"EndEvent", "EndPost"}, h \in {th[t].held, th[t].held \ {"post"}} : Turns(t, k, h)
  <2>1. \/ th' = [th EXCEPT ![t].held = @ \ {"post"}, ![t].pc = "EndEvent"]
        \/ Goto(t, "EndPost")
    BY DEF WSARecv
  <2> QED
    BY <1>1, <2>1, ThreadTurns
<1>6. /\ "call" \in th[t].held => "call" \in h
      /\ k \notin Handling \cup Batching \cup Unsent
  BY DEF Handling, Batching, Unsent, Fill, Ided
<1> QED
  BY <1>1, <1>2, <1>3, <1>4, <1>5, <1>6, PlainTurn

LEMMA PacketsLeave ==
  ASSUME AccountsInv, Callers = {}, Wares, NEW t \in Threads, Leave(t)
  PROVE  Wares'
<1>1. TypeOK /\ th[t].slot \in Slots /\ th[t].pc = "Leave" /\ UNCHANGED <<refs, emptySession>>
  BY Parts, Typed DEF Leave, Step, At, pool
<1>2. Turns(t, "Close", th[t].held)
  BY <1>1, ThreadTurns DEF Leave, Step
<1>3. Plain(th[t].slot)
  BY <1>1, PlainUpdates DEF Leave
<1>4. NetPlain
  <2>1. PICK e : net' = [net EXCEPT ![e].leaves = net[e].leaves + 1]
    BY DEF Leave
  <2>2. net \in [Ids -> ConnType] /\ Conns \subseteq Ids
    BY <1>1, ConstantTypes DEF TypeOK
  <2> QED
    BY <2>1, <2>2 DEF ConnType, NetPlain
<1> QED
  BY <1>1, <1>2, <1>3, <1>4, PlainTurn DEF Handling, Batching, Unsent, Fill, Ided

\* No slot is free for a connection.
LEMMA PacketsAcceptsNone ==
  ASSUME AccountsInv, Callers = {}, Wares, NEW c \in Conns, AcceptsNone(c), UNCHANGED refs
  PROVE  Wares'
<1>1. PICK t \in Threads : t = Acceptor
  BY ConstantTypes
<1>2. TypeOK /\ th[t].slot \in Slots /\ th[t].pc = "idle" /\ UNCHANGED <<refs, emptySession>>
  BY <1>1, Parts, Typed DEF AcceptsNone
<1>3. Turns(t, "done", th[t].held)
  BY <1>1, <1>2, ThreadTurns DEF AcceptsNone
<1>4. Plain(th[t].slot)
  BY <1>2, PlainUpdates DEF AcceptsNone
<1>5. NetPlain
  <2>1. net \in [Ids -> ConnType] /\ Conns \subseteq Ids
    BY <1>2, ConstantTypes DEF TypeOK
  <2> QED
    BY <2>1 DEF AcceptsNone, ConnType, NetPlain
<1> QED
  BY <1>2, <1>3, <1>4, <1>5, PlainTurn DEF Handling, Batching, Unsent, Fill, Ided

LEMMA PacketsWaits ==
  ASSUME AccountsInv, Callers = {}, Wares, NEW w \in Threads, Waits(w), UNCHANGED refs
  PROVE  Wares'
<1>1. TypeOK /\ th[w].slot \in Slots /\ Session[th[w].slot].sock \in Ids
  BY Parts, Typed, SessionFields
<1>2. Turns(w, "PostRecv", th[w].held)
  BY <1>1, ThreadTurns DEF Waits
<1>3. Plain(th[w].slot)
  BY <1>1, PlainUpdates DEF Waits
<1>4. NetPlain
  BY <1>1, NetKeeps, NetAlikePlain DEF Waits
<1> QED
  BY <1>1, <1>2, <1>3, <1>4, PlainTurn DEF Waits, Handling, Batching, Unsent, Fill, Ided

\* Stop, a client that goes, and what is not the server's.
LEMMA PacketsOutside ==
  ASSUME AccountsInv, Callers = {}, Wares,
         Stop \/ UNCHANGED vars \/ \E c \in Conns : PeerClose(c)
  PROVE  Wares'
<1>1. PICK t \in Threads : t = Acceptor
  BY ConstantTypes
<1>2. /\ UNCHANGED <<Session, th, refs, emptySession>> /\ TypeOK /\ th[t].slot \in Slots
  BY Parts, Typed DEF Stop, StopListen, StopShut, StopQuit, StopWait, PeerClose, vars, pool
<1>3. Turns(t, th[t].pc, th[t].held)
  BY <1>2, ThreadTurns
<1>4. Plain(th[t].slot)
  BY <1>2, PlainUpdates
<1>5. NetAlike
  <2>1. CASE UNCHANGED net
    BY <1>2, <2>1, NetKeeps, ConstantTypes
  <2>2. CASE StopShut
    <3>1. UNCHANGED net \/ ShutDown(Session[sweep].sock)
      BY <2>2 DEF StopShut
    <3>2. sweep \in Slots => Session[sweep].sock \in Ids
      BY <1>2, SessionFields DEF TypeOK
    <3> QED
      BY <1>2, <2>1, <2>2, <3>1, <3>2, NetKeeps DEF StopShut
  <2>3. CASE \E c \in Conns : PeerClose(c)
    BY <1>2, <2>3, NetKeeps, ConstantTypes DEF PeerClose
  <2> QED
    BY <2>1, <2>2, <2>3 DEF Stop, StopListen, StopQuit, StopWait, vars
<1>6. th[t].pc \in {"Find", "FreeMsg"} => "call" \in th[t].held \/ th[t].pc \in {"Find", "FreeMsg"}
  OBVIOUS
<1> QED
  BY <1>2, <1>3, <1>4, <1>5, <1>6, PlainTurn, NetAlikePlain

-----------------------------------------------------------------------------
(* SendFlag *)

LEMMA TurnHanded ==
  ASSUME TypeOK, Handed, NEW t \in Threads, NEW k, NEW h, Turns(t, k, h),
         QueuesPlain, NetPlain, UNCHANGED refs, Carrying(t, k, h),
         k \in Handling => th[t].pc \in Handling
  PROVE  Handed'
<1>1. /\ Alone(t) /\ th'[t].pc = k /\ th'[t].held = h /\ th'[t].msg = th[t].msg
  BY DEF Turns, Stays
<1>2. /\ \A x \in Slots : Line(x)' = Line(x) /\ Session'[x].SessionID = Session[x].SessionID
      /\ \A c \in Conns : ConnLike(c)
  BY PlainConn
<1>3. th[t].msg # NoPack => "call" \in h \/ k \in {"Find", "FreeMsg"}
  BY DEF Handed, Users, Carrying
<1> QED
  BY <1>1, <1>2, <1>3, StillStep

\* SendFlag is set or cleared; without it nothing is left in SendPack.
LEMMA FlagTurn ==
  ASSUME TypeOK, Wares, NEW t \in Threads, NEW s, s = th[t].slot, NEW k, NEW x \in BOOLEAN,
         Turns(t, k, th[t].held), Session' = [Session EXCEPT ![s].SendFlag = x],
         UNCHANGED <<refs, net, emptySession>>, Carrying(t, k, th[t].held),
         k \notin Handling, ~x => Session[s].SendPack = <<>>,
         k \in Batching => th[t].batch = Session[s].SendPack,
         k \in Unsent => Session[s].SendPack = <<>>
  PROVE  Wares'
<1>1. s \in Slots /\ Session \in [Slots -> SessionType]
  BY Typed DEF TypeOK
<1>2. /\ OnlyAt(s) /\ QueuesPlain /\ Session'[s].SendOver = Session[s].SendOver
      /\ Session'[s].SendFlag = x /\ Session'[s].SendPack = Session[s].SendPack
  BY <1>1 DEF SessionType, OnlyAt, QueuesPlain
<1>3. NetPlain
  BY ConstantTypes, NetKeeps, NetAlikePlain
<1>4. Handed /\ Packs /\ PackAt(s)
  BY <1>1 DEF Wares, Packs
<1>5. Handed'
  BY <1>2, <1>3, <1>4, TurnHanded
<1>6. ToSet(emptySession)' = ToSet(emptySession)
  BY DEF ToSet
<1>7. PackAt(s)'
  BY <1>2, <1>4, <1>6 DEF PackAt
<1>8. PackOf(t)' /\ Alone(t)
  BY <1>2 DEF PackOf, Turns, Stays
<1>9. Packs'
  BY <1>1, <1>2, <1>4, <1>6, <1>7, <1>8, PacksStep
<1> QED
  BY <1>5, <1>9 DEF Wares

\* A sender that gets the flag finds SendPack, like its buf[], empty.
LEMMA PacketsFlag ==
  ASSUME AccountsInv, Callers = {}, Served, Wares, NEW t \in Threads,
         SetFlag(t) \/ ClearFlag(t) \/ (t = Acceptor /\ ResetFlag)
  PROVE  Wares'
<1>1. PICK s \in Slots : s = th[t].slot
  BY Parts, Typed
<1>2. TypeOK /\ UNCHANGED <<refs, net, emptySession>>
  BY Parts DEF SetFlag, ClearFlag, ResetFlag, pool
<1>3. PackAt(s) /\ PackOf(t) /\ Session[s].SendFlag \in BOOLEAN
  BY <1>1, <1>2, SessionFields DEF Wares, Packs, TypeOK
<1>4. CASE SetFlag(t)
  <2>1. PICK k \in {"EndPost", "Dequeue"} :
          /\ Goto(t, k) /\ th[t].pc = "SetFlag"
          /\ k = "Dequeue" => ~Session[s].SendFlag
    BY <1>1, <1>3, <1>4 DEF SetFlag, Step, At
  <2>2. Turns(t, k, th[t].held) /\ Carrying(t, k, th[t].held)
    BY <1>2, <2>1, ThreadTurns DEF Carrying
  <2>3. th[t].batch = <<>>
    BY <2>1 DEF Served, Buffers, Buffer, Batching
  <2>4. k = "Dequeue" => Session[s].SendPack = <<>>
    BY <1>3, <2>1 DEF PackAt
  <2>5. k \notin Handling \cup Unsent /\ (k \in Batching => k = "Dequeue")
    BY DEF Handling, Batching, Unsent, Fill, Ided
  <2> QED
    BY <1>1, <1>2, <1>4, <2>2, <2>3, <2>4, <2>5, FlagTurn DEF SetFlag
<1>5. CASE ClearFlag(t) \/ (t = Acceptor /\ ResetFlag)
  <2>1. PICK k \in {"EndCall", "EndEvent", "Join"} :
          /\ Goto(t, k) /\ th[t].pc \in {"ClearFlag", "ResetFlag"}
          /\ Session' = [Session EXCEPT ![s].SendFlag = FALSE]
    BY <1>1, <1>5 DEF ClearFlag, ResetFlag, Step, At, AfterPost
  <2>2. Turns(t, k, th[t].held) /\ Carrying(t, k, th[t].held)
    BY <1>2, <2>1, ThreadTurns DEF Carrying
  <2>3. Session[s].SendPack = <<>>
    BY <1>1, <1>3, <2>1 DEF PackOf, Unsent, Fill, Ided
  <2>4. k \notin Handling \cup Batching
    BY DEF Handling, Batching
  <2> QED
    BY <1>1, <1>2, <2>1, <2>2, <2>3, <2>4, FlagTurn
<1> QED
  BY <1>4, <1>5

-----------------------------------------------------------------------------
(* PostSend *)

\* A step of thread t that leaves every packet in its line, if not in its place.
LEMMA LinedHanded ==
  ASSUME TypeOK, Handed, NEW t \in Threads, NEW k, Alone(t), th'[t].pc = k,
         th'[t].msg = th[t].msg, Carrying(t, k, th'[t].held),
         \A x \in Slots : Line(x)' = Line(x) /\ Session'[x].SessionID = Session[x].SessionID,
         \A x \in Slots : Session'[x].RecvQ = Session[x].RecvQ,
         NetPlain, UNCHANGED refs, k \in Handling => th[t].pc \in Handling
  PROVE  Handed'
<1>1. ASSUME NEW c \in Conns PROVE ConnLike(c)
  <2>1. net[c].index \in Slots
    BY ConnFields, ConstantTypes DEF TypeOK
  <2>2. Unread(c)' = Unread(c)
    BY <2>1 DEF Unread, NetPlain
  <2> QED
    BY <2>2 DEF ConnLike, NetPlain
<1>2. th[t].msg # NoPack => "call" \in th'[t].held \/ k \in {"Find", "FreeMsg"}
  BY DEF Handed, Users, Carrying
<1> QED
  BY <1>1, <1>2, StillStep

\* SendQ and SendPack never hold more than the greeting and the answers to all requests.
LEMMA LineShort ==
  ASSUME TypeOK, Wares, NEW s \in Slots
  PROVE  Len(Session[s].SendPack) + Len(Session[s].SendQ) <= MaxMsgs + 1
<1>1. PICK a \in Seq(Packets), q \in Seq(Packets) :
        a = Session[s].SendPack /\ q = Session[s].SendQ
  BY LineType
<1>2. Line(s) \in Seq(Packets) /\ IsInjective(Line(s))
  BY LineType DEF Wares, Handed, Lines
<1>3. PICK c : c = Session[s].SessionID
  OBVIOUS
<1>4. \A p \in ToSet(Line(s)) : \E n \in 0 .. MaxMsgs : p = <<c, n>>
  BY <1>3 DEF Wares, Handed, Lines, Given
<1>5. Len(Line(s)) <= MaxMsgs + 1
  BY <1>2, <1>4, LineBound
<1>6. Len(a \o q) = Len(a) + Len(q)
  OBVIOUS
<1> QED
  BY <1>1, <1>5, <1>6 DEF Line

\* The sender is alone with SendPack.
LEMMA SoleSender ==
  ASSUME AccountsInv, Callers = {}, NEW t \in Threads, NEW s \in Slots, s = th[t].slot,
         th[t].pc \in Sender
  PROVE  /\ \A u \in Threads \ {t} : th[u].slot = s => th[u].pc \notin Batching \cup Unsent
         /\ Session[s].SendFlag /\ Session[s].SendOver = <<>>
         /\ s \notin ToSet(emptySession)
<1>1. TypeOK /\ OneSender
  BY Parts
<1>2. /\ \A u \in Threads \ {t} : th[u].slot = s => th[u].pc \notin Sender
      /\ Session[s].SendFlag
  BY <1>1, OnlySender
<1>3. Session[s].SendOver = <<>>
  <2>1. Cardinality(Senders(s)) + Len(Session[s].SendOver) <= 1
    BY <1>1, <1>2 DEF OneSender, Senders
  <2>2. Cardinality(Senders(s)) = Cardinality(Senders(s) \ {t}) + 1
    BY CountSplit DEF Senders
  <2>3. Cardinality(Senders(s) \ {t}) \in Nat
    BY SendersFinite DEF Senders
  <2>4. PICK q \in Seq([sock : Ids, buf : Seq(Packets)]) : q = Session[s].SendOver
    BY <1>1, SessionFields DEF TypeOK
  <2>5. Len(q) \in Nat /\ Len(q) <= 0
    BY <2>1, <2>2, <2>3, <2>4
  <2> QED
    BY <2>4, <2>5
<1>4. th[t].pc \in Serving
  BY DEF Sender, Serving, Labels, Owning, Releasing
<1>5. /\ \A u \in Threads : th[u].slot = s => th[u].pc \notin Owning
      /\ s \notin ToSet(emptySession)
  BY <1>4, ServingThreads DEF Busy
<1>6. Batching \cup Unsent \subseteq Sender \cup Owning
  BY DEF Batching, Unsent, Fill, Ided, Sender, Owning, Releasing
<1> QED
  BY <1>2, <1>3, <1>5, <1>6

\* A packet goes from SendQ to buf[] and SendPack; buf[] is never full then.
LEMMA PacketsDequeue ==
  ASSUME AccountsInv, Roomy, Served, Wares, NEW t \in Threads, Dequeue(t)
  PROVE  Wares'
<1>1. /\ th[t].pc = "Dequeue" /\ UNCHANGED <<net, refs, emptySession>> /\ TypeOK
      /\ MaxMsgs < SendbufMax
  BY Parts DEF Dequeue, At, pool, Roomy, Echoes
<1>2. PICK s \in Slots : s = th[t].slot
  BY <1>1, Typed
<1>3. /\ Session[s].SendQ \in Seq(Packets) /\ Session[s].SendPack \in Seq(Packets)
      /\ Session \in [Slots -> SessionType] /\ th \in [Threads -> ThreadType]
  BY <1>1, SessionFields DEF TypeOK
<1>4. /\ PackAt(s) /\ PackOf(t) /\ th[t].batch = Session[s].SendPack /\ Handed /\ Packs
  BY <1>1, <1>2 DEF Wares, Packs, PackOf, Batching
<1>5. NetPlain
  BY <1>1, NetKeeps, NetAlikePlain, ConstantTypes
<1>6. ToSet(emptySession)' = ToSet(emptySession)
  BY <1>1 DEF ToSet
<1>0. \/ /\ Session[s].SendQ = <<>> /\ UNCHANGED Session
         /\ Goto(t, IF Len(th[t].batch) = 0 THEN "EndPostEmpty" ELSE "WSASend")
      \/ /\ Session[s].SendQ # <<>> /\ Len(th[t].batch) < SendbufMax
         /\ th' = [th EXCEPT ![t].batch = Append(@, Head(Session[s].SendQ))]
         /\ Session' = [Session EXCEPT ![s].SendQ = Tail(@),
                                       ![s].SendPack = Append(@, Head(Session[s].SendQ))]
      \/ Session[s].SendQ # <<>> /\ Len(th[t].batch) >= SendbufMax
  BY <1>2 DEF Dequeue
<1>7. CASE /\ Session[s].SendQ = <<>> /\ UNCHANGED Session
           /\ Goto(t, IF Len(th[t].batch) = 0 THEN "EndPostEmpty" ELSE "WSASend")
  <2>1. PICK k \in {"EndPostEmpty", "WSASend"} :
          Goto(t, k) /\ (k = "EndPostEmpty" => Len(th[t].batch) = 0)
    BY <1>7
  <2>2. Turns(t, k, th[t].held) /\ Plain(s)
    BY <1>1, <1>7, <2>1, ThreadTurns, PlainUpdates
  <2>3. k = "EndPostEmpty" => Session[s].SendPack = <<>>
    BY <1>3, <1>4, <2>1
  <2>4. /\ k \notin Handling /\ (k \in Batching => th[t].pc \in Batching)
        /\ (k \in Unsent => k = "EndPostEmpty")
    BY <1>1 DEF Handling, Batching, Unsent, Fill, Ided
  <2> QED
    BY <1>1, <1>2, <1>5, <2>2, <2>3, <2>4, PlainTurn
<1>8. CASE /\ Session[s].SendQ # <<>>
           /\ th' = [th EXCEPT ![t].batch = Append(@, Head(Session[s].SendQ))]
           /\ Session' = [Session EXCEPT ![s].SendQ = Tail(@),
                                         ![s].SendPack = Append(@, Head(Session[s].SendQ))]
  <2> DEFINE b == Append(Session[s].SendPack, Head(Session[s].SendQ))
             r == Tail(Session[s].SendQ)
  <2>1. Session' = [Session EXCEPT ![s].SendQ = r, ![s].SendPack = b]
    BY <1>8
  <2>2. th' = [th EXCEPT ![t].batch = b]
    BY <1>4, <1>8
  <2>3. b \o r = Session[s].SendPack \o Session[s].SendQ
    BY <1>3, <1>8, LineMoves
  <2> HIDE DEF b, r
  <2>4. /\ Alone(t) /\ th'[t].pc = "Dequeue" /\ th'[t].msg = th[t].msg /\ th'[t].batch = b
        /\ th'[t].held = th[t].held /\ th'[t].slot = s
    BY <1>1, <1>2, <1>3, <2>2 DEF ThreadType, Alone
  <2>5. /\ OnlyAt(s) /\ Session'[s].SendPack = b /\ Session'[s].SendQ = r
        /\ Session'[s].SessionID = Session[s].SessionID
        /\ Session'[s].RecvQ = Session[s].RecvQ
        /\ Session'[s].SendOver = Session[s].SendOver
        /\ Session'[s].SendFlag = Session[s].SendFlag
    BY ONLY <1>3, <2>1, s \in Slots DEF SessionType, OnlyAt
  <2>6. /\ \A x \in Slots : Line(x)' = Line(x) /\ Session'[x].SessionID = Session[x].SessionID
        /\ \A x \in Slots : Session'[x].RecvQ = Session[x].RecvQ
    BY <2>3, <2>5 DEF Line, OnlyAt
  <2>7. Handed'
    BY <1>1, <1>4, <1>5, <2>4, <2>6, LinedHanded DEF Carrying
  <2>8. /\ \A u \in Threads \ {t} : th[u].slot = s => th[u].pc \notin Batching \cup Unsent
        /\ Session[s].SendFlag /\ Session[s].SendOver = <<>> /\ s \notin ToSet(emptySession)
    BY <1>1, <1>2, SoleSender DEF Roomy, Echoes, Sender
  <2>9. PackAt(s)'
    BY <1>6, <2>5, <2>8 DEF PackAt
  <2>10. PackOf(t)'
    BY <2>4, <2>5 DEF PackOf, Unsent, Fill, Ided
  <2>11. Packs'
    BY <1>1, <1>4, <1>6, <2>4, <2>5, <2>8, <2>9, <2>10, PacksStep
  <2> QED
    BY <2>7, <2>11 DEF Wares
<1>9. CASE Session[s].SendQ # <<>> /\ Len(th[t].batch) >= SendbufMax
  <2>1. PICK n \in Nat, m \in Nat : n = Len(Session[s].SendPack) /\ m = Len(Session[s].SendQ)
    BY <1>3
  <2>2. n + m <= MaxMsgs + 1
    BY <1>1, <2>1, LineShort
  <2>3. m >= 1
    BY <1>3, <1>9, <2>1
  <2>4. MaxMsgs \in Nat /\ SendbufMax \in Nat /\ n >= SendbufMax /\ MaxMsgs < SendbufMax
    BY <1>1, <1>4, <1>9, <2>1, SizesAssumption
  <2>5. FALSE
    BY ONLY <2>2, <2>3, <2>4, n \in Nat, m \in Nat
  <2> QED
    BY <2>5
<1> QED
  BY <1>0, <1>7, <1>8, <1>9

\* What the kernel sends is SendPack; a WSASend that fails leaves it there.
LEMMA PacketsWSASend ==
  ASSUME AccountsInv, Callers = {}, Wares, NEW t \in Threads, WSASend(t)
  PROVE  Wares'
<1>1. /\ th[t].pc = "WSASend" /\ UNCHANGED <<refs, emptySession>> /\ TypeOK
  BY Parts DEF WSASend, At, pool
<1>2. PICK s \in Slots : s = th[t].slot
  BY <1>1, Typed
<1>3. /\ Session \in [Slots -> SessionType] /\ th \in [Threads -> ThreadType]
      /\ net \in [Ids -> ConnType] /\ Conns \subseteq Ids /\ Session[s].sock \in Ids
  BY <1>1, SessionFields, ConstantTypes DEF TypeOK
<1>4. /\ PackAt(s) /\ PackOf(t) /\ th[t].batch = Session[s].SendPack /\ Handed /\ Packs
  BY <1>1, <1>2 DEF Wares, Packs, PackOf, Batching
<1>5. /\ \A u \in Threads \ {t} : th[u].slot = s => th[u].pc \notin Batching \cup Unsent
      /\ Session[s].SendFlag /\ Session[s].SendOver = <<>> /\ s \notin ToSet(emptySession)
  BY <1>1, <1>2, SoleSender DEF Sender
<1>6. ToSet(emptySession)' = ToSet(emptySession)
  BY <1>1 DEF ToSet
<1>7. PICK c \in Ids : Sends(t, s, c) \/ Fails(t, s, c)
  <2>1. PICK x, c : Sends(t, x, c) \/ Fails(t, x, c)
    BY SendsOrFails
  <2>2. x = s /\ c = Session[s].sock
    BY <1>2, <2>1 DEF Sends, Fails
  <2> QED
    BY <1>3, <2>1, <2>2
<1>8. PICK k \in {"EndCall", "EndEvent", "EndPost"}, h \in {th[t].held, th[t].held \ {"post"}} :
        /\ Alone(t) /\ th'[t].pc = k /\ th'[t].msg = th[t].msg /\ th'[t].held = h
        /\ th'[t].slot = s
  <2>1. CASE Sends(t, s, c)
    <3>1. PICK k \in {"EndCall", "EndEvent"} : k = AfterPost(t)
      BY DEF AfterPost
    <3>2. PICK h : h = th[t].held \ {"post"}
      OBVIOUS
    <3>3. th' = [th EXCEPT ![t].batch = <<>>, ![t].held = h, ![t].pc = k]
      BY <2>1, <3>1, <3>2 DEF Sends
    <3>4. /\ Alone(t) /\ th'[t].pc = k /\ th'[t].msg = th[t].msg /\ th'[t].held = h
          /\ th'[t].slot = s
      BY <1>2, <1>3, <3>3 DEF ThreadType, Alone
    <3> QED
      BY <3>2, <3>4
  <2>2. CASE Fails(t, s, c)
    <3>1. th' = [th EXCEPT ![t].batch = <<>>, ![t].pc = "EndPost"]
      BY <2>2 DEF Fails
    <3>2. /\ Alone(t) /\ th'[t].pc = "EndPost" /\ th'[t].msg = th[t].msg
          /\ th'[t].held = th[t].held /\ th'[t].slot = s
      BY <1>2, <1>3, <3>1 DEF ThreadType, Alone
    <3> QED
      BY <3>2
  <2> QED
    BY <1>7, <2>1, <2>2
<1>9. NetPlain
  <2>1. CASE Sends(t, s, c)
    <3>1. PICK x : net' = [net EXCEPT ![c].wire = x]
      BY <2>1 DEF Sends
    <3> QED
      BY <1>3, <3>1 DEF ConnType, NetPlain
  <2>2. CASE Fails(t, s, c)
    BY <1>1, <2>2, NetKeeps, NetAlikePlain DEF Fails
  <2> QED
    BY <1>7, <2>1, <2>2
<1>10. /\ OnlyAt(s) /\ QueuesPlain
       /\ Session'[s].SendFlag = Session[s].SendFlag
       /\ Session'[s].SendPack = Session[s].SendPack
       /\ \/ Session'[s].SendOver = <<>>
          \/ Session'[s].SendOver = <<[sock |-> c, buf |-> th[t].batch]>>
  <2>1. CASE Fails(t, s, c)
    BY <1>5, <2>1 DEF OnlyAt, QueuesPlain, Fails
  <2>2. CASE Sends(t, s, c)
    <3> DEFINE e == Append(Session[s].SendOver, [sock |-> c, buf |-> th[t].batch])
    <3>1. Session' = [Session EXCEPT ![s].SendOver = e]
      BY <2>2 DEF Sends
    <3>2. e = <<[sock |-> c, buf |-> th[t].batch]>>
      BY <1>5
    <3> HIDE DEF e
    <3>3. OnlyAt(s) /\ QueuesPlain /\ Session'[s].SendFlag = Session[s].SendFlag
          /\ Session'[s].SendPack = Session[s].SendPack /\ Session'[s].SendOver = e
      BY <1>3, <3>1 DEF SessionType, OnlyAt, QueuesPlain
    <3> QED
      BY <3>2, <3>3
  <2> QED
    BY <1>7, <2>1, <2>2
<1>11. Handed'
  <2>1. \A x \in Slots : Line(x)' = Line(x) /\ Session'[x].SessionID = Session[x].SessionID
    BY <1>10 DEF Line, QueuesPlain
  <2>2. Carrying(t, k, h) /\ k \notin Handling
    BY <1>1 DEF Carrying, Handling
  <2> QED
    BY <1>1, <1>4, <1>8, <1>9, <1>10, <2>1, <2>2, LinedHanded DEF QueuesPlain
<1>12. PackAt(s)'
  <2>1. \A i \in DOMAIN Session'[s].SendOver : Session'[s].SendOver[i].buf = th[t].batch
    BY <1>10
  <2> QED
    BY <1>4, <1>5, <1>6, <1>10, <2>1 DEF PackAt
<1>13. PackOf(t)'
  BY <1>8 DEF PackOf, Batching, Unsent, Fill, Ided
<1>14. Packs'
  BY <1>1, <1>4, <1>6, <1>8, <1>10, <1>12, <1>13, PacksStep
<1> QED
  BY <1>11, <1>14 DEF Wares

-----------------------------------------------------------------------------
(* Completions *)

\* A worker that is free has no packet.
LEMMA BegunEmpty ==
  ASSUME AccountsInv, Callers = {}, Wares, NEW w \in Threads, NEW s \in Slots, NEW l, Begin(w, s, l)
  PROVE  th[w].msg = NoPack /\ th'[w].msg = NoPack
<1>1. th[w].pc = "idle" /\ th' = [th EXCEPT ![w].slot = s, ![w].held = {"event"}, ![w].pc = l]
  BY DEF Begin, At
<1>2. th \in [Threads -> ThreadType]
  BY Parts DEF TypeOK
<1>3. "call" \notin th[w].held
  BY <1>1, AtWork DEF Calling, Sending
<1>4. th[w].msg = NoPack
  BY <1>1, <1>3 DEF Wares, Handed, Users
<1> QED
  BY <1>1, <1>2, <1>4 DEF ThreadType

\* The WSASend of a session that completes was its only one.
LEMMA SentTaken ==
  ASSUME AccountsInv, NEW s \in Slots, NEW i \in DOMAIN Session[s].SendOver
  PROVE  RemoveAt(Session[s].SendOver, i) = <<>>
<1>1. TypeOK /\ OneSender
  BY Parts
<1>2. PICK q \in Seq([sock : Ids, buf : Seq(Packets)]) : q = Session[s].SendOver
  BY <1>1, SessionFields DEF TypeOK
<1>3. Cardinality(Senders(s)) + Len(q) <= Flag(s) /\ Flag(s) \in {0, 1}
  BY <1>1, <1>2 DEF OneSender, Senders, Flag
<1>4. Cardinality(Senders(s)) \in Nat
  <2>1. Senders(s) \in SUBSET Threads
    BY DEF Senders
  <2> QED
    BY <2>1, SendersFinite
<1>5. Len(q) <= 1 /\ i \in DOMAIN q
  BY <1>2, <1>3, <1>4
<1>6. RemoveAt(q, i) \in Seq([sock : Ids, buf : Seq(Packets)]) /\ Len(RemoveAt(q, i)) = Len(q) - 1
  BY <1>5, RemoveAtType, RemoveAtLength
<1>7. PICK r \in Seq([sock : Ids, buf : Seq(Packets)]) : r = RemoveAt(q, i)
  BY <1>6
<1>8. Len(r) = 0
  BY <1>5, <1>6, <1>7
<1> QED
  BY <1>2, <1>7, <1>8

LEMMA PacketsCompletion ==
  ASSUME AccountsInv, Callers = {}, Served, Wares, NEW w \in Workers, SendDone(w) \/ ZeroDone(w)
  PROVE  Wares'
<1>1. PICK s \in Slots, k \in {"FreeSent", "Zero"} :
        /\ Begin(w, s, k)
        /\ \/ \E i \in DOMAIN Session[s].RecvOver :
                Session' = [Session EXCEPT ![s].RecvOver = RemoveAt(@, i)]
           \/ \E i \in DOMAIN Session[s].SendOver :
                Session' = [Session EXCEPT ![s].SendOver = RemoveAt(@, i)]
  BY DEF SendDone, ZeroDone
<1>2. w \in Threads /\ UNCHANGED <<emptySession, net, refs>>
  BY DEF SendDone, ZeroDone, pool, Threads
<1>3. /\ Alone(w) /\ th'[w].pc = k /\ th'[w].slot = s
      /\ th[w].msg = NoPack /\ th'[w].msg = NoPack
  BY <1>1, <1>2, Begun, BegunEmpty
<1>4. TypeOK /\ Session \in [Slots -> SessionType]
  BY Parts DEF TypeOK
<1>5. /\ OnlyAt(s) /\ QueuesPlain /\ Session'[s].SendFlag = Session[s].SendFlag
      /\ Session'[s].SendOver = Session[s].SendOver \/ Session'[s].SendOver = <<>>
  <2>1. CASE \E i \in DOMAIN Session[s].RecvOver :
               Session' = [Session EXCEPT ![s].RecvOver = RemoveAt(@, i)]
    <3>1. PICK x : Session' = [Session EXCEPT ![s].RecvOver = x]
      BY <2>1
    <3> QED
      BY <1>4, <3>1, PlainUpdates DEF Plain
  <2>2. CASE \E i \in DOMAIN Session[s].SendOver :
               Session' = [Session EXCEPT ![s].SendOver = RemoveAt(@, i)]
    <3>1. Session' = [Session EXCEPT ![s].SendOver = <<>>]
      BY <2>2, SentTaken
    <3> QED
      BY <1>4, <3>1 DEF SessionType, OnlyAt, QueuesPlain
  <2> QED
    BY <1>1, <2>1, <2>2
<1>6. NetPlain
  BY <1>2, <1>4, NetKeeps, NetAlikePlain, ConstantTypes
<1>7. Handed /\ Packs /\ PackAt(s)
  BY DEF Wares, Packs
<1>8. k \notin Handling \cup Batching \cup Unsent
  BY DEF Handling, Batching, Unsent, Fill, Ided
<1>9. \A x \in Slots : Line(x)' = Line(x) /\ Session'[x].SessionID = Session[x].SessionID
  BY <1>5 DEF Line, QueuesPlain
<1>10. Handed'
  <2>1. \A c \in Conns : ConnLike(c)
    BY <1>4, <1>5, <1>6, PlainConn
  <2> QED
    BY <1>2, <1>3, <1>7, <1>8, <1>9, <2>1, StillStep
<1>11. ToSet(emptySession)' = ToSet(emptySession)
  BY <1>2 DEF ToSet
<1>12. PackAt(s)'
  BY <1>5, <1>7, <1>11 DEF PackAt, QueuesPlain
<1>13. PackOf(w)'
  BY <1>3, <1>8 DEF PackOf
<1>14. Packs'
  BY <1>2, <1>3, <1>4, <1>5, <1>7, <1>11, <1>12, <1>13, PacksStep DEF QueuesPlain
<1> QED
  BY <1>10, <1>14 DEF Wares

\* A connection that is present is the session in its slot.
LEMMA OtherConn ==
  ASSUME AccountsInv, Served, NEW d \in Conns, net[d].joins = 1, net[d].leaves = 0
  PROVE  /\ net[d].index \in Slots /\ Session[net[d].index].SessionID = d /\ Busy(net[d].index)
<1>1. net[d].index \in Slots
  BY Parts, ConnFields, ConstantTypes DEF TypeOK
<1> QED
  BY <1>1 DEF Served, Stages

\* What arrives in RecvQ is what was under way.
LEMMA PacketsRecvDone ==
  ASSUME AccountsInv, Callers = {}, Served, Wares, NEW w \in Workers, RecvDone(w)
  PROVE  Wares'
<1>1. PICK s \in Slots, c \in Conns, q \in Seq(Units), r \in Seq(Units), n \in Nat :
        Receives(w, s, c, q, r, n)
  BY RecvDoneReceives
<1>2. w \in Threads /\ UNCHANGED <<emptySession, refs>> /\ TypeOK
  BY Parts DEF RecvDone, pool, Threads
<1>3. /\ Alone(w) /\ th'[w].pc = "Parse" /\ th'[w].slot = s
      /\ th[w].msg = NoPack /\ th'[w].msg = NoPack
  BY <1>1, <1>2, Begun, BegunEmpty DEF Receives
<1>4. /\ c = Session[s].SessionID /\ q = Session[s].RecvQ /\ r = net[c].inbound
      /\ n \in 1 .. Len(r) /\ InUse(s)
      /\ OnlyAt(s) /\ IdsSame /\ Session'[s].RecvQ = q \o SubSeq(r, 1, n)
      /\ Session'[s].SendQ = Session[s].SendQ /\ Session'[s].SendPack = Session[s].SendPack
      /\ Session'[s].SendFlag = Session[s].SendFlag /\ Session'[s].SendOver = Session[s].SendOver
  BY <1>1 DEF Receives
<1>5. /\ \A d \in Conns \ {c} : net'[d] = net[d]
      /\ net'[c].index = net[c].index /\ net'[c].joins = net[c].joins
      /\ net'[c].leaves = net[c].leaves /\ net'[c].asked = net[c].asked
      /\ net'[c].inbound = SubSeq(r, n + 1, Len(r))
  BY <1>1 DEF Receives
<1>6. ASSUME NEW d \in Conns PROVE ConnLike(d)
  <2>1. CASE d = c
    <3>1. net[c].index = s
      BY <1>4, SessionConn
    <3>2. (q \o SubSeq(r, 1, n)) \o SubSeq(r, n + 1, Len(r)) = q \o r
      BY <1>4, ReceivedJoins
    <3>3. Unread(c)' = Unread(c)
      BY <1>4, <1>5, <3>1, <3>2 DEF Unread
    <3> QED
      BY <1>5, <2>1, <3>3 DEF ConnLike
  <2>2. CASE d # c
    <3>1. ASSUME net[d].joins = 1, net[d].leaves = 0 PROVE Unread(d)' = Unread(d)
      <4>1. net[d].index \in Slots /\ net[d].index # s
        BY <1>4, <2>2, <3>1, OtherConn
      <4> QED
        BY <1>4, <1>5, <2>2, <4>1 DEF Unread, OnlyAt
    <3> QED
      BY <1>5, <2>2, <3>1 DEF ConnLike
  <2> QED
    BY <2>1, <2>2
<1>7. Handed /\ Packs /\ PackAt(s)
  BY DEF Wares, Packs
<1>8. "Parse" \notin Handling \cup Batching \cup Unsent
  BY DEF Handling, Batching, Unsent, Fill, Ided
<1>9. \A x \in Slots : Line(x)' = Line(x) /\ Session'[x].SessionID = Session[x].SessionID
  BY <1>4 DEF Line, OnlyAt, IdsSame
<1>10. Handed'
  BY <1>2, <1>3, <1>6, <1>7, <1>8, <1>9, StillStep
<1>11. ToSet(emptySession)' = ToSet(emptySession)
  BY <1>2 DEF ToSet
<1>12. PackAt(s)'
  BY <1>4, <1>7, <1>11 DEF PackAt
<1>13. PackOf(w)'
  BY <1>3, <1>8 DEF PackOf
<1>14. Packs'
  BY <1>2, <1>3, <1>4, <1>7, <1>11, <1>12, <1>13, PacksStep
<1> QED
  BY <1>10, <1>14 DEF Wares

-----------------------------------------------------------------------------
(* FindLockSession, and SessionRelease as long as it finds no packet *)

LEMMA PacketsFind ==
  ASSUME AccountsInv, Callers = {}, Served, Wares, NEW t \in Threads, Find(t)
  PROVE  Wares'
<1>1. /\ TypeOK /\ OwnCall(t) /\ th[t].pc = "Find" /\ UNCHANGED <<emptySession, net, refs>>
  BY Parts DEF Served, OwnCalls, Find, At, pool
<1>2. PICK s \in Slots : s = th[t].slot
  BY <1>1, Typed
<1>3. th[t].arg = Session[s].SessionID
  BY <1>1, <1>2 DEF OwnCall, Handling
<1>4. InUse(s) /\ Session[s].IOCount # 0
  BY <1>1, <1>2, ServingThreads DEF Serving, Labels, Owning, Releasing
<1>5. net[th[t].arg].index = s
  BY <1>3, <1>4, SessionConn
<1>6. PICK h : h = th[t].held \cup {"call"}
  OBVIOUS
<1>7. th' = [th EXCEPT ![t].slot = s, ![t].held = h, ![t].pc = "FindUse"]
  BY <1>4, <1>5, <1>6 DEF Find
<1>8. Turns(t, "FindUse", h)
  BY <1>1, <1>2, <1>7 DEF TypeOK, ThreadType, Turns, Stays, Alone
<1>9. Plain(s)
  <2>1. \E x : Session' = [Session EXCEPT ![s].IOCount = x]
    BY <1>5 DEF Find
  <2> QED
    BY <1>1, <2>1, PlainUpdates
<1>10. NetPlain
  BY <1>1, NetKeeps, NetAlikePlain, ConstantTypes
<1>11. /\ "FindUse" \in Handling /\ th[t].pc \in Handling
       /\ "FindUse" \notin Batching \cup Unsent
  BY <1>1 DEF Handling, Batching, Unsent, Fill, Ided
<1> QED
  BY <1>1, <1>2, <1>6, <1>8, <1>9, <1>10, <1>11, PlainTurn

\* What is thrown away of RecvQ is no longer read by anyone.
LEMMA PacketsClose ==
  ASSUME AccountsInv, Callers = {}, Served, Wares, NEW t \in Threads, Close(t)
  PROVE  Wares'
<1>1. /\ th[t].pc = "Close" /\ Goto(t, "DrainQ") /\ UNCHANGED <<emptySession, refs>> /\ TypeOK
  BY Parts DEF Close, Step, At, pool
<1>2. PICK s \in Slots : s = th[t].slot
  BY <1>1, Typed
<1>3. /\ Session \in [Slots -> SessionType] /\ net \in [Ids -> ConnType] /\ Conns \subseteq Ids
      /\ Session[s].sock \in Ids
  BY <1>1, SessionFields, ConstantTypes DEF TypeOK
<1>4. Turns(t, "DrainQ", th[t].held)
  BY <1>1, ThreadTurns
<1>5. /\ Alone(t) /\ th'[t].pc = "DrainQ" /\ th'[t].msg = th[t].msg /\ th'[t].held = th[t].held
      /\ th'[t].slot = s
  BY <1>2, <1>4 DEF Turns, Stays
<1>6. /\ OnlyAt(s) /\ Session'[s].SendQ = Session[s].SendQ
      /\ Session'[s].SendPack = Session[s].SendPack
      /\ Session'[s].SendFlag = Session[s].SendFlag
      /\ Session'[s].SendOver = Session[s].SendOver
      /\ Session'[s].SessionID = Session[s].SessionID
  <2>1. Session' = [Session EXCEPT ![s].RecvQ = <<>>]
    BY <1>2 DEF Close
  <2> QED
    BY <1>3, <2>1 DEF SessionType, OnlyAt
<1>7. NetPlain
  <2>1. PICK e \in Ids : net' = [net EXCEPT ![e].sock = "closed"]
    BY <1>2, <1>3 DEF Close
  <2> QED
    BY <1>3, <2>1 DEF ConnType, NetPlain
<1>8. ASSUME NEW d \in Conns PROVE ConnLike(d)
  <2>1. ASSUME net[d].joins = 1, net[d].leaves = 0 PROVE Unread(d)' = Unread(d)
    <3>1. net[d].index \in Slots /\ Busy(net[d].index)
      BY <2>1, OtherConn
    <3>2. net[d].index # s
      BY <1>1, <1>2, <3>1 DEF Busy, Occupies, Emptying
    <3> QED
      BY <1>6, <1>7, <3>1, <3>2 DEF Unread, OnlyAt, NetPlain
  <2> QED
    BY <1>7, <2>1 DEF ConnLike, NetPlain
<1>9. Handed /\ Packs /\ PackAt(s)
  BY DEF Wares, Packs
<1>10. \A x \in Slots : Line(x)' = Line(x) /\ Session'[x].SessionID = Session[x].SessionID
  BY <1>6 DEF Line, OnlyAt
<1>11. "DrainQ" \notin Handling \cup Batching \cup Unsent
  BY DEF Handling, Batching, Unsent, Fill, Ided
<1>12. Handed'
  <2>1. th[t].msg # NoPack => "call" \in th'[t].held
    BY <1>1, <1>5, <1>9 DEF Handed, Users
  <2> QED
    BY <1>1, <1>5, <1>8, <1>9, <1>10, <1>11, <2>1, StillStep
<1>13. ToSet(emptySession)' = ToSet(emptySession)
  BY <1>1 DEF ToSet
<1>14. PackAt(s)'
  BY <1>6, <1>9, <1>13 DEF PackAt
<1>15. PackOf(t)'
  BY <1>5, <1>11 DEF PackOf
<1>16. Packs'
  BY <1>1, <1>5, <1>6, <1>9, <1>13, <1>14, <1>15, PacksStep
<1> QED
  BY <1>12, <1>16 DEF Wares

\* The ends of the loops that free packets.
LEMMA PacketsFreed ==
  ASSUME AccountsInv, Callers = {}, Wares, NEW t \in Threads, NEW s, s = th[t].slot,
         \/ DrainQ(t) /\ Session[s].SendQ = <<>>
         \/ (DrainPack(t) \/ FreeSent(t)) /\ Session[s].SendPack = <<>>
  PROVE  Wares'
<1>1. TypeOK /\ s \in Slots /\ UNCHANGED <<emptySession, net>>
  BY Parts, Typed DEF DrainQ, DrainPack, FreeSent, pool
<1>2. NetPlain
  BY <1>1, NetKeeps, NetAlikePlain, ConstantTypes
<1>3. CASE (DrainQ(t) /\ Session[s].SendQ = <<>>) \/ (DrainPack(t) /\ Session[s].SendPack = <<>>)
  <2>1. PICK k \in {"DrainPack", "PushSlot"} :
          /\ Goto(t, k) /\ UNCHANGED <<Session, refs>> /\ th[t].pc \in {"DrainQ", "DrainPack"}
          /\ k = "PushSlot" => Session[s].SendPack = <<>>
    BY <1>3 DEF DrainQ, DrainPack, Step, At
  <2>2. Turns(t, k, th[t].held) /\ Plain(s)
    BY <1>1, <2>1, ThreadTurns, PlainUpdates
  <2>3. k \notin Handling \cup Batching /\ (k \in Unsent => k = "PushSlot")
    BY DEF Handling, Batching, Unsent, Fill, Ided
  <2> QED
    BY <1>1, <1>2, <2>1, <2>2, <2>3, PlainTurn
<1>4. CASE FreeSent(t) /\ Session[s].SendPack = <<>>
  <2>1. /\ Session' = [Session EXCEPT ![s].SendFlag = FALSE] /\ Goto(t, "Recheck")
        /\ UNCHANGED refs /\ th[t].pc = "FreeSent"
    BY <1>4 DEF FreeSent, At
  <2>2. Turns(t, "Recheck", th[t].held)
    BY <1>1, <2>1, ThreadTurns
  <2>3. "Recheck" \notin Handling \cup Batching \cup Unsent
    BY DEF Handling, Batching, Unsent, Fill, Ided
  <2>4. Carrying(t, "Recheck", th[t].held)
    BY <2>1 DEF Carrying
  <2> QED
    BY <1>1, <1>4, <2>1, <2>2, <2>3, <2>4, FlagTurn
<1> QED
  BY <1>3, <1>4

\* The slot that is given back has no packets.
LEMMA PacketsPushSlot ==
  ASSUME AccountsInv, Callers = {}, Served, Wares, NEW t \in Threads, PushSlot(t)
  PROVE  Wares'
<1>1. /\ th[t].pc = "PushSlot" /\ UNCHANGED <<Session, net, refs>> /\ Goto(t, th[t].back)
      /\ TypeOK
  BY Parts DEF PushSlot, Step, At
<1>2. PICK s \in Slots : s = th[t].slot
  BY <1>1, Typed
<1>3. th[t].back = "idle" /\ InUse(s)
  BY <1>1, <1>2, Parts DEF Parted, ClosingSlots, Releasing
<1>4. Turns(t, "idle", th[t].held) /\ Plain(s)
  BY <1>1, <1>3, ThreadTurns, PlainUpdates
<1>5. /\ Alone(t) /\ th'[t].pc = "idle" /\ th'[t].slot = s
  BY <1>2, <1>4 DEF Turns, Stays
<1>6. emptySession' = Append(emptySession, s) /\ emptySession \in Seq(Slots)
  BY <1>1, <1>2, <1>3, SessionConn DEF PushSlot, TypeOK
<1>7. ToSet(emptySession)' = ToSet(emptySession) \cup {s}
  BY <1>6 DEF ToSet
<1>8. Handed /\ Packs /\ PackAt(s) /\ PackOf(t)
  BY DEF Wares, Packs
<1>9. Session[s].SendPack = <<>>
  BY <1>1, <1>2, <1>8 DEF PackOf, Unsent
<1>10. "idle" \notin Handling \cup Batching \cup Unsent
  BY DEF Handling, Batching, Unsent, Fill, Ided
<1>11. Handed'
  <2>1. NetPlain /\ QueuesPlain
    BY <1>1, <1>4, NetKeeps, NetAlikePlain, ConstantTypes DEF Plain
  <2>2. Carrying(t, "idle", th[t].held)
    BY <1>1 DEF Carrying
  <2> QED
    BY <1>1, <1>4, <1>8, <1>10, <2>1, <2>2, TurnHanded
<1>12. PackAt(s)'
  BY <1>1, <1>8, <1>9 DEF PackAt
<1>13. PackOf(t)'
  BY <1>5, <1>10 DEF PackOf
<1>14. Packs'
  <2>1. ToSet(emptySession)' \ {s} \subseteq ToSet(emptySession)
    BY <1>7
  <2> QED
    BY <1>1, <1>4, <1>5, <1>8, <1>12, <1>13, <2>1, PacksStep DEF Plain
<1> QED
  BY <1>11, <1>14 DEF Wares

-----------------------------------------------------------------------------
(* AcceptThread *)

\* A free slot has no packets, and the connection that gets it no request to be read.
LEMMA PacketsAcceptsInto ==
  ASSUME AccountsInv, Callers = {}, Served, Wares, NEW c \in Conns, NEW s, AcceptsInto(c, s),
         UNCHANGED refs
  PROVE  Wares'
<1>1. PICK t \in Threads : t = Acceptor
  BY ConstantTypes
<1>2. TypeOK /\ th[t].pc = "idle" /\ net[c].sock = "none" /\ UNCHANGED <<Session, refs>>
  BY <1>1, Parts DEF AcceptsInto
<1>3. /\ s \in Slots /\ s \in ToSet(emptySession)
      /\ ToSet(emptySession)' = ToSet(emptySession) \ {s}
  BY <1>2, Parts, SlotPopped DEF AcceptsInto, Parted, FreeSlots, TypeOK
<1>4. /\ Alone(t) /\ th'[t].slot = s /\ th'[t].pc = "TakeSlot" /\ th'[t].msg = th[t].msg
      /\ th'[t].held = th[t].held
  <2>1. th \in [Threads -> ThreadType]
    BY <1>2 DEF TypeOK
  <2> QED
    BY <1>1, <2>1 DEF AcceptsInto, ThreadType, Alone
<1>5. ASSUME NEW d \in Conns PROVE ConnLike(d)
  <2>1. net \in [Ids -> ConnType] /\ c \in Ids /\ Conns \subseteq Ids
    BY <1>2, ConstantTypes DEF TypeOK
  <2>2. net[c].joins = 0
    <3>1. ~(net[c].joins > 0) /\ net[c].joins \in {0, 1}
      BY <1>2, Parts DEF Naming, Served, Stages
    <3> QED
      BY <3>1
  <2>3. CASE d = c
    <3>1. net'[c].joins = net[c].joins /\ net'[c].asked = net[c].asked
      BY <2>1 DEF AcceptsInto, ConnType
    <3> QED
      BY <2>2, <2>3, <3>1 DEF ConnLike
  <2>4. CASE d # c
    <3>1. net'[d] = net[d]
      BY <2>1, <2>4 DEF AcceptsInto
    <3> QED
      BY <1>2, <3>1 DEF ConnLike, Unread
  <2> QED
    BY <2>3, <2>4
<1>6. Handed /\ Packs /\ PackAt(s)
  BY <1>3 DEF Wares, Packs
<1>7. Session[s].SendPack = <<>>
  BY <1>3, <1>6 DEF PackAt
<1>8. Handed'
  <2>1. \A x \in Slots : Line(x)' = Line(x) /\ Session'[x].SessionID = Session[x].SessionID
    BY <1>2 DEF Line
  <2>2. th[t].msg # NoPack => "call" \in th'[t].held
    BY <1>2, <1>4, <1>6 DEF Handed, Users
  <2> QED
    BY <1>2, <1>4, <1>5, <1>6, <2>1, <2>2, StillStep DEF Handling
<1>9. PackAt(s)'
  BY <1>2, <1>6, <1>7 DEF PackAt
<1>10. PackOf(t)'
  BY <1>2, <1>4, <1>7 DEF PackOf, Batching
<1>11. Packs'
  <2>1. OnlyAt(s)
    BY <1>2 DEF OnlyAt
  <2> QED
    BY <1>2, <1>3, <1>4, <1>6, <1>9, <1>10, <2>1, PacksStep
<1> QED
  BY <1>8, <1>11 DEF Wares

\* The identity is written while the slot has no packets.
LEMMA PacketsSetID ==
  ASSUME AccountsInv, Callers = {}, Served, Wares, SetID
  PROVE  Wares'
<1>1. PICK t \in Threads : t = Acceptor
  BY ConstantTypes
<1>2. /\ th[t].pc = "SetID" /\ Goto(t, "SetUse") /\ UNCHANGED <<emptySession, net, refs>>
      /\ th[t].pc \in Fill
  BY <1>1 DEF SetID, Step, At, pool, Fill
<1>3. PICK s \in Slots : s = th[t].slot
  BY Parts, Typed
<1>4. TypeOK /\ Session[s].SendQ = <<>>
  BY <1>1, <1>2, <1>3, FillsAlone
<1>5. Turns(t, "SetUse", th[t].held)
  BY <1>2, <1>4, ThreadTurns
<1>6. /\ Alone(t) /\ th'[t].pc = "SetUse" /\ th'[t].msg = th[t].msg /\ th'[t].held = th[t].held
      /\ th'[t].slot = s
  BY <1>3, <1>5 DEF Turns, Stays
<1>7. /\ OnlyAt(s) /\ Session'[s].SendQ = Session[s].SendQ
      /\ Session'[s].SendPack = Session[s].SendPack
      /\ Session'[s].SendFlag = Session[s].SendFlag
      /\ Session'[s].SendOver = Session[s].SendOver /\ Session'[s].RecvQ = Session[s].RecvQ
  <2>1. PICK x : Session' = [Session EXCEPT ![s].SessionID = x]
    BY <1>1, <1>3 DEF SetID
  <2>2. Session \in [Slots -> SessionType]
    BY <1>4 DEF TypeOK
  <2> QED
    BY <2>1, <2>2 DEF SessionType, OnlyAt
<1>8. Handed /\ Packs /\ PackAt(s) /\ PackOf(t)
  BY DEF Wares, Packs
<1>9. Session[s].SendPack = <<>>
  BY <1>2, <1>3, <1>8 DEF PackOf, Unsent
<1>10. Given(s) = {}
  <2>1. Line(s) = <<>>
    BY <1>4, <1>9 DEF Line
  <2> QED
    BY <2>1 DEF Given, ToSet
<1>11. Handed'
  <2>1. \A x \in Slots : Line(x)' = Line(x)
    BY <1>7 DEF Line, OnlyAt
  <2>2. \A x \in Slots : Given(x) = {} \/ Session'[x].SessionID = Session[x].SessionID
    BY <1>7, <1>10 DEF OnlyAt
  <2>3. ASSUME NEW d \in Conns PROVE ConnLike(d)
    <3>1. net[d].index \in Slots
      BY <1>4, ConnFields, ConstantTypes DEF TypeOK
    <3> QED
      BY <1>2, <1>7, <3>1 DEF ConnLike, Unread, OnlyAt
  <2>4. th[t].msg # NoPack => "call" \in th'[t].held
    BY <1>2, <1>6, <1>8 DEF Handed, Users
  <2> QED
    BY <1>2, <1>6, <1>8, <2>1, <2>2, <2>3, <2>4, StillStep DEF Handling
<1>12. ToSet(emptySession)' = ToSet(emptySession)
  BY <1>2 DEF ToSet
<1>13. PackAt(s)' /\ PackOf(t)'
  BY <1>6, <1>7, <1>8, <1>9, <1>12 DEF PackAt, PackOf, Batching
<1>14. Packs'
  BY <1>4, <1>6, <1>7, <1>8, <1>12, <1>13, PacksStep
<1> QED
  BY <1>11, <1>14 DEF Wares

-----------------------------------------------------------------------------
(* Packets are freed *)

\* The application gives its use of a packet up.
LEMMA PacketsFreeMsg ==
  ASSUME AccountsInv, Callers = {}, Served, Wares, NEW t \in Threads, FreeMsg(t)
  PROVE  Wares'
<1>1. /\ TypeOK /\ th[t].pc = "FreeMsg" /\ UNCHANGED <<emptySession, net, Session>>
  BY Parts DEF FreeMsg, At, pool
<1>2. PICK q \in Packets : q = th[t].msg
  BY <1>1, Typed, ThreadFields
<1>3. PICK k \in {"PostRecv", "Parse"} :
        th' = [th EXCEPT ![t].msg = NoPack, ![t].arg = NoConn, ![t].pc = k]
  BY DEF FreeMsg, AfterCall, Threads
<1>4. PICK s \in Slots : s = th[t].slot
  BY <1>1, Typed
<1>5. Alone(t) /\ th'[t].slot = s /\ th'[t].pc = k /\ th'[t].msg = NoPack
  BY <1>1, <1>3, <1>4 DEF TypeOK, ThreadType, Alone
<1>6. /\ Handed /\ Packs /\ Users /\ Lines /\ Handled /\ Fresh /\ Counted /\ PackAt(s)
  BY DEF Wares, Handed, Packs
<1>7. \A x \in Slots : Line(x)' = Line(x) /\ Session'[x].SessionID = Session[x].SessionID
  BY <1>1 DEF Line
<1>8. Lines' /\ \A p : Queued(p)' <=> Queued(p)
  BY <1>6, <1>7, LinesStep
<1>9. \A p : p # q /\ p # NoPack => (Used(p)' <=> Used(p))
  BY <1>2, <1>5, UseStep
<1>10. q # NoPack => Used(q) /\ ~Used(q)'
  BY <1>2, <1>5, <1>6, UseStep DEF Used
<1>11. k \notin Handling \cup Batching \cup Unsent
  BY DEF Handling, Batching, Unsent, Fill, Ided
<1>12. Users'
  BY <1>5, <1>6, UsersStep
<1>13. Handled'
  BY <1>5, <1>6, <1>8, <1>11, HandledStep
<1>14. Fresh'
  <2>1. \A c \in Conns : ConnLike(c)
    BY <1>1 DEF ConnLike, Unread
  <2> QED
    BY <1>6, <1>8, <1>9, <1>10, <2>1, FreshStep
<1>15. Counted'
  <2>1. CASE q = NoPack
    <3>1. UNCHANGED refs
      BY <1>2, <2>1 DEF FreeMsg
    <3>2. refs' = [refs EXCEPT ![q] = refs[q]]
      BY <1>1, <3>1 DEF TypeOK
    <3> QED
      BY <1>1, <1>6, <1>8, <1>9, <2>1, <3>2, CountedStep
  <2>2. CASE q # NoPack
    <3>1. refs' = [refs EXCEPT ![q] = refs[q] - 1]
      BY <1>2, <2>2 DEF FreeMsg
    <3>2. refs[q] = One(Used(q)) + One(Queued(q))
      BY <1>6, <2>2 DEF Counted
    <3>3. refs[q] - 1 = One(Used(q)') + One(Queued(q)')
      BY <1>8, <1>10, <2>2, <3>2 DEF One
    <3> QED
      BY <1>1, <1>6, <1>8, <1>9, <3>1, <3>3, CountedStep
  <2> QED
    BY <2>1, <2>2
<1>16. Packs'
  <2>1. OnlyAt(s) /\ Session'[s].SendPack = Session[s].SendPack
    BY <1>1 DEF OnlyAt
  <2>2. ToSet(emptySession)' = ToSet(emptySession)
    BY <1>1 DEF ToSet
  <2>3. PackAt(s)'
    BY <1>1, <1>6, <2>2 DEF PackAt
  <2>4. PackOf(t)'
    BY <1>5, <1>11 DEF PackOf
  <2> QED
    BY <1>1, <1>5, <1>6, <2>1, <2>2, <2>3, <2>4, PacksStep
<1> QED
  BY <1>8, <1>12, <1>13, <1>14, <1>15, <1>16 DEF Wares, Handed

\* Packet x is freed from the line of session s.
LEMMA FreedHanded ==
  ASSUME AccountsInv, Wares, UNCHANGED <<th, net>>, NEW s \in Slots, OnlyAt(s),
         Session'[s].SessionID = Session[s].SessionID, Session'[s].RecvQ = Session[s].RecvQ,
         NEW x \in Packets, NEW L \in Seq(Packets), NEW M \in Seq(Packets),
         L = Line(s), M = Line(s)', Without(L, M, x),
         refs' = [refs EXCEPT ![x] = @ - 1]
  PROVE  Handed'
<1>1. TypeOK /\ Users /\ Lines /\ Handled /\ Fresh /\ Counted
  BY Parts DEF Wares, Handed
<1>2. IsInjective(M) /\ Given(s)' = Given(s) \ {x} /\ x \in Given(s)
  BY <1>1 DEF Without, Lines, Given
<1>3. Lines' /\ \A r \in Slots \ {s} : Given(r)' = Given(r)
  BY <1>1, <1>2, LinesAt
<1>4. \A r \in Slots \ {s} : x \notin Given(r)
  BY <1>1, <1>2, OneGiver
<1>5. /\ \A p : p # x => (Queued(p)' <=> Queued(p))
      /\ Queued(x) /\ ~Queued(x)'
  BY <1>2, <1>3, <1>4 DEF Queued
<1>6. x # NoPack
  BY <1>1, <1>2 DEF Lines, InUse, NoPack
<1>7. \A p : Used(p)' <=> Used(p)
  BY DEF Used
<1>8. Users'
  BY <1>1 DEF Users
<1>9. Handled'
  <2>1. \A p : Queued(p)' => Queued(p)
    BY <1>5
  <2>2. ASSUME NEW u \in Threads, th'[u].pc \in Handling, th'[u].msg # NoPack
        PROVE  ~Queued(th[u].msg)'
    BY <1>1, <2>1, <2>2 DEF Handled
  <2>3. \A u \in Threads : th'[u].pc \in Handling /\ th'[u].msg # NoPack => ~Queued(th[u].msg)'
    BY <2>2
  <2> QED
    BY <2>3 DEF Handled, Queued
<1>10. Fresh'
  <2>1. ASSUME NEW c \in Conns PROVE ConnLike(c)
    <3>1. net[c].index \in Slots
      BY <1>1, ConnFields, ConstantTypes DEF TypeOK
    <3> QED
      BY <3>1 DEF ConnLike, Unread, OnlyAt
  <2> QED
    BY <1>1, <1>5, <1>7, <2>1, FreshStep
<1>11. Counted'
  <2>1. PICK n : n = refs[x] - 1
    OBVIOUS
  <2>2. refs' = [refs EXCEPT ![x] = n]
    BY <2>1
  <2>3. refs[x] = One(Used(x)) + One(Queued(x))
    BY <1>1, <1>6 DEF Counted
  <2>4. n = One(Used(x)') + One(Queued(x)')
    BY <1>5, <1>7, <2>1, <2>3 DEF One
  <2> QED
    BY <1>1, <1>5, <1>7, <2>2, <2>4, CountedStep
<1> QED
  BY <1>3, <1>8, <1>9, <1>10, <1>11 DEF Handed

\* The loops of SessionRelease and of a completed WSASend free one packet at a time.
LEMMA PacketsFree ==
  ASSUME AccountsInv, Callers = {}, Served, Wares, NEW t \in Threads, NEW s, s = th[t].slot,
         \/ DrainQ(t) /\ Session[s].SendQ # <<>>
         \/ (DrainPack(t) \/ FreeSent(t)) /\ Session[s].SendPack # <<>>
  PROVE  Wares'
<1>1. /\ TypeOK /\ s \in Slots /\ UNCHANGED <<emptySession, net, th>>
      /\ th[t].pc \in {"DrainQ", "DrainPack", "FreeSent"}
  BY Parts, Typed DEF DrainQ, DrainPack, FreeSent, At, pool
<1>2. PICK a \in Seq(Packets), q \in Seq(Packets) :
        a = Session[s].SendPack /\ q = Session[s].SendQ
  BY <1>1, LineType
<1>3. Session \in [Slots -> SessionType]
  BY <1>1 DEF TypeOK
<1>4. Packs /\ PackAt(s) /\ PackOf(t) /\ IsInjective(a \o q)
  BY <1>1, <1>2 DEF Wares, Packs, Handed, Lines, Line
<1>5. ToSet(emptySession)' = ToSet(emptySession) /\ Alone(t)
  BY <1>1 DEF ToSet, Alone
<1>6. PackOf(t)'
  BY <1>1 DEF PackOf, Batching, Unsent, Fill, Ided
<1>7. CASE DrainQ(t) /\ Session[s].SendQ # <<>>
  <2>1. PICK x \in Packets, r \in Seq(Packets) : x = Head(q) /\ r = Tail(q)
    <3>1. Head(q) \in Packets /\ Tail(q) \in Seq(Packets)
      BY <1>2, <1>7
    <3> QED
      BY <3>1
  <2>2. Session' = [Session EXCEPT ![s].SendQ = r] /\ refs' = [refs EXCEPT ![x] = @ - 1]
    BY <1>2, <1>7, <2>1 DEF DrainQ
  <2>3. /\ OnlyAt(s) /\ Session'[s].SendQ = r
        /\ Session'[s].SendPack = Session[s].SendPack
        /\ Session'[s].SendFlag = Session[s].SendFlag
        /\ Session'[s].SendOver = Session[s].SendOver
        /\ Session'[s].SessionID = Session[s].SessionID
        /\ Session'[s].RecvQ = Session[s].RecvQ
    BY ONLY <1>1, <1>3, <2>2 DEF SessionType, OnlyAt
  <2>4. Without(a \o q, a \o r, x)
    BY <1>2, <1>4, <1>7, <2>1, LineFreed
  <2>5. Line(s) = a \o q /\ Line(s)' = a \o r /\ a \o q \in Seq(Packets) /\ a \o r \in Seq(Packets)
    BY <1>2, <2>3 DEF Line
  <2>6. Handed'
    BY <1>1, <2>2, <2>3, <2>4, <2>5, FreedHanded
  <2>7. PackAt(s)'
    BY <1>4, <1>5, <2>3 DEF PackAt
  <2>8. Packs'
    BY <1>1, <1>4, <1>5, <1>6, <2>3, <2>7, PacksStep
  <2> QED
    BY <2>6, <2>8 DEF Wares
<1>8. CASE (DrainPack(t) \/ FreeSent(t)) /\ Session[s].SendPack # <<>>
  <2>1. PICK x \in Packets, r \in Seq(Packets) : x = Last(a) /\ r = Front(a)
    <3>1. Last(a) \in Packets /\ Front(a) \in Seq(Packets)
      BY <1>2, <1>8 DEF Last, Front
    <3> QED
      BY <3>1
  <2>2. Session' = [Session EXCEPT ![s].SendPack = r] /\ refs' = [refs EXCEPT ![x] = @ - 1]
    BY <1>2, <1>8, <2>1 DEF DrainPack, FreeSent
  <2>3. /\ OnlyAt(s) /\ Session'[s].SendPack = r
        /\ Session'[s].SendQ = Session[s].SendQ
        /\ Session'[s].SendFlag = Session[s].SendFlag
        /\ Session'[s].SendOver = Session[s].SendOver
        /\ Session'[s].SessionID = Session[s].SessionID
        /\ Session'[s].RecvQ = Session[s].RecvQ
    BY ONLY <1>1, <1>3, <2>2 DEF SessionType, OnlyAt
  <2>4. Without(a \o q, r \o q, x)
    BY <1>2, <1>4, <1>8, <2>1, LineFreed
  <2>5. Line(s) = a \o q /\ Line(s)' = r \o q /\ a \o q \in Seq(Packets) /\ r \o q \in Seq(Packets)
    BY <1>2, <2>3 DEF Line
  <2>6. Handed'
    BY <1>1, <2>2, <2>3, <2>4, <2>5, FreedHanded
  <2>7. /\ \A u \in Threads \ {t} : th[u].slot = s => th[u].pc \notin Batching \cup Unsent
        /\ s \notin ToSet(emptySession) /\ Session[s].SendOver = <<>>
    <3>1. CASE th[t].pc = "FreeSent"
      BY <1>1, <3>1, SoleSender DEF Sender
    <3>2. CASE th[t].pc \in {"DrainQ", "DrainPack"}
      <4>1. /\ Quiet(s) /\ s \notin ToSet(emptySession)
            /\ \A u \in Threads \ {t} : th[u].slot = s => th[u].pc \in {"idle", "done"}
        BY <3>2, Owned DEF Owning, Releasing
      <4> QED
        BY <4>1 DEF Quiet, Batching, Unsent, Fill, Ided
    <3> QED
      BY <1>1, <3>1, <3>2
  <2>8. Session[s].SendFlag
    BY <1>4, <1>8 DEF PackAt
  <2>9. PackAt(s)'
    BY <1>5, <2>3, <2>7, <2>8 DEF PackAt
  <2>10. Packs'
    BY <1>1, <1>4, <1>5, <1>6, <2>3, <2>7, <2>9, PacksStep
  <2> QED
    BY <2>6, <2>10 DEF Wares
<1> QED
  BY <1>7, <1>8

-----------------------------------------------------------------------------
(* SendPacket *)

\* A packet goes from its sender to the end of SendQ, which is never full.
LEMMA PacketsEnqueue ==
  ASSUME AccountsInv, Roomy, Served, Wares, NEW t \in Threads, Enqueue(t)
  PROVE  Wares'
<1>1. /\ TypeOK /\ OwnCall(t) /\ th[t].pc = "Enqueue" /\ UNCHANGED emptySession
      /\ Callers = {} /\ MaxMsgs < QueueMax
  BY Parts DEF Served, OwnCalls, Enqueue, At, pool, Roomy, Echoes
<1>2. PICK s \in Slots : s = th[t].slot
  BY <1>1, Typed
<1>3. PICK p \in Packets : p = th[t].msg
  BY <1>1, Typed, ThreadFields
<1>4. p # NoPack /\ p[1] = Session[s].SessionID
  BY <1>1, <1>2, <1>3 DEF OwnCall, Handling
<1>5. InUse(s)
  BY <1>1, <1>2, ServingThreads DEF Serving, Labels, Owning, Releasing
<1>6. /\ Handed /\ Packs /\ Users /\ Lines /\ Handled /\ Fresh /\ Counted /\ PackAt(s)
  BY DEF Wares, Handed, Packs
<1>7. "call" \in th[t].held /\ p[2] <= MaxMsgs
  BY <1>1, <1>3, <1>4, <1>6 DEF Users
<1>8. Used(p) /\ ~Queued(p)
  BY <1>1, <1>3, <1>4, <1>6 DEF Used, Handled, Handling
<1>9. \E n \in 0 .. MaxMsgs : p = <<Session[s].SessionID, n>>
  <2>1. p = <<p[1], p[2]>> /\ p[2] \in 0 .. MaxMsgs + 1 /\ MaxMsgs \in Nat
    BY SizesAssumption DEF Packets
  <2>2. p[2] \in 0 .. MaxMsgs
    BY <1>7, <2>1
  <2> QED
    BY <1>4, <2>1, <2>2
<1>10. PICK v \in Seq(Packets) : v = Line(s)
  BY <1>1, LineType
<1>11. IsInjective(v) /\ ToSet(v) = Given(s) /\ p \notin ToSet(v)
  BY <1>6, <1>8, <1>10 DEF Lines, Given, Queued
<1>12. /\ Append(v, p) \in Seq(Packets) /\ ToSet(Append(v, p)) = ToSet(v) \cup {p}
       /\ IsInjective(Append(v, p))
  BY <1>11, LineGiven
<1>13. Len(Append(v, p)) <= MaxMsgs + 1
  <2>1. PICK c : c = Session[s].SessionID
    OBVIOUS
  <2>2. \A x \in Given(s) : \E n \in 0 .. MaxMsgs : x = <<c, n>>
    BY <1>6, <2>1 DEF Lines
  <2>3. \E n \in 0 .. MaxMsgs : p = <<c, n>>
    BY <1>9, <2>1
  <2>4. \A x \in ToSet(Append(v, p)) : x \in Given(s) \/ x = p
    BY <1>11, <1>12
  <2>5. \A x \in ToSet(Append(v, p)) : \E n \in 0 .. MaxMsgs : x = <<c, n>>
    BY <2>2, <2>3, <2>4, Zenon
  <2> QED
    BY <1>12, <2>5, LineBound
<1>14. /\ Session[s].SendPack \in Seq(Packets) /\ Session[s].SendQ \in Seq(Packets)
       /\ v = Session[s].SendPack \o Session[s].SendQ
  BY <1>1, <1>10, LineType DEF Line
<1>15. Len(Session[s].SendQ) < QueueMax
  <2>1. PICK a \in Seq(Packets), q \in Seq(Packets) :
          a = Session[s].SendPack /\ q = Session[s].SendQ
    BY <1>14
  <2>2. Len(Append(v, p)) = Len(a) + Len(q) + 1 /\ Len(a) \in Nat /\ Len(q) \in Nat
    BY <1>14, <2>1
  <2>3. MaxMsgs \in Nat /\ QueueMax \in Nat
    BY SizesAssumption
  <2>4. PICK m \in Nat, n \in Nat : m = Len(a) /\ n = Len(q)
    BY <2>2
  <2>5. m + n + 1 <= MaxMsgs + 1
    BY <1>13, <2>2, <2>4
  <2>6. n < QueueMax
    BY ONLY <1>1, <2>3, <2>4, <2>5
  <2> QED
    BY <2>1, <2>4, <2>6
<1>16. /\ Session' = [Session EXCEPT ![s].SendQ = Append(Session[s].SendQ, p)]
       /\ Goto(t, "PostSend") /\ UNCHANGED net /\ refs' = [refs EXCEPT ![p] = refs[p] + 1]
  <2>1. ~(Len(Session[s].SendQ) >= QueueMax)
    <3>1. PICK n \in Nat : n = Len(Session[s].SendQ)
      BY <1>14
    <3> QED
      BY <1>15, <3>1, SizesAssumption
  <2> QED
    BY <1>2, <1>3, <2>1 DEF Enqueue
<1>17. Turns(t, "PostSend", th[t].held)
  BY <1>1, <1>16, ThreadTurns
<1>18. /\ Alone(t) /\ th'[t].pc = "PostSend" /\ th'[t].msg = p /\ th'[t].held = th[t].held
       /\ th'[t].slot = s
  BY <1>2, <1>3, <1>17 DEF Turns, Stays
<1>19. /\ OnlyAt(s) /\ Session'[s].SendQ = Append(Session[s].SendQ, p)
       /\ Session'[s].SendPack = Session[s].SendPack
       /\ Session'[s].SendFlag = Session[s].SendFlag
       /\ Session'[s].SendOver = Session[s].SendOver
       /\ Session'[s].SessionID = Session[s].SessionID
       /\ Session'[s].RecvQ = Session[s].RecvQ
  <2>1. PICK q : q = Append(Session[s].SendQ, p)
    OBVIOUS
  <2>2. Session \in [Slots -> SessionType] /\ Session' = [Session EXCEPT ![s].SendQ = q]
    BY <1>1, <1>16, <2>1 DEF TypeOK
  <2>3. /\ OnlyAt(s) /\ Session'[s].SendQ = q
        /\ Session'[s].SendPack = Session[s].SendPack
        /\ Session'[s].SendFlag = Session[s].SendFlag
        /\ Session'[s].SendOver = Session[s].SendOver
        /\ Session'[s].SessionID = Session[s].SessionID
        /\ Session'[s].RecvQ = Session[s].RecvQ
    BY <2>2 DEF SessionType, OnlyAt
  <2> QED
    BY <2>1, <2>3
<1>20. Line(s)' = Append(v, p)
  <2>1. PICK a \in Seq(Packets), q \in Seq(Packets) :
          a = Session[s].SendPack /\ q = Session[s].SendQ
    BY <1>14
  <2>2. a \o Append(q, p) = Append(a \o q, p)
    BY LineGrows
  <2> QED
    BY <1>14, <1>19, <2>1, <2>2 DEF Line
<1>21. Given(s)' = Given(s) \cup {p} /\ IsInjective(Line(s))'
  BY <1>11, <1>12, <1>20 DEF Given
<1>22. Lines' /\ \A x \in Slots \ {s} : Given(x)' = Given(x)
  <2>1. ASSUME NEW x \in Given(s)'
        PROVE  x \in Given(s) \/ (InUse(s) /\ \E n \in 0 .. MaxMsgs : x = <<Session[s].SessionID, n>>)
    BY <1>5, <1>9, <1>21
  <2> QED
    BY <1>6, <1>19, <1>21, <2>1, LinesAt
<1>23. \A x : Queued(x)' <=> Queued(x) \/ x = p
  BY <1>21, <1>22 DEF Queued
<1>24. \A x : Used(x)' <=> Used(x)
  BY <1>3, <1>18, UseStep
<1>25. "PostSend" \notin Handling \cup Batching \cup Unsent
  BY DEF Handling, Batching, Unsent, Fill, Ided
<1>26. Users'
  BY <1>3, <1>6, <1>7, <1>18, UsersStep
<1>27. Handled'
  BY <1>3, <1>6, <1>18, <1>23, <1>25, HandledStep
<1>28. Fresh'
  <2>1. \A c \in Conns : ConnLike(c)
    <3>1. ASSUME NEW c \in Conns PROVE ConnLike(c)
      <4>1. net[c].index \in Slots
        BY <1>1, ConnFields, ConstantTypes DEF TypeOK
      <4> QED
        BY <1>16, <1>19, <4>1 DEF ConnLike, Unread, OnlyAt
    <3> QED
      BY <3>1
  <2> QED
    BY <1>6, <1>8, <1>23, <1>24, <2>1, FreshStep
<1>29. Counted'
  <2>1. refs[p] = One(Used(p)) + One(Queued(p))
    BY <1>4, <1>6 DEF Counted
  <2>2. Used(p)' /\ Queued(p)'
    BY <1>8, <1>23, <1>24
  <2>3. refs[p] + 1 = One(Used(p)') + One(Queued(p)')
    BY <1>8, <2>1, <2>2 DEF One
  <2> QED
    BY <1>1, <1>6, <1>16, <1>23, <1>24, <2>3, CountedStep
<1>30. Packs'
  <2>1. ToSet(emptySession)' = ToSet(emptySession)
    BY <1>1 DEF ToSet
  <2>2. PackAt(s)'
    BY <1>6, <1>19, <2>1 DEF PackAt
  <2>3. PackOf(t)'
    BY <1>18, <1>25 DEF PackOf
  <2> QED
    BY <1>1, <1>6, <1>18, <1>19, <2>1, <2>2, <2>3, PacksStep
<1> QED
  BY <1>22, <1>26, <1>27, <1>28, <1>29, <1>30 DEF Wares, Handed

-----------------------------------------------------------------------------
(* Callbacks that call SendPacket or Disconnect *)

\* A thread gets packet p, of which there was no use, to send.
LEMMA CallHanded ==
  ASSUME TypeOK, Handed, NEW t \in Threads, Alone(t), NEW p \in Packets,
         th[t].msg = NoPack, th'[t].pc = "Find", th'[t].msg = p,
         p # NoPack => p[2] <= MaxMsgs /\ ~Used(p) /\ ~Queued(p),
         refs' = IF p = NoPack THEN refs ELSE [refs EXCEPT ![p] = 1],
         \A x \in Slots : Line(x)' = Line(x) /\ Session'[x].SessionID = Session[x].SessionID,
         Fresh'
  PROVE  Handed'
<1>1. Users /\ Lines /\ Handled /\ Counted
  BY DEF Handed
<1>2. Lines' /\ \A x : Queued(x)' <=> Queued(x)
  BY <1>1, LinesStep
<1>3. \A x : x # p /\ x # NoPack => (Used(x)' <=> Used(x))
  BY UseStep
<1>4. Used(p)'
  BY UseStep
<1>5. Users'
  BY <1>1, UsersStep
<1>6. Handled'
  <2>1. ASSUME NEW u \in Threads, th'[u].pc \in Handling, th'[u].msg # NoPack
        PROVE  \E x : x = th'[u].msg /\ ~Queued(x)
    <3>1. CASE u = t
      BY <2>1, <3>1
    <3>2. CASE u # t
      <4>1. th'[u] = th[u]
        BY <3>2 DEF Alone
      <4>2. ~Queued(th[u].msg)
        BY <1>1, <2>1, <4>1 DEF Handled
      <4> QED
        BY <4>1, <4>2
    <3> QED
      BY <3>1, <3>2
  <2>2. \A x : (\E s \in Slots : x \in Given(s)') => Queued(x)
    BY <1>2 DEF Queued
  <2> QED
    BY <2>1, <2>2 DEF Handled, Queued
<1>7. Counted'
  <2>1. CASE p = NoPack
    <3>1. refs' = [refs EXCEPT ![p] = refs[p]]
      BY <2>1 DEF TypeOK
    <3> QED
      BY <1>1, <1>2, <1>3, <2>1, <3>1, CountedStep
  <2>2. CASE p # NoPack
    <3>1. 1 = One(Used(p)') + One(Queued(p)')
      BY <1>2, <1>4, <2>2 DEF One
    <3> QED
      BY <1>1, <1>2, <1>3, <2>2, <3>1, CountedStep
  <2> QED
    BY <2>1, <2>2
<1> QED
  BY <1>2, <1>5, <1>6, <1>7 DEF Handed

\* What a call with packet p does to the other connections.
LEMMA FreshOthers ==
  ASSUME AccountsInv, Served, Fresh, NEW t \in Threads, Alone(t), NEW c \in Conns,
         NEW p, p = NoPack \/ p[1] = c, th[t].msg = NoPack, th'[t].msg = p,
         \A x : Queued(x)' <=> Queued(x),
         \A d \in Conns \ {c} : ConnLike(d)
  PROVE  \A d \in Conns \ {c} : FreshOf(d)'
<1>1. ASSUME NEW d \in Conns \ {c} PROVE FreshOf(d)'
  <2>1. FreshOf(d) /\ ConnLike(d)
    BY DEF Fresh
  <2>2. ASSUME NEW n PROVE Used(<<d, n>>)' => Used(<<d, n>>)
    <3>1. <<d, n>> # NoPack /\ <<d, n>> # p
      BY DEF Conns, NoPack, NoConn
    <3> QED
      BY <3>1, UseStep
  <2> QED
    BY <2>1, <2>2, FreshConn
<1> QED
  BY <1>1

\* What Call does to the counter of the packet, if there is one.
Counting(p) == refs' = IF p = NoPack THEN refs ELSE [refs EXCEPT ![p] = 1]

LEMMA PacketsTakes ==
  ASSUME AccountsInv, Callers = {}, Served, Wares, NEW w \in Threads, NEW s, NEW c, NEW p,
         Takes(w, s, c, p), Counting(p)
  PROVE  Wares'
<1>1. /\ th[w].pc = "Parse" /\ s = th[w].slot /\ c = Session[s].SessionID
      /\ UNCHANGED <<net, emptySession>> /\ th[w].pc \in Serving
  BY DEF Takes, Serving, Labels, Owning, Releasing
<1>2. TypeOK /\ s \in Slots /\ c \in Conns /\ c # NoConn /\ InUse(s) /\ Busy(s)
  BY <1>1, AtSession
<1>3. /\ Session \in [Slots -> SessionType] /\ th \in [Threads -> ThreadType]
      /\ net[c].index = s /\ net[c].joins = 1 /\ net[c].leaves = 0
  BY <1>1, <1>2, SessionConn, Present DEF TypeOK, Served
<1>4. Alone(w) /\ th'[w].pc = "Find" /\ th'[w].slot = s /\ th'[w].msg = p
  BY <1>1, <1>3 DEF Takes, ThreadType, Alone
<1>5. PICK q \in Seq(Units), r \in Seq(Units), k \in Nat :
        q = Session[s].RecvQ /\ r = net[c].inbound /\ k = net[c].asked
  BY <1>2, SessionFields, ConnFields, ConstantTypes DEF TypeOK
<1>6. /\ OnlyAt(s) /\ Session'[s].RecvQ = SubSeq(q, 3, Len(q))
      /\ Session'[s].SendQ = Session[s].SendQ
      /\ Session'[s].SendPack = Session[s].SendPack
      /\ Session'[s].SendFlag = Session[s].SendFlag
      /\ Session'[s].SendOver = Session[s].SendOver
      /\ Session'[s].SessionID = Session[s].SessionID
  <2> DEFINE x == SubSeq(q, 3, Len(q))
  <2>1. Session' = [Session EXCEPT ![s].RecvQ = x]
    BY <1>5 DEF Takes
  <2> HIDE DEF x
  <2>2. /\ OnlyAt(s) /\ Session'[s].RecvQ = x
        /\ Session'[s].SendQ = Session[s].SendQ
        /\ Session'[s].SendPack = Session[s].SendPack
        /\ Session'[s].SendFlag = Session[s].SendFlag
        /\ Session'[s].SendOver = Session[s].SendOver
        /\ Session'[s].SessionID = Session[s].SessionID
    BY <1>2, <1>3, <2>1 DEF SessionType, OnlyAt
  <2> QED
    BY <2>2 DEF x
<1>7. /\ Handed /\ Packs /\ Users /\ Lines /\ Fresh /\ PackAt(s)
  BY <1>2 DEF Wares, Handed, Packs
<1>8. th[w].msg = NoPack
  BY <1>1, <1>7, AtWork DEF Users, Calling, Sending
<1>9. PICK m \in 1 .. k + 1 : Coming(c, m)
  BY <1>2, <1>3, <1>5, <1>7 DEF Fresh, FreshOf
<1>10. /\ m \in Nat /\ m <= k /\ (p = NoPack \/ p = <<c, m>>)
       /\ Stream(SubSeq(q, 3, Len(q)) \o r, m + 1, k)
  <2>1. Stream(q \o r, m, k)
    BY <1>3, <1>5, <1>9 DEF Coming, Unread
  <2>2. Len(q) >= 2 /\ q[1].kind = "head" /\ (p = NoPack \/ p = <<c, q[2].n>>)
    BY <1>1, <1>5 DEF Takes
  <2>3. PICK y : y = q \o r
    OBVIOUS
  <2>4. /\ y \in Seq(Units) /\ Len(y) >= 2 /\ y[1] = q[1] /\ y[2] = q[2]
        /\ SubSeq(q, 3, Len(q)) \o r = SubSeq(y, 3, Len(y))
    BY ONLY <2>2, <2>3, q \in Seq(Units), r \in Seq(Units), UnitsTaken
  <2>5. Stream(y, m, k) /\ y[1].kind = "head"
    BY <2>1, <2>2, <2>3, <2>4
  <2>6. m \in Nat
    BY ONLY k \in Nat, m \in 1 .. k + 1
  <2>7. y[2].n = m /\ m <= k /\ Stream(SubSeq(y, 3, Len(y)), m + 1, k)
    BY ONLY <2>4, <2>5, <2>6, k \in Nat, StreamTaken
  <2> QED
    BY <2>2, <2>4, <2>6, <2>7
<1>11. New(c, m) /\ MaxMsgs \in Nat /\ k <= MaxMsgs
  BY <1>2, <1>5, <1>9, SizesAssumption DEF Coming, Served, Wires
<1>12. p # NoPack => p[2] <= MaxMsgs /\ ~Used(p) /\ ~Queued(p)
  BY <1>10, <1>11 DEF New
<1>13. p \in Packets /\ (p = NoPack \/ p[1] = c)
  <2>1. m \in 0 .. MaxMsgs + 1 /\ 0 \in 0 .. MaxMsgs + 1
    BY <1>10, <1>11
  <2> QED
    BY <1>2, <1>10, <2>1 DEF Packets, NoPack, Ids
<1>14. \A x \in Slots : Line(x)' = Line(x) /\ Session'[x].SessionID = Session[x].SessionID
  BY <1>6 DEF Line, OnlyAt
<1>15. \A x : Queued(x)' <=> Queued(x)
  BY <1>7, <1>14, LinesStep
<1>16. \A d \in Conns \ {c} : ConnLike(d)
  <2>1. ASSUME NEW d \in Conns, d # c PROVE ConnLike(d)
    <3>1. ASSUME net[d].joins = 1, net[d].leaves = 0 PROVE Unread(d)' = Unread(d)
      <4>1. net[d].index \in Slots /\ net[d].index # s
        BY <1>1, <2>1, <3>1, OtherConn
      <4> QED
        BY <1>1, <1>6, <4>1 DEF Unread, OnlyAt
    <3> QED
      BY <1>1, <3>1 DEF ConnLike
  <2> QED
    BY <2>1
<1>17. \A d \in Conns \ {c} : FreshOf(d)'
  BY <1>2, <1>4, <1>7, <1>8, <1>13, <1>15, <1>16, FreshOthers
<1>18. FreshOf(c)'
  <2>1. ASSUME NEW n \in m + 1 .. MaxMsgs PROVE ~Used(<<c, n>>)' /\ ~Queued(<<c, n>>)'
    <3>1. n \in m .. MaxMsgs /\ n # m
      BY ONLY <1>10, <1>11, n \in m + 1 .. MaxMsgs
    <3>2. <<c, n>> # p /\ <<c, n>> # NoPack
      BY <1>2, <1>10, <3>1 DEF NoPack
    <3>3. ~Used(<<c, n>>) /\ ~Queued(<<c, n>>)
      BY <1>11, <3>1 DEF New
    <3> QED
      BY <1>4, <1>8, <1>15, <3>2, <3>3, UseStep
  <2>2. New(c, m + 1)'
    BY <2>1 DEF New
  <2>3. Unread(c)' = SubSeq(q, 3, Len(q)) \o r /\ net'[c].asked = k
    BY <1>1, <1>3, <1>5, <1>6 DEF Unread
  <2>4. Coming(c, m + 1)'
    BY <1>10, <2>2, <2>3 DEF Coming
  <2>5. m + 1 \in 1 .. k + 1
    BY ONLY <1>10, k \in Nat
  <2> QED
    BY <1>1, <1>3, <2>3, <2>4, <2>5 DEF FreshOf
<1>19. Fresh'
  BY <1>17, <1>18 DEF Fresh
<1>20. Handed'
  BY <1>2, <1>4, <1>7, <1>8, <1>12, <1>13, <1>14, <1>19, CallHanded DEF Counting
<1>21. "Find" \notin Batching \cup Unsent
  BY DEF Batching, Unsent, Fill, Ided
<1>22. ToSet(emptySession)' = ToSet(emptySession)
  BY <1>1 DEF ToSet
<1>23. PackAt(s)'
  BY <1>6, <1>7, <1>22 DEF PackAt
<1>24. PackOf(w)'
  BY <1>4, <1>21 DEF PackOf
<1>25. Packs'
  BY <1>2, <1>4, <1>6, <1>7, <1>22, <1>23, <1>24, PacksStep
<1> QED
  BY <1>20, <1>25 DEF Wares

LEMMA PacketsParse ==
  ASSUME AccountsInv, Echoes, Served, Wares, NEW w \in Workers, Parse(w)
  PROVE  Wares'
<1>1. Callers = {} /\ w \in Threads
  BY DEF Echoes, Threads
<1>2. th[w].pc = "Parse" /\ UNCHANGED emptySession
  BY DEF Parse, At, pool
<1>3. PICK s, c : s = th[w].slot /\ c = Session[s].SessionID
  OBVIOUS
<1>4. CASE ~(Len(Session[s].RecvQ) >= 2 /\ Session[s].RecvQ[1].kind = "head")
  <2>1. Waits(w) /\ UNCHANGED refs
    BY <1>2, <1>3, <1>4 DEF Parse, Waits
  <2> QED
    BY <1>1, <2>1, PacketsWaits
<1>5. CASE Len(Session[s].RecvQ) >= 2 /\ Session[s].RecvQ[1].kind = "head"
  <2>1. /\ Session' = [Session EXCEPT ![s].RecvQ = SubSeq(@, 3, Len(@))]
        /\ UNCHANGED net
        /\ Call(w, c, <<c, Session[s].RecvQ[2].n>>) \/ Call(w, c, NoPack)
    BY <1>3, <1>5 DEF Parse, Echoes
  <2>2. PICK p : /\ th' = [th EXCEPT ![w].pc = "Find", ![w].arg = c, ![w].msg = p]
                 /\ p = NoPack \/ p = <<c, Session[s].RecvQ[2].n>>
                 /\ Counting(p)
    BY <2>1 DEF Call, Counting
  <2>3. Takes(w, s, c, p)
    BY <1>2, <1>3, <1>5, <2>1, <2>2 DEF Takes
  <2> QED
    BY <1>1, <2>2, <2>3, PacketsTakes
<1> QED
  BY <1>4, <1>5

\* A connection that joins is greeted; it has sent nothing that was read yet.
LEMMA PacketsJoin ==
  ASSUME AccountsInv, Echoes, Served, Wares, Join
  PROVE  Wares'
<1>1. Callers = {} /\ "Join" \in Fill
  BY DEF Echoes, Fill, Ided
<1>2. PICK s \in Slots, c \in Conns :
        /\ s = th[Acceptor].slot /\ c = Session[s].SessionID /\ th[Acceptor].pc = "Join"
        /\ net[c].index = s /\ net[c].joins = 0 /\ net[c].leaves = 0 /\ ~Busy(s)
        /\ net' = [net EXCEPT ![c].joins = 1]
        /\ Call(Acceptor, c, <<c, 0>>)
        /\ UNCHANGED <<Session, emptySession>>
  BY Greets DEF Greeting, Joining
<1>3. PICK t \in Threads : t = Acceptor
  BY ConstantTypes
<1>4. TypeOK /\ Session[s].RecvQ = <<>> /\ "call" \notin th[t].held
  BY <1>1, <1>2, <1>3, FillsAlone
<1>5. /\ Alone(t) /\ th'[t].pc = "Find" /\ th'[t].slot = s /\ th'[t].msg = <<c, 0>>
  <2>1. th \in [Threads -> ThreadType]
    BY <1>4 DEF TypeOK
  <2> QED
    BY <1>2, <1>3, <2>1 DEF Call, ThreadType, Alone
<1>6. /\ \A d \in Conns \ {c} : net'[d] = net[d]
      /\ net'[c].index = s /\ net'[c].joins = 1 /\ net'[c].leaves = 0
      /\ net'[c].asked = net[c].asked /\ net'[c].inbound = net[c].inbound
  <2>1. net \in [Ids -> ConnType] /\ c \in Ids /\ Conns \subseteq Ids
    BY <1>4, ConstantTypes DEF TypeOK
  <2>2. net' = [net EXCEPT ![c].joins = 1] /\ net[c].index = s /\ net[c].leaves = 0
    BY <1>2
  <2> QED
    BY ONLY <2>1, <2>2 DEF ConnType
<1>7. /\ Handed /\ Packs /\ Users /\ Lines /\ Fresh /\ PackAt(s)
  BY DEF Wares, Handed, Packs
<1>8. th[t].msg = NoPack
  BY <1>2, <1>3, <1>4, <1>7 DEF Users
<1>9. New(c, 0) /\ MaxMsgs \in Nat
  BY <1>2, <1>7, SizesAssumption DEF Fresh, FreshOf
<1>10. PICK p : p = <<c, 0>>
  OBVIOUS
<1>11. p \in Packets /\ p # NoPack /\ p[1] = c /\ p[2] <= MaxMsgs /\ ~Used(p) /\ ~Queued(p)
  <2>1. c # NoConn /\ c \in Ids /\ 0 \in 0 .. MaxMsgs + 1 /\ 0 \in 0 .. MaxMsgs
    BY <1>9, ConstantTypes DEF Conns, NoConn
  <2>2. ~Used(p) /\ ~Queued(p)
    BY <1>9, <1>10, <2>1 DEF New
  <2> QED
    BY <1>9, <1>10, <2>1, <2>2 DEF Packets, NoPack
<1>12. \A x \in Slots : Line(x)' = Line(x) /\ Session'[x].SessionID = Session[x].SessionID
  BY <1>2 DEF Line
<1>13. \A x : Queued(x)' <=> Queued(x)
  BY <1>7, <1>12, LinesStep
<1>14. \A d \in Conns \ {c} : ConnLike(d)
  BY <1>2, <1>6 DEF ConnLike, Unread
<1>15. \A d \in Conns \ {c} : FreshOf(d)'
  BY <1>5, <1>7, <1>8, <1>10, <1>11, <1>13, <1>14, FreshOthers
<1>16. FreshOf(c)'
  <2>1. ASSUME NEW n \in 1 .. MaxMsgs PROVE ~Used(<<c, n>>)' /\ ~Queued(<<c, n>>)'
    <3>1. n \in 0 .. MaxMsgs /\ n # 0
      BY ONLY n \in 1 .. MaxMsgs, <1>9
    <3>2. <<c, n>> # p /\ ~Used(<<c, n>>) /\ ~Queued(<<c, n>>) /\ <<c, n>> # NoPack
      BY <1>9, <1>10, <3>1 DEF New, NoPack
    <3> QED
      BY <1>5, <1>8, <1>10, <1>13, <3>2, UseStep
  <2>2. New(c, 1)'
    BY <2>1 DEF New
  <2>3. PICK r \in Seq(Units), k \in Nat : r = net[c].inbound /\ k = net[c].asked
    BY <1>4, ConnFields, ConstantTypes DEF TypeOK
  <2>4. Unread(c)' = r
    <3>1. <<>> \o r = r
      OBVIOUS
    <3> QED
      BY <1>2, <1>4, <1>6, <2>3, <3>1 DEF Unread
  <2>5. Stream(r, 1, k)
    BY <1>2, <2>3 DEF Served, Wires
  <2>6. Coming(c, 1)'
    BY <1>6, <2>2, <2>3, <2>4, <2>5 DEF Coming
  <2>7. 1 \in 1 .. k + 1
    OBVIOUS
  <2> QED
    BY <1>6, <2>3, <2>6, <2>7 DEF FreshOf
<1>17. Fresh'
  BY <1>15, <1>16 DEF Fresh
<1>18. Handed'
  <2>1. refs' = [refs EXCEPT ![p] = 1]
    <3>1. <<c, 0>> # NoPack
      BY <1>10, <1>11
    <3> QED
      BY <1>2, <1>10, <3>1 DEF Call
  <2> QED
    BY <1>4, <1>5, <1>7, <1>8, <1>10, <1>11, <1>12, <1>17, <2>1, CallHanded
<1>19. Packs'
  <2>1. OnlyAt(s) /\ Session'[s].SendPack = Session[s].SendPack
    BY <1>2 DEF OnlyAt
  <2>2. ToSet(emptySession)' = ToSet(emptySession)
    BY <1>2 DEF ToSet
  <2>3. PackAt(s)'
    BY <1>2, <1>7, <2>2 DEF PackAt
  <2>4. PackOf(t)'
    BY <1>5 DEF PackOf, Batching, Unsent, Fill, Ided
  <2> QED
    BY <1>4, <1>5, <1>7, <2>1, <2>2, <2>3, <2>4, PacksStep
<1> QED
  BY <1>18, <1>19 DEF Wares

-----------------------------------------------------------------------------
(* Clients *)

\* The request a client sends is the last of those that were not read.
LEMMA PacketsPeerSend ==
  ASSUME AccountsInv, Callers = {}, Served, Wares, NEW c \in Conns, PeerSend(c)
  PROVE  Wares'
<1>1. PICK k \in Nat : k = net[c].asked
  BY Parts, ConnFields, ConstantTypes DEF TypeOK
<1>2. PICK r : /\ \/ r = <<[kind |-> "head", n |-> k + 1], [kind |-> "body", n |-> k + 1]>>
                  \/ r = <<[kind |-> "bad", n |-> k + 1]>>
               /\ net' = [net EXCEPT ![c].asked = k + 1, ![c].inbound = @ \o r]
  BY <1>1 DEF PeerSend
<1>3. /\ TypeOK /\ k + 1 <= MaxMsgs /\ MaxMsgs \in Nat
      /\ UNCHANGED <<Session, th, emptySession, refs>> /\ c \in Ids /\ Conns \subseteq Ids
  BY <1>1, Parts, ConstantTypes, SizesAssumption DEF PeerSend, pool
<1>4. r \in Seq(Units)
  <2>1. k + 1 \in 1 .. MaxMsgs
    BY <1>3
  <2>2. /\ [kind |-> "head", n |-> k + 1] \in Units /\ [kind |-> "body", n |-> k + 1] \in Units
        /\ [kind |-> "bad", n |-> k + 1] \in Units
    BY <2>1 DEF Units
  <2>3. \A x, y \in Units : <<x, y>> \in Seq(Units) /\ <<x>> \in Seq(Units)
    OBVIOUS
  <2> QED
    BY ONLY <1>2, <2>2, <2>3
<1>5. /\ \A d \in Conns \ {c} : net'[d] = net[d]
      /\ net'[c].asked = k + 1 /\ net'[c].inbound = net[c].inbound \o r
      /\ net'[c].index = net[c].index
      /\ net'[c].joins = net[c].joins /\ net'[c].leaves = net[c].leaves
  BY <1>2, <1>3 DEF TypeOK, ConnType
<1>6. Users /\ Lines /\ Handled /\ Fresh /\ Counted /\ Packs
  BY DEF Wares, Handed
<1>7. /\ \A x \in Slots : Line(x)' = Line(x) /\ Session'[x].SessionID = Session[x].SessionID
      /\ \A x : Used(x)' <=> Used(x)
  BY <1>3 DEF Line, Used
<1>8. Lines' /\ \A x : Queued(x)' <=> Queued(x)
  BY <1>6, <1>7, LinesStep
<1>9. FreshOf(c)'
  <2>1. FreshOf(c)
    BY <1>6 DEF Fresh
  <2>2. ASSUME NEW m, New(c, m) PROVE New(c, m)'
    BY <1>7, <1>8, <2>2 DEF New
  <2>3. ASSUME net[c].joins = 1, net[c].leaves = 0
        PROVE  \E m \in 1 .. k + 2 : Coming(c, m)'
    <3>1. PICK m \in 1 .. k + 1 : Coming(c, m)
      BY <1>1, <2>1, <2>3 DEF FreshOf
    <3>2. net[c].index \in Slots
      BY <1>3, ConnFields DEF TypeOK
    <3>3. PICK a \in Seq(Units), b \in Seq(Units) :
            a = Session[net[c].index].RecvQ /\ b = net[c].inbound
      BY <1>3, <3>2, SessionFields, ConnFields DEF TypeOK
    <3>4. Stream(a \o b, m, k) /\ New(c, m)
      BY <1>1, <3>1, <3>3 DEF Coming, Unread
    <3>5. Stream((a \o b) \o r, m, k + 1)
      <4>0. a \o b \in Seq(Units)
        OBVIOUS
      <4>1. PICK y \in Seq(Units) : y = a \o b
        BY <4>0
      <4>2. Stream(y, m, k) /\ m \in Nat
        BY <3>4, <4>1
      <4>3. \/ r = <<[kind |-> "head", n |-> k + 1], [kind |-> "body", n |-> k + 1]>>
            \/ r = <<[kind |-> "bad", n |-> k + 1]>>
        BY <1>2
      <4>4. Stream(y \o r, m, k + 1)
        BY ONLY <1>4, <4>2, <4>3, y \in Seq(Units), k \in Nat, StreamGrows
      <4> QED
        BY <4>1, <4>4
    <3>6. (a \o b) \o r = a \o (b \o r)
      BY <1>4, UnitsAssociative
    <3>7. Unread(c)' = a \o (b \o r)
      BY <1>3, <1>5, <3>3 DEF Unread
    <3>8. Coming(c, m)'
      BY <1>5, <2>2, <3>4, <3>5, <3>6, <3>7 DEF Coming
    <3> QED
      BY <3>8
  <2>4. k + 2 = k + 1 + 1
    OBVIOUS
  <2> QED
    BY <1>5, <2>1, <2>2, <2>3, <2>4 DEF FreshOf
<1>10. Fresh'
  <2>1. ASSUME NEW d \in Conns, d # c PROVE FreshOf(d)'
    <3>1. FreshOf(d) /\ ConnLike(d)
      BY <1>3, <1>5, <1>6, <2>1 DEF Fresh, ConnLike, Unread
    <3> QED
      BY <1>7, <1>8, <3>1, FreshConn
  <2> QED
    BY <1>9, <2>1 DEF Fresh
<1>11. Counted'
  BY <1>3, <1>6, <1>7, <1>8, CountedSame
<1>12. Users' /\ Packs'
  <2>1. ToSet(emptySession)' = ToSet(emptySession)
    BY <1>3 DEF ToSet
  <2> QED
    BY <1>3, <1>6, <2>1 DEF Users, Packs, PackAt, PackOf
<1>13. Handled'
  BY <1>3, <1>6, <1>8 DEF Handled, Queued, Given, Line
<1> QED
  BY <1>8, <1>10, <1>11, <1>12, <1>13 DEF Wares, Handed

-----------------------------------------------------------------------------
(* The invariant *)

LEMMA PacketsRelease ==
  ASSUME AccountsInv, Callers = {}, Served, Wares, NEW t \in Threads, SessionRelease(t)
  PROVE  Wares'
<1>1. PICK s : s = th[t].slot
  OBVIOUS
<1>2. CASE Release(t)
  BY <1>2, PacketsPlain
<1>3. CASE Leave(t)
  BY <1>3, PacketsLeave
<1>4. CASE Close(t)
  BY <1>4, PacketsClose
<1>5. CASE DrainQ(t) \/ DrainPack(t)
  BY <1>1, <1>5, PacketsFreed, PacketsFree
<1>6. CASE PushSlot(t)
  BY <1>6, PacketsPushSlot
<1> QED
  BY <1>2, <1>3, <1>4, <1>5, <1>6 DEF SessionRelease

LEMMA PacketsCommon ==
  ASSUME AccountsInv, Roomy, Served, Wares, NEW t \in Threads, Common(t)
  PROVE  Wares'
<1>1. Callers = {}
  BY DEF Roomy, Echoes
<1>2. CASE EndPost(t) \/ EndPostEmpty(t) \/ EndCall(t) \/ EndEvent(t)
  BY <1>1, <1>2, PacketsDecrements
<1>3. CASE SessionRelease(t)
  BY <1>1, <1>3, PacketsRelease
<1>4. CASE FindUse(t) \/ FindID(t) \/ Disconnect(t) \/ PostSend(t) \/ PostRecv(t)
  BY <1>1, <1>4, PacketsPlain
<1>5. CASE Find(t)
  BY <1>1, <1>5, PacketsFind
<1>6. CASE Enqueue(t)
  BY <1>6, PacketsEnqueue
<1>7. CASE FreeMsg(t)
  BY <1>1, <1>7, PacketsFreeMsg
<1>8. CASE SetFlag(t) \/ ClearFlag(t)
  BY <1>1, <1>8, PacketsFlag
<1>9. CASE Dequeue(t)
  BY <1>9, PacketsDequeue
<1>10. CASE WSASend(t)
  BY <1>1, <1>10, PacketsWSASend
<1>11. CASE WSARecv(t)
  BY <1>1, <1>11, PacketsWSARecv
<1> QED
  BY <1>2, <1>3, <1>4, <1>5, <1>6, <1>7, <1>8, <1>9, <1>10, <1>11 DEF Common

LEMMA PacketsAcceptThread ==
  ASSUME AccountsInv, Echoes, Served, Wares, AcceptThread
  PROVE  Wares'
<1>1. Callers = {}
  BY DEF Echoes
<1>2. PICK t \in Threads : t = Acceptor
  BY ConstantTypes
<1>3. CASE Accept
  <2>1. UNCHANGED refs
    BY <1>3 DEF Accept
  <2>2. PICK c \in Conns : AcceptsNone(c) \/ \E s : AcceptsInto(c, s)
    BY <1>3, AcceptsOr
  <2> QED
    BY <1>1, <2>1, <2>2, PacketsAcceptsNone, PacketsAcceptsInto
<1>4. CASE AcceptEnd \/ TakeSlot \/ SetSock \/ SetUse
  BY <1>1, <1>2, <1>4, PacketsPlain
<1>5. CASE SetID
  BY <1>1, <1>5, PacketsSetID
<1>6. CASE ResetFlag
  BY <1>1, <1>2, <1>6, PacketsFlag
<1>7. CASE Join
  BY <1>7, PacketsJoin
<1> QED
  BY <1>3, <1>4, <1>5, <1>6, <1>7 DEF AcceptThread

LEMMA PacketsWorkerThread ==
  ASSUME AccountsInv, Echoes, Served, Wares, NEW w \in Workers, WorkerThread(w)
  PROVE  Wares'
<1>1. Callers = {} /\ w \in Threads
  BY DEF Echoes, Threads
<1>2. PICK s : s = th[w].slot
  OBVIOUS
<1>3. CASE RecvDone(w)
  BY <1>1, <1>3, PacketsRecvDone
<1>4. CASE SendDone(w) \/ ZeroDone(w)
  BY <1>1, <1>4, PacketsCompletion
<1>5. CASE Zero(w) \/ Quit(w) \/ Recheck(w)
  BY <1>1, <1>5, PacketsPlain
<1>6. CASE FreeSent(w)
  BY <1>1, <1>2, <1>6, PacketsFreed, PacketsFree
<1>7. CASE Parse(w)
  BY <1>7, PacketsParse
<1> QED
  BY <1>3, <1>4, <1>5, <1>6, <1>7 DEF WorkerThread

LEMMA StepPackets ==
  ASSUME Roomy, PacketsInv, [Next]_vars
  PROVE  PacketsInv'
<1>1. ServiceInv /\ AccountsInv /\ Served /\ Wares /\ Echoes /\ Callers = {}
  BY DEF PacketsInv, ServiceInv, Roomy, Echoes
<1>2. ServiceInv'
  BY <1>1, EchoAdmits, StepService
<1>3. Wares'
  <2>1. CASE \E t \in Threads : Common(t)
    BY <1>1, <2>1, PacketsCommon
  <2>2. CASE AcceptThread
    BY <1>1, <2>2, PacketsAcceptThread
  <2>3. CASE \E w \in Workers : WorkerThread(w)
    BY <1>1, <2>3, PacketsWorkerThread
  <2>4. CASE \E c \in Conns : Client(c)
    BY <1>1, <2>4, PacketsPeerSend, PacketsOutside DEF Client
  <2>5. CASE Stop \/ UNCHANGED vars
    BY <1>1, <2>5, PacketsOutside
  <2>6. ~\E t \in Callers : AppCall(t)
    BY <1>1
  <2> QED
    BY <2>1, <2>2, <2>3, <2>4, <2>5, <2>6 DEF Next
<1> QED
  BY <1>2, <1>3 DEF PacketsInv

LEMMA InitPackets == Init => PacketsInv
<1> SUFFICES ASSUME Init PROVE PacketsInv
  OBVIOUS
<1>1. ServiceInv
  BY InitService
<1>2. \A s \in Slots : Session[s] = NewSession
  BY DEF Init
<1>3. \A t \in Threads : th[t] = NewThread
  BY DEF Init
<1>4. \A c \in Conns : net[c] = NewConn
  BY ConstantTypes DEF Init
<1>5. \A t \in Threads : th[t].msg = NoPack /\ th[t].pc = "idle" /\ th[t].batch = <<>>
  BY <1>3 DEF NewThread
<1>6. \A p : p # NoPack => ~Used(p)
  BY <1>5 DEF Used
<1>7. \A s \in Slots : Line(s) = <<>> /\ Given(s) = {}
  <2>1. <<>> \o <<>> = <<>> /\ ToSet(<<>>) = {}
    BY DEF ToSet
  <2>2. \A s \in Slots : Session[s].SendPack = <<>> /\ Session[s].SendQ = <<>>
    BY <1>2 DEF NewSession
  <2>3. \A s \in Slots : Line(s) = <<>>
    BY <2>1, <2>2 DEF Line
  <2> QED
    BY <2>1, <2>3 DEF Given
<1>8. \A p : ~Queued(p)
  BY <1>7 DEF Queued
<1>9. Users
  BY <1>5 DEF Users
<1>10. Lines
  <2>1. IsInjective(<<>>)
    BY DEF IsInjective
  <2> QED
    BY <1>7, <2>1 DEF Lines
<1>11. Handled
  BY <1>8 DEF Handled
<1>12. Fresh
  <2>1. ASSUME NEW c \in Conns PROVE FreshOf(c)
    <3>1. net[c].joins = 0
      BY <1>4 DEF NewConn
    <3>2. \A n : <<c, n>> # NoPack
      BY DEF Conns, NoPack, NoConn
    <3>3. New(c, 0)
      BY <1>6, <1>8, <3>2 DEF New
    <3> QED
      BY <3>1, <3>3 DEF FreshOf
  <2> QED
    BY <2>1 DEF Fresh
<1>13. Counted
  <2>1. \A p \in Packets : refs[p] = 0
    BY DEF Init
  <2> QED
    BY <1>6, <1>8, <2>1 DEF Counted, One
<1>14. Packs
  <2>1. \A s \in Slots : Session[s].SendPack = <<>> /\ Session[s].SendOver = <<>>
    BY <1>2 DEF NewSession
  <2> QED
    BY <1>5, <2>1 DEF Packs, PackAt, PackOf, Batching, Unsent, Fill, Ided
<1> QED
  BY <1>1, <1>9, <1>10, <1>11, <1>12, <1>13, <1>14 DEF PacketsInv, Wares, Handed

-----------------------------------------------------------------------------
(* The theorem *)

\* The invariant's count of a packet is that of its users and of its places.
LEMMA UsersCounted ==
  ASSUME Users, NEW p, p # NoPack
  PROVE  Cardinality({t \in Threads : th[t].msg = p}) = One(Used(p))
<1> DEFINE U == {t \in Threads : th[t].msg = p}
<1>1. CASE Used(p)
  <2>1. PICK t \in Threads : th[t].msg = p
    BY <1>1 DEF Used
  <2>2. U = {t}
    BY <2>1 DEF Users
  <2>3. Cardinality({t}) = 1
    BY FS_Singleton
  <2> QED
    BY <1>1, <2>2, <2>3 DEF One
<1>2. CASE ~Used(p)
  <2>1. U = {}
    BY <1>2 DEF Used
  <2>2. Cardinality({}) = 0
    BY FS_EmptySet
  <2> QED
    BY <1>2, <2>1, <2>2 DEF One
<1> QED
  BY <1>1, <1>2

LEMMA PlacesCounted ==
  ASSUME AccountsInv, Lines, NEW p
  PROVE  Cardinality(Places(p)) = One(Queued(p))
<1>1. CASE Queued(p)
  <2>1. PICK s \in Slots : p \in Given(s)
    BY <1>1 DEF Queued
  <2>2. PICK i \in DOMAIN Line(s) : Line(s)[i] = p
    BY <2>1 DEF Given, ToSet
  <2>3. \A j \in DOMAIN Line(s) : Line(s)[j] = p => j = i
    BY <2>2 DEF Lines, IsInjective
  <2>4. ASSUME NEW r \in Slots, NEW j \in DOMAIN Line(r), Line(r)[j] = p PROVE r = s /\ j = i
    <3>1. p \in Given(r)
      BY <2>4 DEF Given, ToSet
    <3>2. r = s
      BY <2>1, <3>1, OneGiver
    <3> QED
      BY <2>3, <2>4, <3>2
  <2>5. Places(p) = {<<s, i>>}
    BY <2>2, <2>4 DEF Places
  <2>6. Cardinality({<<s, i>>}) = 1
    BY FS_Singleton
  <2> QED
    BY <1>1, <2>5, <2>6 DEF One
<1>2. CASE ~Queued(p)
  <2>1. Places(p) = {}
    BY <1>2 DEF Places, Queued, Given, ToSet
  <2>2. Cardinality({}) = 0
    BY FS_EmptySet
  <2> QED
    BY <1>2, <2>1, <2>2 DEF One
<1> QED
  BY <1>1, <1>2

LEMMA PacketsShown == PacketsInv => PacketsCounted
<1> SUFFICES ASSUME PacketsInv PROVE PacketsCounted
  OBVIOUS
<1>1. AccountsInv /\ Users /\ Lines /\ Counted /\ Packs /\ TypeOK
  BY Parts DEF PacketsInv, ServiceInv, Wares, Handed
<1>2. \A p \in Packets \ {NoPack} :
        refs[p] = Cardinality({t \in Threads : th[t].msg = p}) + Cardinality(Places(p))
  BY <1>1, UsersCounted, PlacesCounted DEF Counted
<1>3. ASSUME NEW s \in Slots, NEW i \in DOMAIN Session[s].SendOver,
             NEW p \in ToSet(Session[s].SendOver[i].buf)
      PROVE  refs[p] > 0
  <2>1. PICK a \in Seq(Packets), q \in Seq(Packets) :
          a = Session[s].SendPack /\ q = Session[s].SendQ
    BY <1>1, LineType
  <2>2. p \in ToSet(a)
    BY <1>1, <1>3, <2>1 DEF Packs, PackAt
  <2>3. p \in ToSet(a \o q)
    BY <2>2 DEF ToSet
  <2>4. p \in Given(s)
    BY <2>1, <2>3 DEF Given, Line
  <2>5. p \in Packets /\ p # NoPack
    <3>1. InUse(s) /\ \E n \in 0 .. MaxMsgs : p = <<Session[s].SessionID, n>>
      BY <1>1, <2>4 DEF Lines
    <3>2. p # NoPack
      BY <3>1 DEF InUse, NoPack
    <3> QED
      BY <1>1, <2>4, <3>2, LineType
  <2>6. refs[p] = One(Used(p)) + One(Queued(p)) /\ Queued(p)
    BY <1>1, <2>4, <2>5 DEF Counted, Queued
  <2> QED
    BY <2>6 DEF One
<1> QED
  BY <1>2, <1>3 DEF PacketsCounted

\* The count of a packet is exact, as long as SendQ and buf[] have room for the greeting and
\* all the answers of a client: no packet is freed while it is queued or the kernel is sending
\* it, and none is left counted when its last user is gone.
THEOREM EchoPacketsCounted == ASSUME Roomy PROVE Spec => []PacketsCounted
<1>1. Init => PacketsInv
  BY InitPackets
<1>2. PacketsInv /\ [Next]_vars => PacketsInv'
  BY StepPackets
<1>3. PacketsInv => PacketsCounted
  BY PacketsShown
<1> QED
  BY <1>1, <1>2, <1>3, PTL DEF Spec
=============================================================================
