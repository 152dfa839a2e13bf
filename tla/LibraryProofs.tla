--------------------------- MODULE LibraryProofs ---------------------------
(***************************************************************************)
(* The library classes: CDBConnector, CSystemLog, Packet, CMemoryPool_TLS, *)
(* CRingbuffer and CMemoryPool_LF.  Each section has the inductive         *)
(* invariant of one class and the theorems that follow.                    *)
(***************************************************************************)
EXTENDS DBConnector, SystemLog, PacketBuffer, MemoryPoolTLS, RingBuffer, MemoryPoolLF,
  FiniteSetTheorems, TLAPS

-----------------------------------------------------------------------------
(* CDBConnector *)

\* Outside Connect and the retries the handle is open, unless the retries are used up;
\* the same holds of the result that is read; and where a result is asked for the last
\* one has been freed.
DBInv ==
  /\ ReTry \in Nat /\ cnt \in Nat
  /\ AtCall("query") \/ AtCall("store") \/ AtCall("fetch") \/ AtCall("free") =>
       pMySQL = "open" \/ ReTry > Reconnect
  /\ AtCall("fetch") => sqlResult \in {"held", "null"} \/ ReTry > Reconnect
  /\ AtCall("connect") \/ AtCall("query") \/ AtCall("retry") \/ AtCall("store") =>
       sqlResult # "held"
  /\ FaultsOnlyWithoutRetries /\ NoResultLeaks

LEMMA DBStart == DBInit => DBInv
BY DBAssumption DEF DBInit, DBInv, AtCall, FaultsOnlyWithoutRetries, NoResultLeaks

LEMMA DBStep ==
  ASSUME DBInv, [DBNext]_dbVars
  PROVE  DBInv'
<1> USE DBAssumption DEF DBInv, FaultsOnlyWithoutRetries, NoResultLeaks, AtCall, GoOn
<1>1. CASE Connect BY <1>1 DEF Connect, ConnectOk, ConnectFails
<1>2. CASE Query BY <1>2 DEF Query
<1>3. CASE Retry BY <1>3 DEF Retry, ConnectOk, ConnectFails, AfterQuery
<1>4. CASE StoreResult BY <1>4 DEF StoreResult, AfterQuery
<1>5. CASE FetchRow BY <1>5 DEF FetchRow
<1>6. CASE FreeResult
  <2>1. main' = "exit" \/ main' = "query" BY <1>6 DEF FreeResult
  <2>2. unfreed' = (IF sqlResult' = "held" THEN 1 ELSE 0) /\ sqlResult' # "held"
    <3>1. CASE sqlResult = "held" BY <1>6, <3>1 DEF FreeResult
    <3>2. CASE sqlResult # "held" BY <1>6, <3>2 DEF FreeResult
    <3> QED BY <3>1, <3>2
  <2>3. UNCHANGED <<pMySQL, ReTry>> /\ cnt' \in Nat /\ main = "free" BY <1>6 DEF FreeResult
  <2> QED BY <2>1, <2>2, <2>3
<1>7. CASE UNCHANGED dbVars BY <1>7 DEF dbVars
<1> QED BY <1>1, <1>2, <1>3, <1>4, <1>5, <1>6, <1>7 DEF DBNext

LEMMA DBInvariance == DBSpec => []DBInv
BY DBStart, DBStep, PTL DEF DBSpec

\* main never looks at what Query returns; it uses a NULL handle or a freed result only after
\* more failed reconnects than _iReconnect allows, however many statements it sends and
\* whatever fails (DBConnector.cpp).
THEOREM FaultsNeedRetries == DBSpec => []FaultsOnlyWithoutRetries
<1>1. DBInv => FaultsOnlyWithoutRetries BY DEF DBInv
<1> QED BY <1>1, DBInvariance, PTL

\* At most the result _pSqlResult points to is not freed.
THEOREM ResultsFreed == DBSpec => []NoResultLeaks
<1>1. DBInv => NoResultLeaks BY DEF DBInv
<1> QED BY <1>1, DBInvariance, PTL

-----------------------------------------------------------------------------
(* CSystemLog: types and the lock *)

LogPlaces ==
  {"out", "localtime", "name", "number", "header", "acquire", "writeHeader", "writeText",
   "release", "time", "again"}
UnderLock == {"writeHeader", "writeText", "release"}

LogLocals == [at : LogPlaces, file : 1 .. Months, No : Nat, date : 1 .. Months]
Parts ==
  [kind : {"header"}, No : Nat, date : 1 .. Months] \cup [kind : {"text"}, No : Nat]

LogTyped ==
  /\ clock \in 1 .. Months /\ Time \in 1 .. Months /\ tm \in 1 .. Months
  /\ LogNo \in Nat
  /\ files \in [1 .. Months -> Seq(Parts)]
  /\ lg \in [Loggers -> LogLocals]

\* Who writes holds the lock.
Locked == \A l \in Loggers : lg[l].at \in UnderLock <=> srwLock = l

\* The text of the record that is being written belongs under the last header.
HeaderLast ==
  \A l \in Loggers : Writing(l) =>
    LET f == files[lg[l].file] IN
    Len(f) > 0 /\ f[Len(f)].kind = "header" /\ f[Len(f)].No = lg[l].No

LEMMA LogGone ==
  ASSUME LogTyped, NEW l \in Loggers, NEW from, NEW new, Proceeds(l, from, new)
  PROVE  /\ lg[l].at = from /\ lg'[l] = new
         /\ \A k \in Loggers \ {l} : lg'[k] = lg[k]
         /\ new \in LogLocals => lg' \in [Loggers -> LogLocals]
         /\ lg[l] \in LogLocals
BY DEF LogTyped, Proceeds

LEMMA LogGoesOn ==
  ASSUME LogTyped, NEW l \in Loggers, NEW to \in LogPlaces
  PROVE  /\ At(l, to) \in LogLocals /\ At(l, to).at = to /\ At(l, to).file = lg[l].file
         /\ At(l, to).No = lg[l].No /\ At(l, to).date = lg[l].date
<1>1. lg[l] \in LogLocals BY DEF LogTyped
<1> QED BY <1>1 DEF At, LogLocals

LEMMA SilentTyped == Silent \in LogLocals /\ Silent.at = "out"
BY MonthsAssumption DEF Silent, LogLocals, LogPlaces
\* What each step of a thread does to the thread and to what all threads see.
Passes(l, from, to) == lg[l].at = from /\ lg'[l].at = to
SameRecord(l) == lg'[l].No = lg[l].No /\ lg'[l].file = lg[l].file
LogFrame == UNCHANGED <<files, LogNo, srwLock>>

Appends(l, part) ==
  /\ part \in Parts
  /\ files' = [files EXCEPT ![lg[l].file] = Append(@, part)] /\ UNCHANGED <<LogNo, srwLock>>

LogMove(l) ==
  \/ Passes(l, "out", "localtime") /\ l \in callers /\ LogFrame /\ UNCHANGED tm
  \/ Passes(l, "localtime", "name") /\ LogFrame
  \/ Passes(l, "name", "number") /\ lg'[l].file = tm /\ LogFrame /\ UNCHANGED tm
  \/ /\ Passes(l, "number", "header") /\ lg'[l].file = lg[l].file /\ lg'[l].No = LogNo + 1
     /\ LogNo' = LogNo + 1 /\ UNCHANGED <<files, srwLock, tm>>
  \/ Passes(l, "header", "acquire") /\ SameRecord(l) /\ lg'[l].date = tm /\ LogFrame /\ UNCHANGED tm
  \/ /\ Passes(l, "acquire", "writeHeader") /\ SameRecord(l) /\ lg'[l].date = lg[l].date
     /\ srwLock = Nobody /\ srwLock' = l /\ UNCHANGED <<files, LogNo, tm>>
  \/ /\ Passes(l, "writeHeader", "writeText") /\ SameRecord(l) /\ UNCHANGED tm
     /\ Appends(l, [kind |-> "header", No |-> lg[l].No, date |-> lg[l].date])
  \/ /\ Passes(l, "writeText", "release") /\ UNCHANGED tm
     /\ Appends(l, [kind |-> "text", No |-> lg[l].No])
  \/ /\ Passes(l, "release", "time") \/ Passes(l, "release", "out")
     /\ srwLock' = Nobody /\ UNCHANGED <<files, LogNo, tm>>
  \/ Passes(l, "time", "again") /\ LogFrame /\ UNCHANGED tm
  \/ Passes(l, "again", "out") /\ LogFrame

LogStep(l) ==
  \/ BeginLog(l) \/ HeaderSetting(l) \/ AcquireLog(l) \/ WriteHeader(l) \/ WriteText(l)
  \/ ReleaseLog(l) \/ SetTimeAgain(l) \/ SetDateAgain(l)

LogOthers(l) ==
  LogTyped' /\ UNCHANGED <<callers, windowprint, clock>> /\ \A k \in Loggers \ {l} : lg'[k] = lg[k]

LEMMA LogMoves ==
  ASSUME LogTyped, NEW l \in Loggers, LogStep(l)
  PROVE  LogOthers(l) /\ LogMove(l)
<1> USE DEF LogOthers, LogMove, Passes, SameRecord, LogFrame
<1>1. CASE BeginLog(l)
  <2>1. Proceeds(l, "out", At(l, "localtime")) BY <1>1 DEF BeginLog, SetTime
  <2>2. At(l, "localtime") \in LogLocals /\ At(l, "localtime").at = "localtime"
    BY LogGoesOn DEF LogPlaces
  <2> QED BY <1>1, <2>1, <2>2, LogGone DEF BeginLog, SetTime, LogTyped
<1>2. CASE SetDate(l)
  <2>1. Proceeds(l, "localtime", At(l, "name")) BY <1>2 DEF SetDate, SetTm
  <2>2. At(l, "name") \in LogLocals /\ At(l, "name").at = "name"
    BY LogGoesOn DEF LogPlaces
  <2> QED BY <1>2, <2>1, <2>2, LogGone DEF SetDate, SetTm, LogTyped
<1>3. CASE NameFile(l)
  <2> DEFINE new == [At(l, "number") EXCEPT !.file = tm]
  <2>1. Proceeds(l, "name", new) BY <1>3 DEF NameFile, ReadsTm
  <2>2. new \in LogLocals /\ new.at = "number" /\ new.file = tm
    <3>1. At(l, "number") \in LogLocals /\ At(l, "number").at = "number" /\ tm \in 1 .. Months
      BY LogGoesOn DEF LogPlaces, LogTyped
    <3> QED BY <3>1 DEF LogLocals
  <2> HIDE DEF new
  <2> QED BY <1>3, <2>1, <2>2, LogGone DEF NameFile, ReadsTm, LogTyped
<1>4. CASE TakeLogNo(l)
  <2> DEFINE new == [At(l, "header") EXCEPT !.No = LogNo + 1]
  <2>1. Proceeds(l, "number", new) BY <1>4 DEF TakeLogNo
  <2>2. /\ At(l, "header") \in LogLocals /\ At(l, "header").at = "header" /\ LogNo \in Nat
        /\ At(l, "header").file = lg[l].file
    BY LogGoesOn DEF LogPlaces, LogTyped
  <2>3. new \in LogLocals /\ new.at = "header" /\ new.No = LogNo + 1 /\ new.file = lg[l].file
    <3>1. PICK n \in Nat : n = LogNo + 1 BY <2>2
    <3>2. new = [At(l, "header") EXCEPT !.No = n] BY <3>1
    <3> HIDE DEF new
    <3> QED BY <2>2, <3>1, <3>2 DEF LogLocals
  <2> HIDE DEF new
  <2> QED BY <1>4, <2>1, <2>2, <2>3, LogGone DEF TakeLogNo, LogTyped
<1>5. CASE MakeHeader(l)
  <2> DEFINE new == [At(l, "acquire") EXCEPT !.date = tm]
  <2>1. Proceeds(l, "header", new) BY <1>5 DEF MakeHeader, ReadsTm
  <2>2. /\ new \in LogLocals /\ new.at = "acquire" /\ new.date = tm /\ new.file = lg[l].file
        /\ new.No = lg[l].No
    <3>1. /\ At(l, "acquire") \in LogLocals /\ At(l, "acquire").at = "acquire"
          /\ At(l, "acquire").file = lg[l].file /\ At(l, "acquire").No = lg[l].No
          /\ tm \in 1 .. Months
      BY LogGoesOn DEF LogPlaces, LogTyped
    <3> QED BY <3>1 DEF LogLocals
  <2> HIDE DEF new
  <2> QED BY <1>5, <2>1, <2>2, LogGone DEF MakeHeader, ReadsTm, LogTyped
<1>6. CASE AcquireLog(l)
  <2>1. Proceeds(l, "acquire", At(l, "writeHeader")) BY <1>6 DEF AcquireLog
  <2>2. /\ At(l, "writeHeader") \in LogLocals /\ At(l, "writeHeader").at = "writeHeader"
        /\ At(l, "writeHeader").file = lg[l].file /\ At(l, "writeHeader").No = lg[l].No
        /\ At(l, "writeHeader").date = lg[l].date
    BY LogGoesOn DEF LogPlaces
  <2> QED BY <1>6, <2>1, <2>2, LogGone DEF AcquireLog, LogTyped
<1>7. CASE WriteHeader(l)
  <2> DEFINE part == [kind |-> "header", No |-> lg[l].No, date |-> lg[l].date]
  <2>1. Proceeds(l, "writeHeader", At(l, "writeText")) BY <1>7 DEF WriteHeader, Write
  <2>2. /\ At(l, "writeText") \in LogLocals /\ At(l, "writeText").at = "writeText"
        /\ At(l, "writeText").file = lg[l].file /\ At(l, "writeText").No = lg[l].No
    BY LogGoesOn DEF LogPlaces
  <2>3. part \in Parts /\ lg[l].file \in 1 .. Months BY DEF Parts, LogTyped, LogLocals
  <2>4. /\ files' = [files EXCEPT ![lg[l].file] = Append(@, part)]
        /\ UNCHANGED <<callers, windowprint, clock, Time, tm, LogNo, srwLock>>
    BY <1>7 DEF WriteHeader, Write
  <2> HIDE DEF part
  <2>5. files' \in [1 .. Months -> Seq(Parts)] BY <2>3, <2>4 DEF LogTyped
  <2>6. LogTyped' BY <2>1, <2>2, <2>4, <2>5, LogGone DEF LogTyped
  <2>7. Appends(l, part) BY <2>3, <2>4 DEF Appends
  <2> QED BY <2>1, <2>2, <2>4, <2>6, <2>7, LogGone DEF part
<1>8. CASE WriteText(l)
  <2> DEFINE part == [kind |-> "text", No |-> lg[l].No]
  <2>1. Proceeds(l, "writeText", At(l, "release")) BY <1>8 DEF WriteText, Write
  <2>2. At(l, "release") \in LogLocals /\ At(l, "release").at = "release"
    BY LogGoesOn DEF LogPlaces
  <2>3. part \in Parts /\ lg[l].file \in 1 .. Months BY DEF Parts, LogTyped, LogLocals
  <2>4. /\ files' = [files EXCEPT ![lg[l].file] = Append(@, part)]
        /\ UNCHANGED <<callers, windowprint, clock, Time, tm, LogNo, srwLock>>
    BY <1>8 DEF WriteText, Write
  <2> HIDE DEF part
  <2>5. files' \in [1 .. Months -> Seq(Parts)] BY <2>3, <2>4 DEF LogTyped
  <2>6. LogTyped' BY <2>1, <2>2, <2>4, <2>5, LogGone DEF LogTyped
  <2>7. Appends(l, part) BY <2>3, <2>4 DEF Appends
  <2> QED BY <2>1, <2>2, <2>4, <2>6, <2>7, LogGone DEF part
<1>9. CASE ReleaseLog(l)
  <2> DEFINE new == IF windowprint THEN At(l, "time") ELSE Silent
  <2>1. Proceeds(l, "release", new) BY <1>9 DEF ReleaseLog
  <2>2. new \in LogLocals /\ new.at \in {"time", "out"}
    BY LogGoesOn, SilentTyped DEF LogPlaces
  <2> HIDE DEF new
  <2> QED BY <1>9, <2>1, <2>2, LogGone DEF ReleaseLog, LogTyped
<1>10. CASE SetTimeAgain(l)
  <2>1. Proceeds(l, "time", At(l, "again")) BY <1>10 DEF SetTimeAgain, SetTime
  <2>2. At(l, "again") \in LogLocals /\ At(l, "again").at = "again"
    BY LogGoesOn DEF LogPlaces
  <2> QED BY <1>10, <2>1, <2>2, LogGone DEF SetTimeAgain, SetTime, LogTyped
<1>11. CASE SetDateAgain(l)
  <2>1. Proceeds(l, "again", Silent) BY <1>11 DEF SetDateAgain
  <2> QED BY <1>11, <2>1, SilentTyped, LogGone DEF SetDateAgain, LogTyped
<1> HIDE DEF LogOthers, LogMove
<1> QED
  BY <1>1, <1>2, <1>3, <1>4, <1>5, <1>6, <1>7, <1>8, <1>9, <1>10, <1>11
     DEF LogStep, HeaderSetting

LEMMA AppendsFacts ==
  ASSUME LogTyped, NEW l \in Loggers, NEW part, Appends(l, part)
  PROVE  /\ lg[l].file \in 1 .. Months
         /\ \A m \in 1 .. Months : Len(files[m]) \in Nat /\ DOMAIN files[m] = 1 .. Len(files[m])
         /\ \A m \in 1 .. Months : m # lg[l].file => files'[m] = files[m]
         /\ DOMAIN files'[lg[l].file] = 1 .. Len(files[lg[l].file]) + 1
         /\ Len(files'[lg[l].file]) = Len(files[lg[l].file]) + 1
         /\ \A i \in 1 .. Len(files[lg[l].file]) : files'[lg[l].file][i] = files[lg[l].file][i]
         /\ files'[lg[l].file][Len(files[lg[l].file]) + 1] = part
<1>1. lg[l].file \in 1 .. Months /\ files \in [1 .. Months -> Seq(Parts)] /\ part \in Parts
  BY DEF LogTyped, LogLocals, Appends
<1>2. PICK f \in Seq(Parts) : f = files[lg[l].file] BY <1>1
<1>3. files' = [files EXCEPT ![lg[l].file] = Append(f, part)] BY <1>2 DEF Appends
<1>4. /\ Append(f, part) \in Seq(Parts) /\ Len(Append(f, part)) = Len(f) + 1 /\ Len(f) \in Nat
      /\ \A i \in 1 .. Len(f) : Append(f, part)[i] = f[i]
      /\ Append(f, part)[Len(f) + 1] = part
      /\ DOMAIN Append(f, part) = 1 .. Len(f) + 1
  BY <1>1
<1>5. files'[lg[l].file] = Append(f, part) BY <1>1, <1>3
<1>6. \A m \in 1 .. Months : Len(files[m]) \in Nat /\ DOMAIN files[m] = 1 .. Len(files[m]) BY <1>1
<1>7. \A m \in 1 .. Months : m # lg[l].file => files'[m] = files[m] BY <1>1, <1>3
<1> QED BY <1>1, <1>2, <1>4, <1>5, <1>6, <1>7

\* A part of a file was there before or is the one that was appended.
LEMMA AppendsAt ==
  ASSUME LogTyped, NEW l \in Loggers, NEW part, Appends(l, part)
  PROVE  /\ \A m \in 1 .. Months : \A i \in DOMAIN files'[m] :
              \/ i \in DOMAIN files[m] /\ files'[m][i] = files[m][i]
              \/ m = lg[l].file /\ i = Len(files[m]) + 1 /\ files'[m][i] = part
         /\ \A m \in 1 .. Months : \A i \in DOMAIN files[m] :
              i \in DOMAIN files'[m] /\ files'[m][i] = files[m][i]
         /\ lg[l].file \in 1 .. Months
         /\ Len(files[lg[l].file]) + 1 \in DOMAIN files'[lg[l].file]
         /\ Len(files[lg[l].file]) + 1 \notin DOMAIN files[lg[l].file]
         /\ files'[lg[l].file][Len(files[lg[l].file]) + 1] = part
<1> DEFINE n == lg[l].file
           f == files[n]
<1>1. /\ n \in 1 .. Months /\ \A m \in 1 .. Months : DOMAIN files[m] = 1 .. Len(files[m])
      /\ \A m \in 1 .. Months : Len(files[m]) \in Nat
      /\ \A m \in 1 .. Months : m # n => files'[m] = files[m]
      /\ DOMAIN files'[n] = 1 .. Len(f) + 1
      /\ \A i \in 1 .. Len(f) : files'[n][i] = f[i]
      /\ files'[n][Len(f) + 1] = part
  BY AppendsFacts
<1>2. Len(f) \in Nat /\ DOMAIN f = 1 .. Len(f) BY <1>1
<1>3. \A i \in 1 .. Len(f) + 1 : i \in 1 .. Len(f) \/ i = Len(f) + 1 BY <1>2
<1>4. Len(f) + 1 \in 1 .. Len(f) + 1 /\ Len(f) + 1 \notin 1 .. Len(f) BY <1>2
<1>5. \A i \in 1 .. Len(f) : i \in 1 .. Len(f) + 1 BY <1>2
<1> QED BY <1>1, <1>2, <1>3, <1>4, <1>5

LEMMA LockedStep ==
  ASSUME LogTyped, Locked, NEW l \in Loggers, LogOthers(l), LogMove(l)
  PROVE  Locked'
BY NobodyIsNone DEF Locked, LogOthers, LogMove, LogFrame, Appends, Passes, UnderLock

\* Two threads are never in the middle of a record.
LEMMA RecordsStep ==
  ASSUME LogTyped, Locked, RecordsWhole, HeaderLast, NEW l \in Loggers, LogOthers(l), LogMove(l)
  PROVE  RecordsWhole' /\ HeaderLast'
<1> DEFINE n == lg[l].file
           f == files[n]
<1>1. CASE UNCHANGED files /\ ~Passes(l, "writeHeader", "writeText") /\ ~Passes(l, "writeText", "release")
  <2>1. lg[l].at # "writeText" /\ lg'[l].at # "writeText"
    BY <1>1 DEF LogMove, Passes
  <2>2. \A k \in Loggers : (Writing(k)' <=> Writing(k)) /\ (Writing(k) => lg'[k] = lg[k])
    BY <2>1 DEF LogOthers, Writing
  <2> QED BY <1>1, <2>2 DEF RecordsWhole, HeaderLast
<1>2. CASE /\ Passes(l, "writeHeader", "writeText") /\ SameRecord(l)
           /\ Appends(l, [kind |-> "header", No |-> lg[l].No, date |-> lg[l].date])
  <2> DEFINE part == [kind |-> "header", No |-> lg[l].No, date |-> lg[l].date]
  <2>1. Appends(l, part) BY <1>2
  <2>2. part.kind = "header" /\ part.No = lg[l].No OBVIOUS
  <2> HIDE DEF part
  <2>3. /\ n \in 1 .. Months /\ \A m \in 1 .. Months : DOMAIN files[m] = 1 .. Len(files[m])
        /\ \A m \in 1 .. Months : Len(files[m]) \in Nat
        /\ \A m \in 1 .. Months : m # n => files'[m] = files[m]
        /\ DOMAIN files'[n] = 1 .. Len(f) + 1 /\ Len(files'[n]) = Len(f) + 1
        /\ \A i \in 1 .. Len(f) : files'[n][i] = f[i]
        /\ files'[n][Len(f) + 1] = part
    BY <2>1, AppendsFacts
  <2>4. /\ \A k \in Loggers : ~Writing(k)
        /\ Writing(l)' /\ lg'[l].file = n /\ lg'[l].No = lg[l].No
        /\ \A k \in Loggers : Writing(k)' => k = l
    BY <1>2 DEF Locked, UnderLock, Writing, Passes, LogOthers, SameRecord
  <2>5. \A m \in 1 .. Months : \A i \in DOMAIN files[m] :
          IF files[m][i].kind = "text"
          THEN i > 1 /\ files[m][i - 1].kind = "header" /\ files[m][i - 1].No = files[m][i].No
          ELSE i < Len(files[m]) /\ files[m][i + 1].kind = "text"
    BY <2>4 DEF RecordsWhole
  <2> HIDE DEF n, f
  <2>6. RecordsWhole'
    <3> SUFFICES ASSUME NEW m \in 1 .. Months, NEW i \in DOMAIN files'[m]
                 PROVE IF files'[m][i].kind = "text"
                       THEN i > 1 /\ files'[m][i - 1].kind = "header"
                                  /\ files'[m][i - 1].No = files'[m][i].No
                       ELSE \/ i < Len(files'[m]) /\ files'[m][i + 1].kind = "text"
                            \/ i = Len(files'[m]) /\ \E k \in Loggers : Writing(k)' /\ lg'[k].file = m
      BY DEF RecordsWhole
    <3>1. CASE m # n BY <2>3, <2>5, <3>1
    <3>2. CASE m = n /\ i = Len(f) + 1 BY <2>2, <2>3, <2>4, <3>2
    <3>3. CASE m = n /\ i # Len(f) + 1
      <4>1. i \in 1 .. Len(f) /\ f = files[n] /\ Len(f) \in Nat BY <2>3, <3>3 DEF f
      <4>2. CASE f[i].kind = "text"
        <5>1. i > 1 /\ f[i - 1].kind = "header" /\ f[i - 1].No = f[i].No
          BY <2>3, <2>5, <4>1, <4>2
        <5>2. i - 1 \in 1 .. Len(f) BY <4>1, <5>1
        <5>3. files'[m][i] = f[i] /\ files'[m][i - 1] = f[i - 1] BY <2>3, <3>3, <4>1, <5>2
        <5> QED BY <4>2, <5>1, <5>3
      <4>3. CASE f[i].kind # "text"
        <5>1. i < Len(f) /\ f[i + 1].kind = "text" BY <2>3, <2>5, <4>1, <4>3
        <5>2. i + 1 \in 1 .. Len(f) BY <4>1, <5>1
        <5>3. files'[m][i] = f[i] /\ files'[m][i + 1] = f[i + 1] BY <2>3, <3>3, <4>1, <5>2
        <5>4. i < Len(files'[m]) BY <2>3, <3>3, <4>1, <5>1
        <5> QED BY <4>3, <5>1, <5>3, <5>4
      <4> QED BY <4>2, <4>3
    <3> QED BY <3>1, <3>2, <3>3
  <2>7. HeaderLast' BY <2>2, <2>3, <2>4 DEF HeaderLast, f
  <2> QED BY <2>6, <2>7
<1>3. CASE /\ Passes(l, "writeText", "release")
           /\ Appends(l, [kind |-> "text", No |-> lg[l].No])
  <2> DEFINE part == [kind |-> "text", No |-> lg[l].No]
  <2>1. Appends(l, part) BY <1>3
  <2>2. part.kind = "text" /\ part.No = lg[l].No OBVIOUS
  <2> HIDE DEF part
  <2>3. /\ n \in 1 .. Months /\ \A m \in 1 .. Months : DOMAIN files[m] = 1 .. Len(files[m])
        /\ \A m \in 1 .. Months : Len(files[m]) \in Nat
        /\ \A m \in 1 .. Months : m # n => files'[m] = files[m]
        /\ DOMAIN files'[n] = 1 .. Len(f) + 1 /\ Len(files'[n]) = Len(f) + 1
        /\ \A i \in 1 .. Len(f) : files'[n][i] = f[i]
        /\ files'[n][Len(f) + 1] = part
    BY <2>1, AppendsFacts
  <2>4. /\ Writing(l) /\ \A k \in Loggers : Writing(k) => k = l
        /\ \A k \in Loggers : ~Writing(k)'
    BY <1>3 DEF Locked, UnderLock, Writing, Passes, LogOthers
  <2>5. Len(f) > 0 /\ f[Len(f)].kind = "header" /\ f[Len(f)].No = lg[l].No
    BY <2>4 DEF HeaderLast
  <2>6. \A m \in 1 .. Months : \A i \in DOMAIN files[m] :
          IF files[m][i].kind = "text"
          THEN i > 1 /\ files[m][i - 1].kind = "header" /\ files[m][i - 1].No = files[m][i].No
          ELSE \/ i < Len(files[m]) /\ files[m][i + 1].kind = "text"
               \/ i = Len(files[m]) /\ m = n
    BY <2>4 DEF RecordsWhole
  <2> HIDE DEF n, f
  <2>7. RecordsWhole'
    <3> SUFFICES ASSUME NEW m \in 1 .. Months, NEW i \in DOMAIN files'[m]
                 PROVE IF files'[m][i].kind = "text"
                       THEN i > 1 /\ files'[m][i - 1].kind = "header"
                                  /\ files'[m][i - 1].No = files'[m][i].No
                       ELSE i < Len(files'[m]) /\ files'[m][i + 1].kind = "text"
      BY DEF RecordsWhole
    <3>1. CASE m # n BY <2>3, <2>6, <3>1
    <3>2. CASE m = n /\ i = Len(f) + 1
      <4>1. Len(f) \in Nat BY <2>3 DEF f
      <4>2. files'[n][i - 1] = f[Len(f)] /\ i > 1 BY <2>3, <2>5, <3>2, <4>1
      <4> QED BY <2>2, <2>3, <2>5, <3>2, <4>2
    <3>3. CASE m = n /\ i # Len(f) + 1
      <4>1. i \in 1 .. Len(f) /\ f = files[n] /\ Len(f) \in Nat BY <2>3, <3>3 DEF f
      <4>2. CASE f[i].kind = "text"
        <5>1. i > 1 /\ f[i - 1].kind = "header" /\ f[i - 1].No = f[i].No
          BY <2>3, <2>6, <4>1, <4>2
        <5>2. i - 1 \in 1 .. Len(f) BY <4>1, <5>1
        <5>3. files'[m][i] = f[i] /\ files'[m][i - 1] = f[i - 1] BY <2>3, <3>3, <4>1, <5>2
        <5> QED BY <4>2, <5>1, <5>3
      <4>3. CASE f[i].kind # "text" /\ i = Len(f) BY <2>2, <2>3, <3>3, <4>1, <4>3
      <4>4. CASE f[i].kind # "text" /\ i # Len(f)
        <5>1. i < Len(f) /\ f[i + 1].kind = "text" BY <2>3, <2>6, <4>1, <4>4
        <5>2. i + 1 \in 1 .. Len(f) BY <4>1, <5>1
        <5>3. files'[m][i] = f[i] /\ files'[m][i + 1] = f[i + 1] BY <2>3, <3>3, <4>1, <5>2
        <5>4. i < Len(files'[m]) BY <2>3, <3>3, <4>1, <5>1
        <5> QED BY <4>4, <5>1, <5>3, <5>4
      <4> QED BY <4>2, <4>3, <4>4
    <3> QED BY <3>1, <3>2, <3>3
  <2>8. HeaderLast' BY <2>4 DEF HeaderLast
  <2> QED BY <2>7, <2>8
<1> QED
  <2>1. LogFrame => UNCHANGED files BY DEF LogFrame
  <2> QED BY <1>1, <1>2, <1>3, <2>1 DEF LogMove, Passes

\* A lone logger changes t only before it looks at it, and dates file and header by what
\* it then sees.
OneLook ==
  /\ \A l \in Loggers : lg[l].at # "out" => l \in callers
  /\ LoneLogger => \A l \in Loggers :
       /\ lg[l].at \in {"number", "header"} => lg[l].file = tm
       /\ lg[l].at \in {"acquire", "writeHeader"} => lg[l].date = lg[l].file

LEMMA DatedStep ==
  ASSUME LogTyped, OneLook, FiledByDate, NEW l \in Loggers, LogOthers(l), LogMove(l)
  PROVE  OneLook' /\ FiledByDate'
<1>1. callers' = callers /\ l \in callers /\ (LoneLogger' <=> LoneLogger)
  BY DEF LogOthers, OneLook, LogMove, Passes, LoneLogger
<1>2. \A k \in Loggers : lg'[k].at # "out" => k \in callers
  BY <1>1 DEF LogOthers, OneLook
<1>3. ASSUME LoneLogger
      PROVE  /\ \A k \in Loggers :
                  /\ lg'[k].at \in {"number", "header"} => lg'[k].file = tm'
                  /\ lg'[k].at \in {"acquire", "writeHeader"} => lg'[k].date = lg'[k].file
             /\ FiledByDate'
  <2>1. \A k \in Loggers \ {l} : lg[k].at = "out" /\ lg'[k].at = "out"
    BY <1>1, <1>3 DEF OneLook, LogOthers, LoneLogger
  <2>2. /\ lg'[l].at \in {"number", "header"} => lg'[l].file = tm'
        /\ lg'[l].at \in {"acquire", "writeHeader"} => lg'[l].date = lg'[l].file
    BY <1>3 DEF OneLook, LogMove, Passes, SameRecord
  <2>3. FiledByDate'
    <3>1. CASE UNCHANGED files BY <1>1, <1>3, <3>1 DEF FiledByDate
    <3>2. CASE /\ lg[l].at = "writeHeader"
               /\ Appends(l, [kind |-> "header", No |-> lg[l].No, date |-> lg[l].date])
      <4> DEFINE part == [kind |-> "header", No |-> lg[l].No, date |-> lg[l].date]
      <4>1. part.date = lg[l].file BY <1>3, <3>2 DEF OneLook
      <4>2. Appends(l, part) BY <3>2
      <4> HIDE DEF part
      <4> QED BY <1>1, <1>3, <4>1, <4>2, AppendsAt DEF FiledByDate
    <3>3. CASE Appends(l, [kind |-> "text", No |-> lg[l].No])
      <4> DEFINE part == [kind |-> "text", No |-> lg[l].No]
      <4>1. part.kind # "header" OBVIOUS
      <4>2. Appends(l, part) BY <3>3
      <4> HIDE DEF part
      <4> QED BY <1>1, <1>3, <4>1, <4>2, AppendsAt DEF FiledByDate
    <3> QED BY <3>1, <3>2, <3>3 DEF LogMove, LogFrame, Passes
  <2> QED BY <2>1, <2>2, <2>3
<1> QED BY <1>1, <1>2, <1>3 DEF OneLook, FiledByDate

\* A number is in one place: with the thread that has taken it, and then in a file.
Bearing == {"header", "acquire", "writeHeader"}

Numbers ==
  /\ \A l \in Loggers : lg[l].at \in Bearing => lg[l].No \in 1 .. LogNo
  /\ \A No : Filed(No) # {} => No \in 1 .. LogNo
  /\ \A No \in 1 .. LogNo :
       \/ (\E p : Filed(No) = {p}) /\ ToFile(No) = {}
       \/ Filed(No) = {} /\ (\E l : ToFile(No) = {l})

LEMMA NumbersOnce == Numbers => EveryRecordOnce
<1> SUFFICES ASSUME Numbers, NEW No \in 1 .. LogNo
             PROVE  Cardinality(Filed(No)) + Cardinality(ToFile(No)) = 1
  BY DEF EveryRecordOnce
<1>1. \A p : Cardinality({p}) = 1 BY FS_Singleton
<1>2. PICK none : none = {} /\ Cardinality(none) = 0 BY FS_EmptySet
<1>3. CASE (\E p : Filed(No) = {p}) /\ ToFile(No) = {}
  <2>1. PICK p : Filed(No) = {p} BY <1>3
  <2>2. Cardinality(Filed(No)) = 1 BY <1>1, <2>1
  <2>3. Cardinality(ToFile(No)) = 0 BY <1>2, <1>3
  <2> QED BY <2>2, <2>3
<1>4. CASE Filed(No) = {} /\ (\E l : ToFile(No) = {l})
  <2>1. PICK l : ToFile(No) = {l} BY <1>4
  <2>2. Cardinality(ToFile(No)) = 1 BY <1>1, <2>1
  <2>3. Cardinality(Filed(No)) = 0 BY <1>2, <1>4
  <2> QED BY <2>2, <2>3
<1> QED BY <1>3, <1>4 DEF Numbers

LEMMA FiledIn ==
  ASSUME NEW No
  PROVE  \A p : p \in Filed(No) <=>
           \E m \in 1 .. Months : \E i \in DOMAIN files[m] :
             p = <<m, i>> /\ files[m][i].kind = "header" /\ files[m][i].No = No
BY DEF Filed, FiledPlaces

LEMMA FiledKept ==
  ASSUME \/ UNCHANGED files
         \/ /\ LogTyped
            /\ \E l \in Loggers : \E part : Appends(l, part) /\ part.kind # "header",
         NEW No
  PROVE  Filed(No)' = Filed(No)
<1>1. CASE UNCHANGED files BY <1>1 DEF Filed, FiledPlaces
<1>2. CASE /\ LogTyped
           /\ \E l \in Loggers : \E part : Appends(l, part) /\ part.kind # "header"
  <2>0. PICK l \in Loggers : \E part : Appends(l, part) /\ part.kind # "header" BY <1>2
  <2>1. PICK part : Appends(l, part) /\ part.kind # "header" BY <2>0
  <2>2. \A p : p \in Filed(No)' <=>
           \E m \in 1 .. Months : \E i \in DOMAIN files'[m] :
             p = <<m, i>> /\ files'[m][i].kind = "header" /\ files'[m][i].No = No
    BY DEF Filed, FiledPlaces
  <2>3. \A m \in 1 .. Months : \A i \in DOMAIN files'[m] :
          files'[m][i].kind = "header" => i \in DOMAIN files[m] /\ files'[m][i] = files[m][i]
    BY <1>2, <2>1, AppendsAt
  <2>4. \A m \in 1 .. Months : \A i \in DOMAIN files[m] :
          i \in DOMAIN files'[m] /\ files'[m][i] = files[m][i]
    BY <1>2, <2>1, AppendsAt
  <2>5. \A p : p \in Filed(No)' <=> p \in Filed(No) BY <2>2, <2>3, <2>4, FiledIn
  <2> QED BY <2>5
<1> QED BY <1>1, <1>2

LEMMA NumbersStep ==
  ASSUME LogTyped, Numbers, NEW l \in Loggers, LogOthers(l), LogMove(l)
  PROVE  Numbers'
<1>1. \A k \in Loggers : k # l => lg'[k] = lg[k] BY DEF LogOthers
<1>2. ASSUME LogNo' = LogNo, \A No : Filed(No)' = Filed(No),
             lg'[l].at \in Bearing <=> lg[l].at \in Bearing,
             lg[l].at \in Bearing => lg'[l].No = lg[l].No
      PROVE  Numbers'
  <2>1. ASSUME NEW No, NEW k PROVE k \in ToFile(No)' <=> k \in ToFile(No)
    BY <1>1, <1>2 DEF ToFile, Bearing
  <2>2. \A No : ToFile(No)' = ToFile(No) BY <2>1
  <2>3. \A k \in Loggers : lg'[k].at \in Bearing => lg'[k].No \in 1 .. LogNo
    BY <1>1, <1>2 DEF Numbers
  <2> QED BY <1>2, <2>2, <2>3 DEF Numbers
<1>3. CASE /\ UNCHANGED <<files, LogNo>> /\ (lg'[l].at \in Bearing <=> lg[l].at \in Bearing)
           /\ (lg[l].at \in Bearing => lg'[l].No = lg[l].No)
  BY <1>2, <1>3, FiledKept
<1>4. CASE Passes(l, "writeText", "release") /\ Appends(l, [kind |-> "text", No |-> lg[l].No])
  <2> DEFINE part == [kind |-> "text", No |-> lg[l].No]
  <2>1. part.kind # "header" OBVIOUS
  <2>2. Appends(l, part) BY <1>4
  <2> HIDE DEF part
  <2>3. \A No : Filed(No)' = Filed(No) BY <2>1, <2>2, FiledKept
  <2> QED BY <1>2, <1>4, <2>2, <2>3 DEF Appends, Passes, Bearing
<1>5. CASE /\ Passes(l, "number", "header") /\ lg'[l].No = LogNo + 1
           /\ LogNo' = LogNo + 1 /\ UNCHANGED files
  <2>1. \A No : Filed(No)' = Filed(No) BY <1>5, FiledKept
  <2>2. LogNo \in Nat BY DEF LogTyped
  <2>3. PICK w \in Nat : w = LogNo + 1 BY <2>2
  <2>4. LogNo' = w /\ lg'[l].No = w /\ 1 .. w = (1 .. LogNo) \cup {w} /\ w \notin 1 .. LogNo
    BY <1>5, <2>2, <2>3
  <2>5. Filed(w) = {} /\ \A k \in Loggers : lg[k].at \in Bearing => lg[k].No # w
    BY <2>4 DEF Numbers
  <2>6. ASSUME NEW No \in 1 .. LogNo, NEW k PROVE k \in ToFile(No)' <=> k \in ToFile(No)
    BY <1>1, <1>5, <2>4 DEF ToFile, Passes
  <2>7. \A k : k \in ToFile(w)' <=> k \in Loggers /\ lg'[k].No = w /\ lg'[k].at \in Bearing
    BY DEF ToFile, Bearing
  <2>8. lg'[l].at \in Bearing BY <1>5 DEF Passes, Bearing
  <2>9. ToFile(w)' = {l} BY <1>1, <2>4, <2>5, <2>7, <2>8
  <2>10. \A No \in 1 .. LogNo : ToFile(No)' = ToFile(No) BY <2>6
  <2>11. \A k \in Loggers : lg'[k].at \in Bearing => lg'[k].No \in 1 .. w
    BY <1>1, <2>4 DEF Numbers
  <2>12. \A No \in 1 .. w : \/ (\E p : Filed(No)' = {p}) /\ ToFile(No)' = {}
                            \/ Filed(No)' = {} /\ (\E k : ToFile(No)' = {k})
    <3> TAKE No \in 1 .. w
    <3>1. CASE No = w BY <2>1, <2>5, <2>9, <3>1
    <3>2. CASE No \in 1 .. LogNo BY <2>1, <2>10, <3>2 DEF Numbers
    <3> QED BY <2>4, <3>1, <3>2
  <2>13. \A No : Filed(No)' # {} => No \in 1 .. w BY <2>1, <2>4 DEF Numbers
  <2> QED BY <2>4, <2>11, <2>12, <2>13 DEF Numbers
<1>6. CASE /\ Passes(l, "writeHeader", "writeText") /\ SameRecord(l)
           /\ Appends(l, [kind |-> "header", No |-> lg[l].No, date |-> lg[l].date])
  <2> DEFINE part == [kind |-> "header", No |-> lg[l].No, date |-> lg[l].date]
  <2>1. PICK w : w = lg[l].No OBVIOUS
  <2>2. part.kind = "header" /\ part.No = w BY <2>1
  <2>3. Appends(l, part) /\ lg'[l].No = w BY <1>6, <2>1 DEF SameRecord
  <2>4. /\ lg[l].at \in Bearing /\ lg'[l].at \notin Bearing /\ LogNo' = LogNo
    BY <1>6 DEF Passes, Bearing, Appends
  <2> HIDE DEF part
  <2>50. PICK m \in 1 .. Months : m = lg[l].file BY <2>3, AppendsAt
  <2>51. PICK i : i = Len(files[m]) + 1 OBVIOUS
  <2>5. m = lg[l].file /\ i = Len(files[m]) + 1 BY <2>50, <2>51
  <2>6. \A No, p : p \in Filed(No)' <=>
           \E n \in 1 .. Months : \E j \in DOMAIN files'[n] :
             p = <<n, j>> /\ files'[n][j].kind = "header" /\ files'[n][j].No = No
    BY DEF Filed, FiledPlaces
  <2>7. /\ \A n \in 1 .. Months : \A j \in DOMAIN files'[n] :
             \/ j \in DOMAIN files[n] /\ files'[n][j] = files[n][j]
             \/ n = m /\ j = i /\ files'[n][j] = part
        /\ \A n \in 1 .. Months : \A j \in DOMAIN files[n] :
             j \in DOMAIN files'[n] /\ files'[n][j] = files[n][j]
        /\ i \in DOMAIN files'[m] /\ files'[m][i] = part
    BY <2>3, <2>5, AppendsAt
  <2>8. ASSUME NEW No, No # w PROVE Filed(No)' = Filed(No) /\ ToFile(No)' = ToFile(No)
    <3>1. \A p : p \in Filed(No)' <=> p \in Filed(No)
      BY <2>2, <2>6, <2>7, <2>8, FiledIn
    <3>2. \A k : k \in ToFile(No)' <=> k \in ToFile(No)
      BY <1>1, <2>1, <2>3, <2>8 DEF ToFile
    <3> QED BY <3>1, <3>2
  <2>9. w \in 1 .. LogNo /\ l \in ToFile(w) BY <2>1, <2>4 DEF Numbers, ToFile, Bearing
  <2>10. Filed(w) = {} /\ ToFile(w) = {l} BY <2>9 DEF Numbers
  <2>11. Filed(w)' = {<<m, i>>}
    <3>1. \A p : p \in Filed(w)' <=> p = <<m, i>>
      BY <2>2, <2>6, <2>7, <2>10, FiledIn
    <3> QED BY <3>1
  <2>12. ToFile(w)' = {}
    <3>1. \A k : k \in ToFile(w)' => k \in ToFile(w) /\ k # l
      BY <1>1, <2>4 DEF ToFile, Bearing
    <3> QED BY <2>10, <3>1
  <2>13. \A k \in Loggers : lg'[k].at \in Bearing => lg'[k].No \in 1 .. LogNo
    BY <1>1, <2>4 DEF Numbers
  <2>14. \A No \in 1 .. LogNo : \/ (\E p : Filed(No)' = {p}) /\ ToFile(No)' = {}
                                \/ Filed(No)' = {} /\ (\E k : ToFile(No)' = {k})
    <3> TAKE No \in 1 .. LogNo
    <3>1. CASE No = w BY <2>11, <2>12, <3>1
    <3>2. CASE No # w BY <2>8, <3>2 DEF Numbers
    <3> QED BY <3>1, <3>2
  <2>15. \A No : Filed(No)' # {} => No \in 1 .. LogNo BY <2>8, <2>9 DEF Numbers
  <2> QED BY <2>4, <2>13, <2>14, <2>15 DEF Numbers
<1> QED
  BY <1>3, <1>4, <1>5, <1>6 DEF LogMove, LogFrame, Passes, SameRecord, Bearing

LogInv ==
  /\ LogTyped /\ Locked /\ RecordsWhole /\ HeaderLast /\ OneLook /\ FiledByDate /\ Numbers

LEMMA LogStart == LogInit => LogInv
<1> SUFFICES ASSUME LogInit PROVE LogInv
  OBVIOUS
<1>1. \A l \in Loggers : lg[l] = Silent BY DEF LogInit
<1>2. 1 \in 1 .. Months BY MonthsAssumption
<1>3. LogTyped BY <1>2, SilentTyped DEF LogInit, LogTyped
<1>4. Locked /\ HeaderLast /\ OneLook
  BY <1>1, SilentTyped, NobodyIsNone DEF LogInit, Locked, HeaderLast, OneLook, UnderLock, Writing
<1>5. \A m \in 1 .. Months : DOMAIN files[m] = {}
  BY DEF LogInit
<1>6. RecordsWhole /\ FiledByDate BY <1>5 DEF RecordsWhole, FiledByDate
<1>7. \A No : Filed(No) = {} BY <1>5, FiledIn
<1>8. Numbers BY <1>1, <1>7, SilentTyped DEF LogInit, Numbers, Bearing
<1> QED BY <1>3, <1>4, <1>6, <1>8 DEF LogInv

LEMMA LogStepInv ==
  ASSUME LogInv, [LogNext]_logVars
  PROVE  LogInv'
<1> USE DEF LogInv
<1>1. CASE UNCHANGED logVars \/ Turn
  <2>1. UNCHANGED <<callers, Time, tm, LogNo, srwLock, files, lg>> BY <1>1 DEF logVars, Turn
  <2>2. clock' \in 1 .. Months
    BY <1>1, MonthsAssumption DEF logVars, Turn, LogTyped
  <2>3. LogTyped' BY <2>1, <2>2 DEF LogTyped
  <2>4. /\ Locked' /\ RecordsWhole' /\ HeaderLast' /\ OneLook' /\ FiledByDate'
    BY <2>1 DEF Locked, RecordsWhole, HeaderLast, OneLook, FiledByDate, Writing, LoneLogger
  <2>5. \A No : ToFile(No)' = ToFile(No) /\ Filed(No)' = Filed(No)
    BY <2>1 DEF Filed, FiledPlaces, ToFile
  <2>6. Numbers' BY <2>1, <2>5 DEF Numbers
  <2> QED BY <2>3, <2>4, <2>6
<1>2. ASSUME NEW l \in Loggers, LogStep(l) PROVE LogInv'
  <2>1. LogOthers(l) /\ LogMove(l) BY <1>2, LogMoves
  <2>2. LogTyped' BY <2>1 DEF LogOthers
  <2> QED BY <2>1, <2>2, LockedStep, RecordsStep, DatedStep, NumbersStep
<1> QED BY <1>1, <1>2 DEF LogNext, LogStep

LEMMA LogInvariance == LogSpec => []LogInv
BY LogStart, LogStepInv, PTL DEF LogSpec

\* However many threads log, a file is a sequence of whole records: the lock is held from
\* the header to the end of the text (System_Log.h).
THEOREM RecordsAreWhole == LogSpec => []RecordsWhole
<1>1. LogInv => RecordsWhole BY DEF LogInv
<1> QED BY <1>1, LogInvariance, PTL

\* No number is written twice or lost: each that was taken is in one file once or still
\* with the one thread that took it, although it is taken outside the lock.
THEOREM RecordsAreOnce == LogSpec => []EveryRecordOnce
<1>1. LogInv => EveryRecordOnce BY NumbersOnce DEF LogInv
<1> QED BY <1>1, LogInvariance, PTL

\* One thread that logs files every record under the month its header names, whenever the
\* month turns.
THEOREM RecordsAreDated == LogSpec => []FiledByDate
<1>1. LogInv => FiledByDate BY DEF LogInv
<1> QED BY <1>1, LogInvariance, PTL

-----------------------------------------------------------------------------
(* Packet *)

PacketBytes == Marks \cup {Leftover} \cup 1 .. HeaderLen
HeaderBytes == headers * HeaderLen

\* The positions by what has been put, read and sent.
Positions ==
  /\ headers \in Nat /\ written \in Seq(PacketBytes) /\ got \in Seq(PacketBytes)
  /\ HeaderBytes \in 0 .. HeaderRoom
  /\ HeaderStartPos = HeaderRoom - HeaderBytes
  /\ WritePos = HeaderRoom + Len(written) /\ WritePos <= PacketSize - HeaderRoom
  /\ ReadPos = HeaderRoom + Len(got)
  /\ iDataSize = Len(written) - Len(got) + HeaderBytes /\ iDataSize >= 0

\* What the buffer holds.
Held ==
  /\ Buffer \in [0 .. PacketSize - 1 -> PacketBytes]
  /\ \A i \in 1 .. Len(written) : Buffer[HeaderRoom + i - 1] = written[i]
  /\ \A i \in 1 .. HeaderBytes : Buffer[HeaderRoom - HeaderBytes + i - 1] = ((i - 1) % HeaderLen) + 1
  /\ headers = 0 => \A i \in 1 .. Len(got) : got[i] = written[i]

PacketInv == Positions /\ Held

LEMMA PacketConstants ==
  /\ PacketSize \in Nat /\ HeaderRoom \in Nat /\ 2 * HeaderRoom <= PacketSize
  /\ HeaderLen \in Nat /\ HeaderLen > 0
BY PacketAssumption

LEMMA OverlayFacts ==
  ASSUME Held, NEW at \in Nat, NEW s \in Seq(PacketBytes), at + Len(s) <= PacketSize
  PROVE  /\ Overlay(at, s) \in [0 .. PacketSize - 1 -> PacketBytes]
         /\ \A i \in 1 .. Len(s) : Overlay(at, s)[at + i - 1] = s[i]
         /\ \A p \in 0 .. PacketSize - 1 : p < at \/ p >= at + Len(s) =>
              Overlay(at, s)[p] = Buffer[p]
<1>1. PICK n \in Nat : n = Len(s) OBVIOUS
<1>2. DOMAIN Buffer \cup at .. at + n - 1 = 0 .. PacketSize - 1
  BY <1>1, PacketConstants DEF Held
<1>3. Overlay(at, s) = [p \in 0 .. PacketSize - 1 |->
                          IF p \in at .. at + n - 1 THEN s[p - at + 1] ELSE Buffer[p]]
  BY <1>1, <1>2 DEF Overlay
<1>4. \A p \in at .. at + n - 1 : p - at + 1 \in 1 .. n BY <1>1
<1>5. \A p \in at .. at + n - 1 : s[p - at + 1] \in PacketBytes BY <1>1, <1>4
<1>6. \A i \in 1 .. n : at + i - 1 \in at .. at + n - 1 /\ at + i - 1 \in 0 .. PacketSize - 1
                        /\ (at + i - 1) - at + 1 = i
  BY <1>1, PacketConstants
<1>7. \A p \in 0 .. PacketSize - 1 : Buffer[p] \in PacketBytes BY DEF Held
<1> QED BY <1>1, <1>3, <1>5, <1>6, <1>7

LEMMA ConcatFacts ==
  ASSUME NEW a \in Seq(PacketBytes), NEW b \in Seq(PacketBytes)
  PROVE  /\ a \o b \in Seq(PacketBytes) /\ Len(a \o b) = Len(a) + Len(b)
         /\ Len(a) \in Nat /\ Len(b) \in Nat
         /\ \A i \in 1 .. Len(a) : (a \o b)[i] = a[i]
         /\ \A i \in 1 .. Len(b) : (a \o b)[Len(a) + i] = b[i]
OBVIOUS

\* Putting bytes behind those there are.
LEMMA PutStep ==
  ASSUME PacketInv, NEW n \in 1 .. PacketSize, NEW s \in [1 .. n -> Marks],
         PutData(s) \/ Fill(s)
  PROVE  PacketInv'
<1>1. s \in Seq(PacketBytes) /\ Len(s) = n /\ n \in Nat BY PacketConstants DEF PacketBytes
<1>2. /\ Buffer' = Overlay(WritePos, s) /\ WritePos' = WritePos + n
      /\ iDataSize' = iDataSize + n /\ written' = written \o s /\ WritePos + n <= DataFieldEnd
      /\ UNCHANGED <<HeaderStartPos, ReadPos, got, headers>>
  <2>1. CASE PutData(s) BY <1>1, <2>1 DEF PutData
  <2>2. CASE Fill(s)
    <3>1. written = <<>> /\ headers = 0 BY <2>2 DEF Fill
    <3>2. HeaderBytes = 0 BY <3>1, PacketConstants DEF HeaderBytes
    <3>3. HeaderStartPos = WritePos BY <3>1, <3>2, PacketConstants DEF PacketInv, Positions
    <3>4. written \o s = s BY <1>1, <3>1
    <3> QED BY <1>1, <2>2, <3>3, <3>4 DEF Fill
  <2> QED BY <2>1, <2>2
<1>3. HeaderBytes' = HeaderBytes BY <1>2 DEF HeaderBytes
<1>4. /\ written' \in Seq(PacketBytes) /\ Len(written') = Len(written) + n
      /\ Len(written) \in Nat /\ Len(got) \in Nat
      /\ \A i \in 1 .. Len(written) : written'[i] = written[i]
      /\ \A i \in 1 .. n : written'[Len(written) + i] = s[i]
  <2>1. written \in Seq(PacketBytes) /\ got \in Seq(PacketBytes) BY DEF PacketInv, Positions
  <2>2. /\ written \o s \in Seq(PacketBytes) /\ Len(written \o s) = Len(written) + Len(s)
        /\ Len(written) \in Nat
        /\ \A i \in 1 .. Len(written) : (written \o s)[i] = written[i]
        /\ \A i \in 1 .. Len(s) : (written \o s)[Len(written) + i] = s[i]
    BY <1>1, <2>1, ConcatFacts
  <2>3. Len(got) \in Nat BY <2>1
  <2> QED BY <1>1, <1>2, <2>2, <2>3
<1>5. Positions'
  <2>1. /\ headers \in Nat /\ got \in Seq(PacketBytes) /\ HeaderBytes \in 0 .. HeaderRoom
        /\ HeaderStartPos = HeaderRoom - HeaderBytes /\ WritePos = HeaderRoom + Len(written)
        /\ ReadPos = HeaderRoom + Len(got)
        /\ iDataSize = Len(written) - Len(got) + HeaderBytes /\ iDataSize >= 0
    BY DEF PacketInv, Positions
  <2>2. PICK w \in Nat, g \in Nat, h \in Nat, x \in Int :
          w = Len(written) /\ g = Len(got) /\ h = HeaderBytes /\ x = iDataSize
    BY ONLY <1>4, <2>1, PacketConstants
  <2>3. WritePos' = HeaderRoom + (w + n) /\ WritePos' <= PacketSize - HeaderRoom
    BY ONLY <1>1, <1>2, <2>1, <2>2, PacketConstants DEF DataFieldEnd
  <2>4. iDataSize' = (w + n) - g + h /\ iDataSize' >= 0
    BY ONLY <1>1, <1>2, <2>1, <2>2
  <2>5. Len(written') = w + n BY ONLY <1>4, <2>2
  <2> QED BY ONLY <1>2, <1>3, <1>4, <2>1, <2>2, <2>3, <2>4, <2>5 DEF Positions
<1>6. /\ WritePos \in Nat /\ WritePos + n <= PacketSize /\ WritePos = HeaderRoom + Len(written)
      /\ HeaderBytes \in 0 .. HeaderRoom /\ iDataSize >= 0
  <2>1. /\ WritePos = HeaderRoom + Len(written) /\ HeaderBytes \in 0 .. HeaderRoom
        /\ iDataSize >= 0
    BY DEF PacketInv, Positions
  <2>2. WritePos + n <= PacketSize - HeaderRoom BY <1>2 DEF DataFieldEnd
  <2>3. WritePos \in Nat BY <1>4, <2>1, PacketConstants
  <2>4. WritePos + n <= PacketSize BY <1>1, <2>2, <2>3, PacketConstants
  <2> QED BY <2>1, <2>3, <2>4
<1>7. /\ Buffer' \in [0 .. PacketSize - 1 -> PacketBytes]
      /\ \A i \in 1 .. n : Buffer'[WritePos + i - 1] = s[i]
      /\ \A p \in 0 .. PacketSize - 1 : p < WritePos => Buffer'[p] = Buffer[p]
  BY <1>1, <1>2, <1>6, OverlayFacts DEF PacketInv
<1>8. ASSUME NEW i \in 1 .. Len(written) + n PROVE Buffer'[HeaderRoom + i - 1] = written'[i]
  <2>1. CASE i <= Len(written)
    <3>1. HeaderRoom + i - 1 \in 0 .. PacketSize - 1 /\ HeaderRoom + i - 1 < WritePos /\ i \in 1 .. Len(written)
      BY <1>1, <1>4, <1>6, <2>1, PacketConstants
    <3> QED BY <1>4, <1>7, <3>1 DEF PacketInv, Held
  <2>2. CASE i > Len(written)
    <3>0. i - Len(written) \in 1 .. n /\ i = Len(written) + (i - Len(written))
      BY <1>1, <1>4, <2>2
    <3>1. PICK j \in 1 .. n : i = Len(written) + j BY <3>0
    <3>2. HeaderRoom + i - 1 = WritePos + j - 1 BY <1>1, <1>4, <1>6, <3>1, PacketConstants
    <3> QED BY <1>4, <1>7, <3>1, <3>2
  <2> QED BY <1>1, <1>4, <2>1, <2>2
<1>9. ASSUME NEW i \in 1 .. HeaderBytes
      PROVE  Buffer'[HeaderRoom - HeaderBytes + i - 1] = ((i - 1) % HeaderLen) + 1
  <2>1. /\ HeaderRoom - HeaderBytes + i - 1 \in 0 .. PacketSize - 1
        /\ HeaderRoom - HeaderBytes + i - 1 < WritePos
    BY <1>4, <1>6, PacketConstants
  <2> QED BY <1>7, <2>1 DEF PacketInv, Held
<1>10. headers = 0 => \A i \in 1 .. Len(got) : got[i] = written'[i]
  <2>1. headers = 0 => HeaderBytes = 0 BY PacketConstants DEF HeaderBytes
  <2>2. headers = 0 => Len(got) <= Len(written)
    BY <1>4, <1>6, <2>1 DEF PacketInv, Positions
  <2> QED BY <1>4, <2>2 DEF PacketInv, Held
<1>11. Held' BY <1>2, <1>3, <1>4, <1>7, <1>8, <1>9, <1>10 DEF Held
<1> QED BY <1>5, <1>11 DEF PacketInv

LEMMA StretchFacts ==
  ASSUME Held, NEW at \in Nat, NEW n \in Nat, at + n <= PacketSize
  PROVE  /\ Stretch(at, n) \in Seq(PacketBytes) /\ Len(Stretch(at, n)) = n
         /\ \A i \in 1 .. n : Stretch(at, n)[i] = Buffer[at + i - 1]
<1>1. \A i \in 1 .. n : at + i - 1 \in 0 .. PacketSize - 1 BY PacketConstants
<1>2. \A i \in 1 .. n : Buffer[at + i - 1] \in PacketBytes BY <1>1 DEF Held
<1>3. /\ Stretch(at, n) \in [1 .. n -> PacketBytes]
      /\ \A i \in 1 .. n : Stretch(at, n)[i] = Buffer[at + i - 1]
  BY <1>2 DEF Stretch
<1> QED BY <1>3

\* Reading some of them.
LEMMA ExtractStep ==
  ASSUME PacketInv, NEW n \in 1 .. PacketSize, Extract(n)
  PROVE  PacketInv'
<1>1. /\ n \in Nat /\ n <= iDataSize /\ ReadPos' = ReadPos + n /\ iDataSize' = iDataSize - n
      /\ got' = got \o Stretch(ReadPos, n)
      /\ UNCHANGED <<Buffer, HeaderStartPos, WritePos, written, headers>>
  BY PacketConstants DEF Extract
<1>2. HeaderBytes' = HeaderBytes BY <1>1 DEF HeaderBytes
<1>3. /\ Len(written) \in Nat /\ Len(got) \in Nat /\ HeaderBytes \in 0 .. HeaderRoom
      /\ ReadPos = HeaderRoom + Len(got) /\ n <= Len(written) - Len(got) + HeaderBytes
      /\ HeaderRoom + Len(written) <= PacketSize - HeaderRoom
  BY <1>1 DEF PacketInv, Positions
<1>4. ReadPos \in Nat /\ ReadPos + n <= PacketSize BY <1>1, <1>3, PacketConstants
<1>5. /\ Stretch(ReadPos, n) \in Seq(PacketBytes) /\ Len(Stretch(ReadPos, n)) = n
      /\ \A i \in 1 .. n : Stretch(ReadPos, n)[i] = Buffer[ReadPos + i - 1]
  BY <1>1, <1>4, StretchFacts DEF PacketInv
<1>6. PICK s : s = Stretch(ReadPos, n) OBVIOUS
<1>7. got \in Seq(PacketBytes) BY DEF PacketInv, Positions
<1>8. /\ got' \in Seq(PacketBytes) /\ Len(got') = Len(got) + n
      /\ \A i \in 1 .. Len(got) : got'[i] = got[i]
      /\ \A i \in 1 .. n : got'[Len(got) + i] = s[i]
  <2>1. /\ got \o s \in Seq(PacketBytes) /\ Len(got \o s) = Len(got) + Len(s)
        /\ \A i \in 1 .. Len(got) : (got \o s)[i] = got[i]
        /\ \A i \in 1 .. Len(s) : (got \o s)[Len(got) + i] = s[i]
    BY <1>5, <1>6, <1>7, ConcatFacts
  <2> QED BY <1>1, <1>5, <1>6, <2>1
<1>9. Positions'
  <2>1. /\ ReadPos + n = HeaderRoom + (Len(got) + n)
        /\ iDataSize - n = Len(written) - (Len(got) + n) + HeaderBytes /\ iDataSize - n >= 0
    BY <1>1, <1>3, PacketConstants DEF PacketInv, Positions
  <2>2. Positions BY DEF PacketInv
  <2> QED BY <1>1, <1>2, <1>8, <2>1, <2>2 DEF Positions
<1>10. ASSUME headers = 0, NEW i \in 1 .. Len(got) + n PROVE got'[i] = written[i]
  <2>0. HeaderBytes = 0 BY <1>10, PacketConstants DEF HeaderBytes
  <2>1. CASE i <= Len(got)
    <3>1. i \in 1 .. Len(got) BY <1>1, <1>3, <2>1
    <3> QED BY <1>8, <1>10, <3>1 DEF PacketInv, Held
  <2>2. CASE i > Len(got)
    <3>1. i - Len(got) \in 1 .. n /\ i = Len(got) + (i - Len(got)) BY <1>1, <1>3, <2>2
    <3>2. PICK j \in 1 .. n : i = Len(got) + j BY <3>1
    <3>3. i \in 1 .. Len(written) /\ ReadPos + j - 1 = HeaderRoom + i - 1
      BY <1>1, <1>3, <2>0, <3>2, PacketConstants
    <3>4. got'[i] = Buffer[HeaderRoom + i - 1] BY <1>5, <1>6, <1>8, <3>2, <3>3
    <3>5. Buffer[HeaderRoom + i - 1] = written[i] BY <3>3 DEF PacketInv, Held
    <3> QED BY <3>4, <3>5
  <2>3. i \in Nat /\ Len(got) \in Nat BY <1>1, <1>3
  <2>4. i <= Len(got) \/ i > Len(got) BY <2>3
  <2> QED BY <2>1, <2>2, <2>4
<1>11. Held' BY <1>1, <1>2, <1>8, <1>10 DEF PacketInv, Held
<1> QED BY <1>9, <1>11 DEF PacketInv

\* One header more.
LEMMA HeaderBytesGrow ==
  ASSUME Positions
  PROVE  (headers + 1) * HeaderLen = HeaderBytes + HeaderLen
<1>1. PICK m \in Nat : m = HeaderLen BY PacketConstants
<1>2. \A h \in Nat : (h + 1) * m = h * m + m OBVIOUS
<1> QED BY <1>1, <1>2 DEF Positions, HeaderBytes

LEMMA SmallMod ==
  ASSUME NEW m \in Nat \ {0}, NEW i \in 0 .. m - 1
  PROVE  i % m = i
OBVIOUS

LEMMA ModPlus ==
  ASSUME NEW m \in Nat \ {0}, NEW i \in Nat
  PROVE  (i + m) % m = i % m
<1>1. i % m \in 0 .. m - 1 /\ i = m * (i \div m) + (i % m) /\ i \div m \in Int OBVIOUS
<1>2. PICK q \in Int, r \in 0 .. m - 1 : q = i \div m /\ r = i % m BY <1>1
<1>3. (i + m) % m \in 0 .. m - 1 /\ i + m = m * ((i + m) \div m) + ((i + m) % m)
      /\ (i + m) \div m \in Int
  OBVIOUS
<1>4. PICK q2 \in Int, r2 \in 0 .. m - 1 : q2 = (i + m) \div m /\ r2 = (i + m) % m BY <1>3
<1>5. m * q + r + m = m * q2 + r2 BY <1>1, <1>2, <1>3, <1>4
<1>6. PICK d \in Int : d = q2 - q - 1 OBVIOUS
<1>7. m * d = r - r2
  <2>1. q2 = d + q + 1 BY <1>6
  <2>2. m * q2 = m * d + m * q + m BY <2>1
  <2>3. PICK a \in Int, b \in Int, e \in Int : a = m * q /\ b = m * d /\ e = m * q2 OBVIOUS
  <2> QED BY <1>5, <2>2, <2>3
<1>8. d = 0
  <2>1. m * d < m /\ m * d > -m BY <1>7
  <2>2. CASE d >= 1
    <3>1. m * d >= m BY <2>2
    <3> QED BY <2>1, <3>1
  <2>3. CASE d <= -1
    <3>1. m * d <= -m BY <2>3
    <3> QED BY <2>1, <3>1
  <2> QED BY <2>2, <2>3
<1> QED BY <1>2, <1>4, <1>7, <1>8

\* A header in front of those there are.
LEMMA PutHeaderStep ==
  ASSUME PacketInv, PutHeader
  PROVE  PacketInv'
<1>1. /\ HeaderStartPos >= HeaderLen /\ HeaderStartPos' = HeaderStartPos - HeaderLen
      /\ Buffer' = Overlay(HeaderStartPos - HeaderLen, [i \in 1 .. HeaderLen |-> i])
      /\ iDataSize' = iDataSize + HeaderLen /\ headers' = headers + 1
      /\ UNCHANGED <<ReadPos, WritePos, written, got>>
  <2>1. HeaderStartPos \in Int BY PacketConstants DEF PacketInv, Positions
  <2> QED BY <2>1, PacketConstants DEF PutHeader
<1>2. HeaderBytes' = HeaderBytes + HeaderLen
  BY <1>1, HeaderBytesGrow DEF PacketInv, HeaderBytes
<1>3. PICK b \in Nat, m \in Nat, r \in Nat : b = HeaderBytes /\ m = HeaderLen /\ r = HeaderRoom
  BY PacketConstants DEF PacketInv, Positions
<1>4. m > 0 /\ b + m <= r /\ r + r <= PacketSize /\ HeaderStartPos = r - b
  BY <1>1, <1>3, PacketConstants DEF PacketInv, Positions
<1>5. PICK at \in Nat : at = r - b - m BY <1>3, <1>4
<1>6. PICK s : s = [i \in 1 .. m |-> i] OBVIOUS
<1>7. s \in Seq(PacketBytes) /\ Len(s) = m /\ \A i \in 1 .. m : s[i] = i
  <2>1. s \in [1 .. m -> 1 .. m] BY <1>6
  <2>2. s \in [1 .. m -> PacketBytes] BY <1>3, <2>1 DEF PacketBytes
  <2> QED BY <1>6, <2>2
<1>8. Buffer' = Overlay(at, s) BY <1>1, <1>3, <1>4, <1>5, <1>6
<1>9. /\ Buffer' \in [0 .. PacketSize - 1 -> PacketBytes]
      /\ \A i \in 1 .. m : Buffer'[at + i - 1] = i
      /\ \A p \in 0 .. PacketSize - 1 : p >= at + m => Buffer'[p] = Buffer[p]
  <2>1. at + Len(s) <= PacketSize BY <1>3, <1>4, <1>5, <1>7, PacketConstants
  <2>2. /\ Overlay(at, s) \in [0 .. PacketSize - 1 -> PacketBytes]
        /\ \A i \in 1 .. Len(s) : Overlay(at, s)[at + i - 1] = s[i]
        /\ \A p \in 0 .. PacketSize - 1 : p < at \/ p >= at + Len(s) =>
              Overlay(at, s)[p] = Buffer[p]
    BY <1>7, <2>1, OverlayFacts DEF PacketInv
  <2> QED BY <1>7, <1>8, <2>2
<1>10. Positions'
  <2>1. Positions BY DEF PacketInv
  <2>2. /\ b + m \in 0 .. HeaderRoom /\ HeaderStartPos - HeaderLen = HeaderRoom - (b + m)
    BY <1>3, <1>4, PacketConstants
  <2>3. /\ iDataSize + HeaderLen = Len(written) - Len(got) + (b + m)
        /\ iDataSize + HeaderLen >= 0
    <3>1. /\ Len(written) \in Nat /\ Len(got) \in Nat /\ iDataSize >= 0
          /\ iDataSize = Len(written) - Len(got) + b
      BY <1>3, <2>1 DEF Positions
    <3> QED BY <1>3, <3>1
  <2>4. headers' \in Nat BY <1>1, <2>1 DEF Positions
  <2> QED BY <1>1, <1>2, <1>3, <2>1, <2>2, <2>3, <2>4 DEF Positions
<1>11. ASSUME NEW i \in 1 .. b + m
       PROVE  Buffer'[at + i - 1] = ((i - 1) % m) + 1
  <2>1. CASE i <= m
    <3>1. i \in 1 .. m /\ i - 1 \in 0 .. m - 1 BY <1>3, <2>1
    <3>2. (i - 1) % m = i - 1 BY <1>4, <3>1, SmallMod
    <3> QED BY <1>9, <3>1, <3>2
  <2>2. CASE i > m
    <3>1. i - m \in 1 .. b /\ i = (i - m) + m BY <1>3, <2>2
    <3>2. PICK j \in 1 .. b : i = j + m BY <3>1
    <3>3. /\ j - 1 \in Nat /\ (j - 1) + m = i - 1 /\ at + i - 1 = r - b + j - 1
          /\ at + i - 1 >= at + m /\ at + i - 1 \in 0 .. PacketSize - 1
      BY <1>3, <1>4, <1>5, <3>2, PacketConstants
    <3>6. PICK k \in Nat : k = j - 1 BY <3>3
    <3>8. m \in Nat \ {0} BY <1>4
    <3>7. (k + m) % m = k % m BY <3>8, ModPlus
    <3>4. (i - 1) % m = (j - 1) % m BY <3>3, <3>6, <3>7
    <3>5. Buffer[r - b + j - 1] = ((j - 1) % m) + 1 BY <1>3, <3>2 DEF PacketInv, Held
    <3> QED BY <1>9, <3>3, <3>4, <3>5
  <2>3. i \in Nat BY <1>3
  <2> QED BY <1>3, <2>1, <2>2, <2>3
<1>12. ASSUME NEW i \in 1 .. Len(written) PROVE Buffer'[HeaderRoom + i - 1] = written[i]
  <2>0. Len(written) \in Nat /\ r + Len(written) <= PacketSize - r
    BY <1>3 DEF PacketInv, Positions
  <2>1. /\ HeaderRoom + i - 1 >= at + m /\ HeaderRoom + i - 1 \in 0 .. PacketSize - 1
    BY <1>3, <1>4, <1>5, <2>0, PacketConstants
  <2> QED BY <1>9, <2>1 DEF PacketInv, Held
<1>13. headers' # 0 BY <1>1 DEF PacketInv, Positions
<1>14. \A i \in 1 .. HeaderBytes' : Buffer'[HeaderRoom - HeaderBytes' + i - 1] = ((i - 1) % HeaderLen) + 1
  <2>1. HeaderRoom - HeaderBytes' = at BY <1>2, <1>3, <1>5
  <2>2. HeaderBytes' = b + m BY <1>2, <1>3
  <2> QED BY <1>3, <1>11, <2>1, <2>2
<1>15. Held'
  <2>1. written' = written BY <1>1
  <2> QED BY <1>9, <1>12, <1>13, <1>14, <2>1 DEF Held
<1> QED BY <1>10, <1>15 DEF PacketInv

\* The invariant at the start and over every step.
LEMMA PacketInitInv ==
  ASSUME PacketInit
  PROVE  PacketInv
<1>1. /\ Buffer = [p \in 0 .. PacketSize - 1 |-> Leftover] /\ HeaderStartPos = HeaderRoom
      /\ ReadPos = HeaderRoom /\ WritePos = HeaderRoom /\ iDataSize = 0
      /\ written = <<>> /\ got = <<>> /\ headers = 0
  BY DEF PacketInit, DataFieldStart
<1>2. HeaderBytes = 0 BY <1>1, PacketConstants DEF HeaderBytes
<1>3. Positions BY <1>1, <1>2, PacketConstants DEF Positions
<1>4. Held BY <1>1, <1>2 DEF Held, PacketBytes
<1> QED BY <1>3, <1>4 DEF PacketInv

LEMMA PacketClearStep ==
  ASSUME PacketInv, PacketClear
  PROVE  PacketInv'
<1>1. /\ Buffer' = Buffer /\ HeaderStartPos' = HeaderRoom
      /\ ReadPos' = HeaderRoom /\ WritePos' = HeaderRoom /\ iDataSize' = 0
      /\ written' = <<>> /\ got' = <<>> /\ headers' = 0
  BY DEF PacketClear, DataFieldStart
<1>2. HeaderBytes' = 0 BY <1>1, PacketConstants DEF HeaderBytes
<1>3. Positions' BY <1>1, <1>2, PacketConstants DEF Positions
<1>4. Held' BY <1>1, <1>2 DEF PacketInv, Held
<1> QED BY <1>3, <1>4 DEF PacketInv

LEMMA PacketStep ==
  ASSUME PacketInv, [PacketNext]_packetVars
  PROVE  PacketInv'
<1>1. CASE UNCHANGED packetVars
  <2>1. /\ Buffer' = Buffer /\ HeaderStartPos' = HeaderStartPos /\ ReadPos' = ReadPos
        /\ WritePos' = WritePos /\ iDataSize' = iDataSize /\ written' = written
        /\ got' = got /\ headers' = headers
    BY <1>1 DEF packetVars
  <2>2. HeaderBytes' = HeaderBytes BY <2>1 DEF HeaderBytes
  <2> QED BY <2>1, <2>2 DEF PacketInv, Positions, Held
<1>2. CASE PacketNext
  <2>1. ASSUME NEW n \in 1 .. PacketSize, Extract(n) PROVE PacketInv' BY <2>1, ExtractStep
  <2>2. ASSUME NEW n \in 1 .. PacketSize, NEW s \in [1 .. n -> Marks], PutData(s) \/ Fill(s)
        PROVE  PacketInv'
    BY <2>2, PutStep
  <2> QED BY <1>2, <2>1, <2>2, PutHeaderStep, PacketClearStep DEF PacketNext
<1> QED BY <1>1, <1>2

LEMMA PacketInvariance == PacketSpec => []PacketInv
BY PacketInitInv, PacketStep, PTL DEF PacketSpec

LEMMA SameSequence ==
  ASSUME NEW a \in Seq(PacketBytes), NEW b \in Seq(PacketBytes), Len(a) = Len(b),
         \A i \in 1 .. Len(a) : a[i] = b[i]
  PROVE  a = b
<1>1. PICK n \in Nat : n = Len(a) OBVIOUS
<1>2. a = [i \in 1 .. n |-> a[i]] /\ b = [i \in 1 .. n |-> b[i]] BY <1>1
<1> QED BY <1>1, <1>2

LEMMA PacketInvTypes ==
  ASSUME PacketInv
  PROVE  PacketTypeOK
<1>1. /\ Len(written) \in Nat /\ Len(got) \in Nat /\ HeaderBytes \in 0 .. HeaderRoom
      /\ headers \in Nat /\ DOMAIN Buffer = 0 .. PacketSize - 1
      /\ HeaderStartPos = HeaderRoom - HeaderBytes
      /\ WritePos = HeaderRoom + Len(written) /\ WritePos <= PacketSize - HeaderRoom
      /\ ReadPos = HeaderRoom + Len(got)
      /\ iDataSize = Len(written) - Len(got) + HeaderBytes /\ iDataSize >= 0
  BY DEF PacketInv, Positions, Held
<1> QED BY <1>1, PacketConstants DEF PacketTypeOK, DataFieldStart, DataFieldEnd

LEMMA PacketInvRead ==
  ASSUME PacketInv
  PROVE  ReadInOrder
<1> SUFFICES ASSUME headers = 0 PROVE got \o Stretch(ReadPos, iDataSize) = written
  BY DEF ReadInOrder
<1>1. HeaderBytes = 0 BY PacketConstants DEF HeaderBytes
<1>2. /\ Len(written) \in Nat /\ Len(got) \in Nat /\ written \in Seq(PacketBytes)
      /\ got \in Seq(PacketBytes) /\ HeaderRoom + Len(written) <= PacketSize - HeaderRoom
      /\ ReadPos = HeaderRoom + Len(got)
      /\ iDataSize = Len(written) - Len(got) /\ iDataSize >= 0
  BY <1>1 DEF PacketInv, Positions
<1>3. PICK n \in Nat, g \in Nat : n = iDataSize /\ g = Len(got)
  <2>1. iDataSize \in Nat /\ Len(got) \in Nat BY ONLY <1>2
  <2> QED BY ONLY <2>1
<1>4. ReadPos \in Nat /\ ReadPos + n <= PacketSize /\ ReadPos = HeaderRoom + g /\ g + n = Len(written)
  <2>1. PICK w \in Nat : w = Len(written) BY ONLY <1>2
  <2>2. ReadPos = HeaderRoom + g /\ n = w - g /\ HeaderRoom + w <= PacketSize - HeaderRoom
    BY ONLY <1>2, <1>3, <2>1
  <2> QED BY ONLY <2>1, <2>2, PacketConstants
<1>5. PICK s : s = Stretch(ReadPos, n) OBVIOUS
<1>6. /\ s \in Seq(PacketBytes) /\ Len(s) = n
      /\ \A i \in 1 .. n : s[i] = Buffer[ReadPos + i - 1]
  BY <1>4, <1>5, StretchFacts DEF PacketInv
<1>7. /\ got \o s \in Seq(PacketBytes) /\ Len(got \o s) = g + n
      /\ \A i \in 1 .. g : (got \o s)[i] = got[i]
      /\ \A i \in 1 .. n : (got \o s)[g + i] = s[i]
  BY <1>2, <1>3, <1>6, ConcatFacts
<1>8. ASSUME NEW i \in 1 .. g + n PROVE (got \o s)[i] = written[i]
  <2>1. CASE i <= g
    <3>1. i \in 1 .. g BY <1>3, <2>1
    <3> QED BY <1>3, <1>7, <3>1 DEF PacketInv, Held
  <2>2. CASE i > g
    <3>1. i - g \in 1 .. n /\ i = g + (i - g) BY <1>3, <2>2
    <3>2. PICK j \in 1 .. n : i = g + j BY <3>1
    <3>3. i \in 1 .. Len(written) /\ ReadPos + j - 1 = HeaderRoom + i - 1
      BY <1>2, <1>3, <1>4, <3>2, PacketConstants
    <3>4. (got \o s)[i] = Buffer[HeaderRoom + i - 1] BY <1>6, <1>7, <3>2, <3>3
    <3>5. Buffer[HeaderRoom + i - 1] = written[i] BY <3>3 DEF PacketInv, Held
    <3> QED BY <3>4, <3>5
  <2>3. i \in Nat BY <1>3
  <2>4. i <= g \/ i > g BY <1>3, <2>3
  <2> QED BY <2>1, <2>2, <2>4
<1>9. got \o s = written BY <1>2, <1>4, <1>7, <1>8, SameSequence
<1> QED BY <1>3, <1>5, <1>9

LEMMA PacketInvSent ==
  ASSUME PacketInv
  PROVE  SentWhole
<1> SUFFICES ASSUME got = <<>> PROVE Stretch(HeaderStartPos, iDataSize) = Heads \o written
  BY DEF SentWhole
<1>1. /\ Len(written) \in Nat /\ written \in Seq(PacketBytes)
      /\ HeaderRoom + Len(written) <= PacketSize - HeaderRoom
      /\ HeaderStartPos = HeaderRoom - HeaderBytes /\ HeaderBytes \in 0 .. HeaderRoom
      /\ iDataSize = Len(written) + HeaderBytes
  BY DEF PacketInv, Positions
<1>2. PICK b \in Nat, w \in Nat, at \in Nat :
        b = HeaderBytes /\ w = Len(written) /\ at = HeaderStartPos
  <2>1. HeaderBytes \in Nat /\ Len(written) \in Nat /\ HeaderStartPos \in Nat
    BY <1>1, PacketConstants
  <2> QED BY <2>1
<1>3. at + (b + w) <= PacketSize /\ iDataSize = b + w /\ at = HeaderRoom - b /\ b <= HeaderRoom
  BY <1>1, <1>2, PacketConstants
<1>4. PICK s : s = Stretch(at, b + w) OBVIOUS
<1>5. /\ s \in Seq(PacketBytes) /\ Len(s) = b + w
      /\ \A i \in 1 .. b + w : s[i] = Buffer[at + i - 1]
  <2>1. b + w \in Nat BY <1>2
  <2> QED BY <1>3, <1>4, <2>1, StretchFacts DEF PacketInv
<1>6. PICK h : h = Heads OBVIOUS
<1>7. h \in Seq(PacketBytes) /\ Len(h) = b /\ \A i \in 1 .. b : h[i] = ((i - 1) % HeaderLen) + 1
  <2>1. h = [i \in 1 .. b |-> ((i - 1) % HeaderLen) + 1] BY <1>2, <1>6 DEF Heads, HeaderBytes
  <2>2. \A i \in 1 .. b : ((i - 1) % HeaderLen) + 1 \in 1 .. HeaderLen
    <3>1. \A k \in Nat : k % HeaderLen \in 0 .. HeaderLen - 1 BY PacketConstants
    <3>2. \A i \in 1 .. b : (i - 1) % HeaderLen \in 0 .. HeaderLen - 1 BY <1>2, <3>1
    <3>3. PICK m \in Nat : m = HeaderLen BY PacketConstants
    <3>4. \A k \in 0 .. m - 1 : k + 1 \in 1 .. m BY <3>3
    <3> QED BY <3>2, <3>3, <3>4
  <2>3. h \in [1 .. b -> PacketBytes] BY <2>1, <2>2 DEF PacketBytes
  <2>4. \A f \in [1 .. b -> PacketBytes] : f \in Seq(PacketBytes) /\ Len(f) = b BY <1>2
  <2> QED BY <2>1, <2>3, <2>4
<1>8. /\ h \o written \in Seq(PacketBytes) /\ Len(h \o written) = b + w
      /\ \A i \in 1 .. b : (h \o written)[i] = h[i]
      /\ \A i \in 1 .. w : (h \o written)[b + i] = written[i]
  <2>1. h \in Seq(PacketBytes) /\ written \in Seq(PacketBytes) BY <1>1, <1>7
  <2>2. /\ h \o written \in Seq(PacketBytes) /\ Len(h \o written) = Len(h) + Len(written)
        /\ \A i \in 1 .. Len(h) : (h \o written)[i] = h[i]
        /\ \A i \in 1 .. Len(written) : (h \o written)[Len(h) + i] = written[i]
    BY <2>1, ConcatFacts
  <2> QED BY <1>2, <1>7, <2>2
<1>9. ASSUME NEW i \in 1 .. b + w PROVE s[i] = (h \o written)[i]
  <2>1. CASE i <= b
    <3>1. i \in 1 .. b BY <1>2, <2>1
    <3>2. Buffer[HeaderRoom - b + i - 1] = ((i - 1) % HeaderLen) + 1
      BY <1>2, <3>1 DEF PacketInv, Held
    <3> QED BY <1>3, <1>5, <1>7, <1>8, <3>1, <3>2
  <2>2. CASE i > b
    <3>1. i - b \in 1 .. w /\ i = b + (i - b) BY <1>2, <2>2
    <3>2. PICK j \in 1 .. w : i = b + j BY <3>1
    <3>3. at + i - 1 = HeaderRoom + j - 1 BY <1>2, <1>3, <3>2, PacketConstants
    <3>4. Buffer[HeaderRoom + j - 1] = written[j] BY <1>2, <3>2 DEF PacketInv, Held
    <3> QED BY <1>5, <1>8, <3>2, <3>3, <3>4
  <2>3. i \in Nat BY <1>2
  <2>4. i <= b \/ i > b BY <1>2, <2>3
  <2> QED BY <2>1, <2>2, <2>4
<1>10. s = h \o written BY <1>5, <1>8, <1>9, SameSequence
<1> QED BY <1>2, <1>3, <1>4, <1>6, <1>10

\* Nothing is written outside the buffer of a packet and its positions keep their places:
\* PutData, Fill and PutHeader look for the room first, and GetData cannot pass the end
\* although it looks at no position, because _iDataSize is what is left (PacketPool.cpp).
THEOREM PacketStaysInside == PacketSpec => []PacketTypeOK
BY PacketInvariance, PacketInvTypes, PTL

\* Until a header is put, GetData gives the bytes in the order in which they were put and
\* never one that was not.
THEOREM PacketReadsInOrder == PacketSpec => []ReadInOrder
BY PacketInvariance, PacketInvRead, PTL

\* What is sent of a packet that nobody has read is its headers and then all its bytes,
\* however often it has been sent before.
THEOREM PacketIsSentWhole == PacketSpec => []SentWhole
BY PacketInvariance, PacketInvSent, PTL

-----------------------------------------------------------------------------
(* CMemoryPool_TLS *)

TlsLocal ==
  [at : {"out", "linkNode", "take", "search", "seek", "compare", "null", "fault"},
   chunk : Nat, cnt : Nat, node : Owners \cup {NoOwner}]

ChunkRecord == [Top : Nat, FreeCnt : Nat, live : BOOLEAN]

Searching(o) == ts[o].at \in {"search", "seek", "null"}

TlsTypes ==
  /\ pTopNode \in Owners \cup {NoOwner} /\ pNextNode \in [Owners -> Owners \cup {NoOwner}]
  /\ pChunk \in [Owners -> Nat] /\ chunks \in Seq(ChunkRecord)
  /\ taken \in SUBSET (Nat \X Nat) /\ ts \in [Owners -> TlsLocal]
  /\ \A o \in Owners : pChunk[o] <= Len(chunks)
  /\ \A o \in Owners : ts[o].at \in {"linkNode", "take", "search", "seek", "null"} =>
       pChunk[o] # 0

\* The blocks of a chunk that are out: the users hold them, or the owner has one and looks
\* for its node before it returns it.
OutOf(c) ==
  {n \in 1 .. ChunkSize :
     <<c, n>> \in taken \/ (n = ChunkSize /\ \E o \in Owners : Searching(o) /\ pChunk[o] = c)}

\* A chunk has given as many blocks as are out and have come back.
Counting ==
  /\ \A c, n \in Nat : <<c, n>> \in taken => c \in 1 .. Len(chunks) /\ n \in 1 .. chunks[c].Top
  /\ \A c \in 1 .. Len(chunks) :
       /\ chunks[c].Top <= ChunkSize
       /\ chunks[c].FreeCnt + Cardinality(OutOf(c)) = chunks[c].Top
       /\ ~chunks[c].live => chunks[c].FreeCnt = ChunkSize

\* A chunk has one owner, who takes its last block only to replace it.
Owning ==
  /\ \A o, p \in Owners : pChunk[o] # 0 /\ pChunk[o] = pChunk[p] => o = p
  /\ \A o \in Owners : Searching(o) =>
       /\ ts[o].chunk = pChunk[o] /\ ts[o].cnt = ChunkSize
       /\ <<pChunk[o], ChunkSize>> \notin taken /\ chunks[pChunk[o]].Top = ChunkSize
  /\ \A o \in Owners : pChunk[o] # 0 /\ ~Searching(o) => chunks[pChunk[o]].Top < ChunkSize
  /\ \A o \in Owners : ts[o].at = "compare" =>
       ts[o].chunk \in 1 .. Len(chunks) /\ ts[o].cnt <= chunks[ts[o].chunk].FreeCnt

TlsInv == TlsTypes /\ Counting /\ Owning

LEMMA TlsConstants == NoOwner \notin Owners /\ ChunkSize \in Nat /\ ChunkSize >= 1
BY NoOwnerIsNone, ChunkSizeAssumption

LEMMA OutOfFinite ==
  ASSUME NEW c
  PROVE  /\ OutOf(c) \subseteq 1 .. ChunkSize /\ IsFiniteSet(OutOf(c))
         /\ Cardinality(OutOf(c)) \in Nat
<1>1. OutOf(c) \subseteq 1 .. ChunkSize BY DEF OutOf
<1>2. IsFiniteSet(1 .. ChunkSize) BY TlsConstants, FS_Interval
<1>3. IsFiniteSet(OutOf(c)) BY <1>1, <1>2, FS_Subset
<1> QED BY <1>1, <1>3, FS_CardinalityType

\* A chunk with a block out is live.
LEMMA OutIsLive ==
  ASSUME TlsInv, NEW c \in 1 .. Len(chunks), OutOf(c) # {}
  PROVE  chunks[c].live
<1>1. IsFiniteSet(OutOf(c)) /\ Cardinality(OutOf(c)) \in Nat BY OutOfFinite
<1>2. Cardinality(OutOf(c)) # 0 BY <1>1, FS_EmptySet
<1>3. PICK k \in Nat : k = Cardinality(OutOf(c)) BY <1>1
<1>4. chunks[c] \in ChunkRecord BY DEF TlsInv, TlsTypes
<1>5. /\ chunks[c].Top <= ChunkSize /\ chunks[c].FreeCnt + k = chunks[c].Top
      /\ ~chunks[c].live => chunks[c].FreeCnt = ChunkSize
  BY <1>3 DEF TlsInv, Counting
<1>6. chunks[c].Top \in Nat /\ chunks[c].FreeCnt \in Nat /\ k > 0
  BY <1>2, <1>3, <1>4 DEF ChunkRecord
<1> QED BY <1>5, <1>6, TlsConstants

LEMMA TlsKeepsChunk ==
  ASSUME TlsInv
  PROVE  OwnerKeepsChunk
<1> SUFFICES ASSUME NEW o \in Owners, pChunk[o] # 0 PROVE chunks[pChunk[o]].live
  BY DEF OwnerKeepsChunk
<1>1. pChunk[o] \in 1 .. Len(chunks) /\ chunks[pChunk[o]] \in ChunkRecord
  BY DEF TlsInv, TlsTypes
<1>2. CASE Searching(o)
  <2>1. ChunkSize \in OutOf(pChunk[o]) BY <1>2, TlsConstants DEF OutOf
  <2> QED BY <1>1, <2>1, OutIsLive
<1>3. CASE ~Searching(o)
  <2>1. PICK k \in Nat : k = Cardinality(OutOf(pChunk[o])) BY OutOfFinite
  <2>2. PICK r \in ChunkRecord : r = chunks[pChunk[o]] BY <1>1
  <2>3. r.Top \in Nat /\ r.FreeCnt \in Nat BY DEF ChunkRecord
  <2>4. r.Top < ChunkSize BY <1>3, <2>2 DEF TlsInv, Owning
  <2>5. r.FreeCnt + k = r.Top /\ (~r.live => r.FreeCnt = ChunkSize)
    BY <1>1, <2>1, <2>2 DEF TlsInv, Counting
  <2> QED BY <2>2, <2>3, <2>4, <2>5, TlsConstants
<1> QED BY <1>2, <1>3

LEMMA TurnsFacts ==
  ASSUME TlsTypes, NEW o \in Owners, NEW from, NEW new \in TlsLocal, Turns(o, from, new)
  PROVE  /\ ts[o].at = from /\ ts' \in [Owners -> TlsLocal] /\ ts'[o] = new
         /\ \A p \in Owners \ {o} : ts'[p] = ts[p]
BY DEF TlsTypes, Turns

LEMMA ChunkAppended ==
  ASSUME chunks \in Seq(ChunkRecord), chunks' = Append(chunks, NewChunk)
  PROVE  /\ chunks' \in Seq(ChunkRecord) /\ Len(chunks') = Len(chunks) + 1
         /\ Len(chunks) \in Nat
         /\ \A c \in 1 .. Len(chunks) : chunks'[c] = chunks[c]
         /\ chunks'[Len(chunks')] = NewChunk
         /\ NewChunk.Top = 0 /\ NewChunk.FreeCnt = 0 /\ NewChunk.live = TRUE
<1>1. NewChunk \in ChunkRecord BY DEF NewChunk, ChunkRecord
<1> QED BY <1>1 DEF NewChunk

LEMMA ChunkChanged ==
  ASSUME chunks \in Seq(ChunkRecord), NEW c \in 1 .. Len(chunks), NEW r \in ChunkRecord,
         chunks' = [chunks EXCEPT ![c] = r]
  PROVE  /\ chunks' \in Seq(ChunkRecord) /\ Len(chunks') = Len(chunks)
         /\ chunks'[c] = r
         /\ \A d \in 1 .. Len(chunks) : d # c => chunks'[d] = chunks[d]
OBVIOUS

\* A step of a thread that touches no chunk and no block.
LEMMA QuietTurn ==
  ASSUME TlsInv, NEW o \in Owners, NEW from, NEW new \in TlsLocal, Turns(o, from, new),
         UNCHANGED <<pChunk, chunks, taken>>,
         pTopNode' \in Owners \cup {NoOwner}, pNextNode' \in [Owners -> Owners \cup {NoOwner}],
         new.at # "compare",
         new.at \in {"search", "seek", "null"} <=> Searching(o),
         Searching(o) => new.chunk = ts[o].chunk /\ new.cnt = ts[o].cnt,
         new.at \in {"linkNode", "take", "search", "seek", "null"} => pChunk[o] # 0
  PROVE  TlsInv'
<1>1. /\ ts[o].at = from /\ ts' \in [Owners -> TlsLocal] /\ ts'[o] = new
      /\ \A p \in Owners \ {o} : ts'[p] = ts[p]
  BY TurnsFacts DEF TlsInv
<1>2. pChunk' = pChunk /\ chunks' = chunks /\ taken' = taken OBVIOUS
<1>3. \A p \in Owners : Searching(p)' <=> Searching(p) BY <1>1 DEF Searching
<1>4. \A c : OutOf(c)' = OutOf(c) BY <1>2, <1>3 DEF OutOf
<1>5. TlsTypes' BY <1>1, <1>2 DEF TlsInv, TlsTypes
<1>6. Counting'
  <2>1. \A c \in 1 .. Len(chunks) : Cardinality(OutOf(c)') = Cardinality(OutOf(c)) BY <1>4
  <2> QED BY <1>2, <1>4, <2>1 DEF TlsInv, Counting
<1>7. Owning'
  <2>1. \A p \in Owners : Searching(p) => ts'[p].chunk = ts[p].chunk /\ ts'[p].cnt = ts[p].cnt
    BY <1>1
  <2>2. \A p \in Owners : ts'[p].at = "compare" => ts'[p] = ts[p] BY <1>1
  <2> QED BY <1>2, <1>3, <2>1, <2>2 DEF TlsInv, Owning
<1> QED BY <1>5, <1>6, <1>7 DEF TlsInv

LEMMA LinkNodeInv ==
  ASSUME TlsInv, NEW o \in Owners, LinkNode(o)
  PROVE  TlsInv'
<1>1. PICK new : new = [Resting EXCEPT !.at = "take"] OBVIOUS
<1>2. new \in TlsLocal /\ new.at = "take" BY <1>1 DEF Resting, TlsLocal
<1>3. /\ Turns(o, "linkNode", new) /\ pTopNode' = o
      /\ pNextNode' = pNextNode /\ pChunk' = pChunk /\ chunks' = chunks /\ taken' = taken
  BY <1>1 DEF LinkNode
<1>4. ts[o].at = "linkNode" BY <1>3 DEF Turns
<1>5. pChunk[o] # 0 /\ ~Searching(o) BY <1>4 DEF TlsInv, TlsTypes, Searching
<1>6. pNextNode \in [Owners -> Owners \cup {NoOwner}] BY DEF TlsInv, TlsTypes
<1> QED BY <1>2, <1>3, <1>5, <1>6, QuietTurn

LEMMA NextAllocInv ==
  ASSUME TlsInv, NEW o \in Owners, NextAlloc(o)
  PROVE  TlsInv'
<1>1. PICK new : new = [Resting EXCEPT !.at = "take"] OBVIOUS
<1>2. new \in TlsLocal /\ new.at = "take" BY <1>1 DEF Resting, TlsLocal
<1>3. /\ Turns(o, "out", new) /\ pChunk[o] # 0 /\ pTopNode' = pTopNode
      /\ pNextNode' = pNextNode /\ pChunk' = pChunk /\ chunks' = chunks /\ taken' = taken
  BY <1>1 DEF NextAlloc
<1>4. ts[o].at = "out" BY <1>3 DEF Turns
<1>5. ~Searching(o) BY <1>4 DEF Searching
<1>6. pNextNode \in [Owners -> Owners \cup {NoOwner}] /\ pTopNode \in Owners \cup {NoOwner}
  BY DEF TlsInv, TlsTypes
<1> QED BY <1>2, <1>3, <1>5, <1>6, QuietTurn

LEMMA SearchInv ==
  ASSUME TlsInv, NEW o \in Owners, Search(o)
  PROVE  TlsInv'
<1>1. PICK new : new = [ts[o] EXCEPT !.at = "seek", !.node = pTopNode] OBVIOUS
<1>2. ts[o] \in TlsLocal /\ pTopNode \in Owners \cup {NoOwner} BY DEF TlsInv, TlsTypes
<1>3. new \in TlsLocal /\ new.at = "seek" /\ new.chunk = ts[o].chunk /\ new.cnt = ts[o].cnt
  BY <1>1, <1>2 DEF TlsLocal
<1>4. /\ Turns(o, "search", new) /\ pTopNode' = pTopNode
      /\ pNextNode' = pNextNode /\ pChunk' = pChunk /\ chunks' = chunks /\ taken' = taken
  BY <1>1 DEF Search
<1>5. ts[o].at = "search" BY <1>4 DEF Turns
<1>6. pChunk[o] # 0 /\ Searching(o) BY <1>5 DEF TlsInv, TlsTypes, Searching
<1>7. pNextNode \in [Owners -> Owners \cup {NoOwner}] BY DEF TlsInv, TlsTypes
<1> QED BY <1>2, <1>3, <1>4, <1>6, <1>7, QuietTurn

LEMMA SeekPastInv ==
  ASSUME TlsInv, NEW o \in Owners, SeekPast(o)
  PROVE  TlsInv'
<1>1. PICK new : new = IF ts[o].node = NoOwner THEN [ts[o] EXCEPT !.at = "null"]
                       ELSE [ts[o] EXCEPT !.node = pNextNode[@]]
  OBVIOUS
<1>2. ts[o] \in TlsLocal /\ pTopNode \in Owners \cup {NoOwner} BY DEF TlsInv, TlsTypes
<1>3. /\ Turns(o, "seek", new) /\ pTopNode' = pTopNode
      /\ pNextNode' = pNextNode /\ pChunk' = pChunk /\ chunks' = chunks /\ taken' = taken
  BY <1>1 DEF SeekPast
<1>4. ts[o].at = "seek" BY <1>3 DEF Turns
<1>5. pNextNode \in [Owners -> Owners \cup {NoOwner}] BY DEF TlsInv, TlsTypes
<1>6. /\ new \in TlsLocal /\ new.at \in {"seek", "null"}
      /\ new.chunk = ts[o].chunk /\ new.cnt = ts[o].cnt
  <2>1. CASE ts[o].node = NoOwner BY <1>1, <1>2, <2>1 DEF TlsLocal
  <2>2. CASE ts[o].node # NoOwner
    <3>1. new = [ts[o] EXCEPT !.node = pNextNode[ts[o].node]] BY <1>1, <2>2
    <3>2. pNextNode[ts[o].node] \in Owners \cup {NoOwner} BY <1>2, <1>5, <2>2 DEF TlsLocal
    <3> QED BY <1>2, <1>4, <3>1, <3>2 DEF TlsLocal
  <2> QED BY <2>1, <2>2
<1>7. pChunk[o] # 0 /\ Searching(o) BY <1>4 DEF TlsInv, TlsTypes, Searching
<1> QED BY <1>2, <1>3, <1>5, <1>6, <1>7, QuietTurn

LEMMA CompareFreedInv ==
  ASSUME TlsInv, NEW o \in Owners, CompareFreed(o)
  PROVE  TlsInv'
<1>1. PICK at \in {"out", "fault"} : Turns(o, "compare", [Resting EXCEPT !.at = at])
  BY DEF CompareFreed
<1>2. PICK new : new = [Resting EXCEPT !.at = at] OBVIOUS
<1>3. new \in TlsLocal /\ new.at \in {"out", "fault"} BY <1>2 DEF Resting, TlsLocal
<1>4. /\ Turns(o, "compare", new) /\ pTopNode' = pTopNode
      /\ pNextNode' = pNextNode /\ pChunk' = pChunk /\ chunks' = chunks /\ taken' = taken
  BY <1>1, <1>2 DEF CompareFreed
<1>5. ts[o].at = "compare" BY <1>4 DEF Turns
<1>6. ~Searching(o) BY <1>5 DEF Searching
<1>7. pNextNode \in [Owners -> Owners \cup {NoOwner}] /\ pTopNode \in Owners \cup {NoOwner}
  BY DEF TlsInv, TlsTypes
<1> QED BY <1>3, <1>4, <1>6, <1>7, QuietTurn

\* A thread gets a new chunk, at its first Alloc or with the last block of the old one.
LEMMA FreshChunkInv ==
  ASSUME TlsInv, NEW o \in Owners, NEW from, NEW new \in TlsLocal, Turns(o, from, new),
         chunks' = Append(chunks, NewChunk), pChunk' = [pChunk EXCEPT ![o] = Len(chunks')],
         new.at \in {"linkNode", "out"},
         pTopNode' \in Owners \cup {NoOwner}, pNextNode' \in [Owners -> Owners \cup {NoOwner}],
         taken' \in SUBSET (Nat \X Nat),
         \A c, n \in Nat : <<c, n>> \in taken' <=>
           <<c, n>> \in taken \/ (Searching(o) /\ c = pChunk[o] /\ n = ChunkSize)
  PROVE  TlsInv'
<1>1. /\ ts[o].at = from /\ ts' \in [Owners -> TlsLocal] /\ ts'[o] = new
      /\ \A p \in Owners \ {o} : ts'[p] = ts[p]
  BY TurnsFacts DEF TlsInv
<1>2. PICK L \in Nat : L = Len(chunks) BY DEF TlsInv, TlsTypes
<1>3. /\ chunks' \in Seq(ChunkRecord) /\ Len(chunks') = L + 1
      /\ \A c \in 1 .. L : chunks'[c] = chunks[c]
      /\ chunks'[L + 1].Top = 0 /\ chunks'[L + 1].FreeCnt = 0 /\ chunks'[L + 1].live = TRUE
  BY <1>2, ChunkAppended DEF TlsInv, TlsTypes
<1>4. /\ pChunk' \in [Owners -> Nat] /\ pChunk'[o] = L + 1
      /\ \A p \in Owners \ {o} : pChunk'[p] = pChunk[p]
      /\ \A p \in Owners : pChunk[p] \in 0 .. L
  BY <1>2, <1>3 DEF TlsInv, TlsTypes
<1>5. ~Searching(o)' /\ \A p \in Owners \ {o} : Searching(p)' <=> Searching(p)
  BY <1>1 DEF Searching
<1>6. Searching(o) => pChunk[o] # 0 /\ chunks[pChunk[o]].Top = ChunkSize
  BY DEF Searching, TlsInv, TlsTypes, Owning
<1>7. ASSUME NEW c \in 1 .. L PROVE OutOf(c)' = OutOf(c)
  <2>1. ASSUME NEW n \in 1 .. ChunkSize
        PROVE  (<<c, n>> \in taken' \/ (n = ChunkSize /\ \E p \in Owners : Searching(p)' /\ pChunk'[p] = c))
               <=> (<<c, n>> \in taken \/ (n = ChunkSize /\ \E p \in Owners : Searching(p) /\ pChunk[p] = c))
    <3>1. c \in Nat /\ n \in Nat BY <1>2, TlsConstants
    <3>2. (\E p \in Owners : Searching(p)' /\ pChunk'[p] = c)
          <=> (\E p \in Owners \ {o} : Searching(p) /\ pChunk[p] = c)
      BY <1>4, <1>5
    <3>3. (\E p \in Owners : Searching(p) /\ pChunk[p] = c)
          <=> (\E p \in Owners \ {o} : Searching(p) /\ pChunk[p] = c) \/ (Searching(o) /\ pChunk[o] = c)
      OBVIOUS
    <3>4. <<c, n>> \in taken' <=>
            <<c, n>> \in taken \/ (Searching(o) /\ c = pChunk[o] /\ n = ChunkSize)
      BY <3>1
    <3> QED BY <3>2, <3>3, <3>4
  <2> QED BY <2>1 DEF OutOf
<1>8. OutOf(L + 1)' = {}
  <2>1. ASSUME NEW n \in 1 .. ChunkSize, <<L + 1, n>> \in taken' PROVE FALSE
    <3>1. L + 1 \in Nat /\ n \in Nat BY <1>2, TlsConstants
    <3>2. L + 1 # pChunk[o] BY <1>2, <1>4
    <3>3. <<L + 1, n>> \in taken BY <2>1, <3>1, <3>2
    <3>4. L + 1 \in 1 .. Len(chunks) BY <3>1, <3>3 DEF TlsInv, Counting
    <3> QED BY <1>2, <3>4
  <2>2. ASSUME NEW p \in Owners, Searching(p)', pChunk'[p] = L + 1 PROVE FALSE
    <3>1. p # o BY <1>5, <2>2
    <3>2. pChunk[p] = L + 1 BY <1>4, <2>2, <3>1
    <3> QED BY <1>2, <1>4, <3>2
  <2> QED BY <2>1, <2>2 DEF OutOf
<1>9. TlsTypes'
  <2>1. \A p \in Owners : pChunk'[p] <= L + 1 BY <1>2, <1>4
  <2>2. \A p \in Owners : ts'[p].at \in {"linkNode", "take", "search", "seek", "null"} =>
          pChunk'[p] # 0
    BY <1>1, <1>2, <1>4 DEF TlsInv, TlsTypes
  <2> QED BY <1>1, <1>3, <1>4, <2>1, <2>2 DEF TlsInv, TlsTypes
<1>10. Counting'
  <2>1. ASSUME NEW c \in Nat, NEW n \in Nat, <<c, n>> \in taken'
        PROVE  c \in 1 .. L + 1 /\ n \in 1 .. chunks'[c].Top
    <3>1. CASE <<c, n>> \in taken
      <4>1. c \in 1 .. L /\ n \in 1 .. chunks[c].Top BY <1>2, <3>1 DEF TlsInv, Counting
      <4> QED BY <1>2, <1>3, <4>1
    <3>2. CASE Searching(o) /\ c = pChunk[o] /\ n = ChunkSize
      <4>1. c \in 1 .. L /\ chunks[c].Top = ChunkSize BY <1>4, <1>6, <3>2
      <4>2. chunks'[c].Top = ChunkSize BY <1>3, <4>1
      <4> QED BY <1>2, <3>2, <4>1, <4>2, TlsConstants
    <3> QED BY <2>1, <3>1, <3>2
  <2>2. ASSUME NEW c \in 1 .. L + 1
        PROVE  /\ chunks'[c].Top <= ChunkSize
               /\ chunks'[c].FreeCnt + Cardinality(OutOf(c)') = chunks'[c].Top
               /\ ~chunks'[c].live => chunks'[c].FreeCnt = ChunkSize
    <3>1. CASE c \in 1 .. L
      <4>1. chunks'[c] = chunks[c] /\ Cardinality(OutOf(c)') = Cardinality(OutOf(c))
        BY <1>3, <1>7, <3>1
      <4> QED BY <1>2, <3>1, <4>1 DEF TlsInv, Counting
    <3>2. CASE c = L + 1
      <4>1. Cardinality(OutOf(c)') = 0
        <5>1. PICK none : none = OutOf(c)' OBVIOUS
        <5>2. none = {} BY <1>8, <3>2, <5>1
        <5> QED BY <5>1, <5>2, FS_EmptySet
      <4> QED BY <1>3, <3>2, <4>1, TlsConstants
    <3> QED BY <1>2, <3>1, <3>2
  <2> QED BY <1>3, <2>1, <2>2 DEF Counting
<1>11. Owning'
  <2>1. ASSUME NEW p \in Owners, NEW q \in Owners, pChunk'[p] # 0, pChunk'[p] = pChunk'[q]
        PROVE  p = q
    <3>1. pChunk[p] # L + 1 /\ pChunk[q] # L + 1 BY <1>2, <1>4
    <3>2. CASE p # o /\ q # o BY <1>4, <2>1, <3>2 DEF TlsInv, Owning
    <3> QED BY <1>4, <2>1, <3>1, <3>2
  <2>2. ASSUME NEW p \in Owners, Searching(p)'
        PROVE  /\ ts'[p].chunk = pChunk'[p] /\ ts'[p].cnt = ChunkSize
               /\ <<pChunk'[p], ChunkSize>> \notin taken'
               /\ chunks'[pChunk'[p]].Top = ChunkSize
    <3>1. p # o /\ Searching(p) BY <1>5, <2>2
    <3>2. /\ ts[p].chunk = pChunk[p] /\ ts[p].cnt = ChunkSize
          /\ <<pChunk[p], ChunkSize>> \notin taken /\ chunks[pChunk[p]].Top = ChunkSize
      BY <3>1 DEF TlsInv, Owning
    <3>3. pChunk[p] # 0 BY <3>1 DEF TlsInv, TlsTypes, Searching
    <3>4. pChunk[p] # pChunk[o] BY <3>1, <3>3 DEF TlsInv, Owning
    <3>5. pChunk[p] \in 1 .. L /\ pChunk[p] \in Nat BY <1>2, <1>4, <3>3
    <3>6. <<pChunk[p], ChunkSize>> \notin taken' BY <3>2, <3>4, <3>5, TlsConstants
    <3> QED BY <1>1, <1>3, <1>4, <3>1, <3>2, <3>5, <3>6
  <2>3. ASSUME NEW p \in Owners, pChunk'[p] # 0, ~Searching(p)'
        PROVE  chunks'[pChunk'[p]].Top < ChunkSize
    <3>1. CASE p = o BY <1>3, <1>4, <3>1, TlsConstants
    <3>2. CASE p # o
      <4>1. pChunk[p] \in 1 .. L /\ ~Searching(p) /\ pChunk'[p] = pChunk[p]
        BY <1>4, <1>5, <2>3, <3>2
      <4> QED BY <1>2, <1>3, <4>1 DEF TlsInv, Owning
    <3> QED BY <3>1, <3>2
  <2>4. ASSUME NEW p \in Owners, ts'[p].at = "compare"
        PROVE  ts'[p].chunk \in 1 .. L + 1 /\ ts'[p].cnt <= chunks'[ts'[p].chunk].FreeCnt
    <3>1. p # o /\ ts'[p] = ts[p] BY <1>1, <2>4
    <3>2. ts[p].chunk \in 1 .. L /\ ts[p].cnt <= chunks[ts[p].chunk].FreeCnt
      BY <1>2, <2>4, <3>1 DEF TlsInv, Owning
    <3>3. chunks'[ts[p].chunk] = chunks[ts[p].chunk] BY <1>3, <3>2
    <3>4. ts[p].chunk \in 1 .. L + 1 BY <1>2, <3>2
    <3> QED BY <3>1, <3>2, <3>3, <3>4
  <2>5. \A p, q \in Owners : pChunk'[p] # 0 /\ pChunk'[p] = pChunk'[q] => p = q BY <2>1
  <2>6. Len(chunks') = L + 1 BY <1>3
  <2> QED BY ONLY <2>2, <2>3, <2>4, <2>5, <2>6 DEF Owning
<1> QED BY <1>9, <1>10, <1>11 DEF TlsInv

LEMMA FirstAllocInv ==
  ASSUME TlsInv, NEW o \in Owners, FirstAlloc(o)
  PROVE  TlsInv'
<1>1. PICK new : new = [Resting EXCEPT !.at = "linkNode"] OBVIOUS
<1>2. new \in TlsLocal /\ new.at = "linkNode" BY <1>1 DEF Resting, TlsLocal
<1>3. /\ Turns(o, "out", new) /\ pTopNode' = pTopNode
      /\ pNextNode' = [pNextNode EXCEPT ![o] = pTopNode]
      /\ pChunk' = [pChunk EXCEPT ![o] = Len(chunks')]
      /\ chunks' = Append(chunks, NewChunk) /\ taken' = taken
  BY <1>1 DEF FirstAlloc
<1>4. ts[o].at = "out" BY <1>3 DEF Turns
<1>5. ~Searching(o) BY <1>4 DEF Searching
<1>6. /\ pNextNode \in [Owners -> Owners \cup {NoOwner}] /\ pTopNode \in Owners \cup {NoOwner}
      /\ taken \in SUBSET (Nat \X Nat)
  BY DEF TlsInv, TlsTypes
<1>7. pNextNode' \in [Owners -> Owners \cup {NoOwner}] BY <1>3, <1>6
<1> QED BY <1>2, <1>3, <1>5, <1>6, <1>7, FreshChunkInv

LEMMA ReplaceInv ==
  ASSUME TlsInv, NEW o \in Owners, Replace(o)
  PROVE  TlsInv'
<1>1. PICK new : new = Resting OBVIOUS
<1>2. new \in TlsLocal /\ new.at = "out" BY <1>1 DEF Resting, TlsLocal
<1>3. /\ Turns(o, "seek", new) /\ pTopNode' = pTopNode /\ pNextNode' = pNextNode
      /\ pChunk' = [pChunk EXCEPT ![o] = Len(chunks')]
      /\ chunks' = Append(chunks, NewChunk)
      /\ taken' = taken \cup {<<ts[o].chunk, ts[o].cnt>>}
  BY <1>1 DEF Replace
<1>4. ts[o].at = "seek" BY <1>3 DEF Turns
<1>5. Searching(o) BY <1>4 DEF Searching
<1>6. ts[o].chunk = pChunk[o] /\ ts[o].cnt = ChunkSize BY <1>5 DEF TlsInv, Owning
<1>7. /\ pNextNode \in [Owners -> Owners \cup {NoOwner}] /\ pTopNode \in Owners \cup {NoOwner}
      /\ taken \in SUBSET (Nat \X Nat) /\ pChunk[o] \in Nat
  BY DEF TlsInv, TlsTypes
<1>8. taken' = taken \cup {<<pChunk[o], ChunkSize>>} BY <1>3, <1>6
<1>9. taken' \in SUBSET (Nat \X Nat) BY <1>7, <1>8, TlsConstants
<1>10. \A c, n \in Nat : <<c, n>> \in taken' <=>
          <<c, n>> \in taken \/ (Searching(o) /\ c = pChunk[o] /\ n = ChunkSize)
  BY <1>5, <1>8
<1> QED BY <1>2, <1>3, <1>7, <1>9, <1>10, FreshChunkInv

LEMMA TakeBlockInv ==
  ASSUME TlsInv, NEW o \in Owners, TakeBlock(o)
  PROVE  TlsInv'
<1>1. ts[o].at = "take" BY DEF TakeBlock, Turns
<1>2. pChunk[o] # 0 /\ ~Searching(o) BY <1>1 DEF TlsInv, TlsTypes, Searching
<1>3. PICK L \in Nat : L = Len(chunks) BY DEF TlsInv, TlsTypes
<1>4. PICK c \in 1 .. L : c = pChunk[o] BY <1>2, <1>3 DEF TlsInv, TlsTypes
<1>5. PICK old \in ChunkRecord : old = chunks[c] BY <1>3, <1>4 DEF TlsInv, TlsTypes
<1>6. old.Top \in Nat /\ old.FreeCnt \in Nat /\ old.live \in BOOLEAN BY DEF ChunkRecord
<1>7. PICK n \in Nat : n = old.Top + 1 BY <1>6
<1>8. old.live /\ old.Top < ChunkSize /\ n \in 1 .. ChunkSize
  <2>1. old.live BY <1>2, <1>4, <1>5, TlsKeepsChunk DEF OwnerKeepsChunk
  <2>2. old.Top < ChunkSize BY <1>2, <1>4, <1>5 DEF TlsInv, Owning
  <2> QED BY <1>6, <1>7, <2>1, <2>2, TlsConstants
<1>9. PICK r : r = [old EXCEPT !.Top = n] OBVIOUS
<1>10. r \in ChunkRecord /\ r.Top = n /\ r.FreeCnt = old.FreeCnt /\ r.live
  BY <1>8, <1>9 DEF ChunkRecord
<1>11. PICK new : new = IF n = ChunkSize
                        THEN [Resting EXCEPT !.at = "search", !.chunk = c, !.cnt = n]
                        ELSE Resting
  OBVIOUS
<1>12. /\ new \in TlsLocal /\ (n # ChunkSize => new.at = "out")
       /\ n = ChunkSize => new.at = "search" /\ new.chunk = c /\ new.cnt = n
  <2>1. c \in Nat /\ n \in Nat BY <1>3
  <2>2. CASE n = ChunkSize BY <1>11, <2>1, <2>2 DEF Resting, TlsLocal
  <2>3. CASE n # ChunkSize BY <1>11, <2>3 DEF Resting, TlsLocal
  <2> QED BY <2>2, <2>3
<1>13. /\ Turns(o, "take", new) /\ chunks' = [chunks EXCEPT ![c] = r]
       /\ taken' = IF n < ChunkSize THEN taken \cup {<<c, n>>} ELSE taken
       /\ pTopNode' = pTopNode /\ pNextNode' = pNextNode /\ pChunk' = pChunk
  <2>1. chunks[pChunk[o]].Top + 1 = n /\ chunks[pChunk[o]].live BY <1>4, <1>5, <1>7, <1>8
  <2>2. [chunks EXCEPT ![c].Top = n] = [chunks EXCEPT ![c] = r] BY <1>5, <1>9
  <2> QED BY <1>4, <1>11, <2>1, <2>2 DEF TakeBlock
<1>14. /\ ts' \in [Owners -> TlsLocal] /\ ts'[o] = new
       /\ \A p \in Owners \ {o} : ts'[p] = ts[p]
  BY <1>12, <1>13, TurnsFacts DEF TlsInv
<1>15. /\ chunks' \in Seq(ChunkRecord) /\ Len(chunks') = L /\ chunks'[c] = r
       /\ \A d \in 1 .. L : d # c => chunks'[d] = chunks[d]
  BY <1>3, <1>10, <1>13, ChunkChanged DEF TlsInv, TlsTypes
<1>16. \A p \in Owners \ {o} : (Searching(p)' <=> Searching(p)) /\ pChunk[p] # c
  <2>1. c # 0 BY <1>3
  <2>2. \A p \in Owners \ {o} : pChunk[p] # c BY <1>4, <2>1 DEF TlsInv, Owning
  <2> QED BY <1>14, <2>2 DEF Searching
<1>17. Searching(o)' <=> n = ChunkSize BY <1>12, <1>14 DEF Searching
<1>18. \A d, k \in Nat : <<d, k>> \in taken' <=>
         <<d, k>> \in taken \/ (d = c /\ k = n /\ n < ChunkSize)
  BY <1>13
<1>19. <<c, n>> \notin taken
  <2>1. c \in Nat /\ n \notin 1 .. old.Top BY <1>3, <1>6, <1>7
  <2> QED BY <1>5, <2>1 DEF TlsInv, Counting
<1>20. OutOf(c)' = OutOf(c) \cup {n} /\ n \notin OutOf(c)
  <2>1. ASSUME NEW k \in 1 .. ChunkSize
        PROVE  (<<c, k>> \in taken' \/ (k = ChunkSize /\ \E p \in Owners : Searching(p)' /\ pChunk'[p] = c))
               <=> (<<c, k>> \in taken \/ (k = ChunkSize /\ \E p \in Owners : Searching(p) /\ pChunk[p] = c))
                   \/ k = n
    <3>1. c \in Nat /\ k \in Nat BY <1>3, TlsConstants
    <3>2. (\E p \in Owners : Searching(p)' /\ pChunk'[p] = c) <=> n = ChunkSize
      BY <1>4, <1>13, <1>16, <1>17
    <3>3. ~\E p \in Owners : Searching(p) /\ pChunk[p] = c BY <1>2, <1>16
    <3>4. <<c, k>> \in taken' <=> <<c, k>> \in taken \/ (k = n /\ n < ChunkSize) BY <1>18, <3>1
    <3>5. n = ChunkSize \/ n < ChunkSize BY <1>8, TlsConstants
    <3> QED BY <3>2, <3>3, <3>4, <3>5
  <2>2. n \notin OutOf(c) BY <1>2, <1>16, <1>19 DEF OutOf
  <2> QED BY <1>8, <2>1, <2>2 DEF OutOf
<1>21. ASSUME NEW d \in 1 .. L, d # c PROVE OutOf(d)' = OutOf(d)
  <2>1. ASSUME NEW k \in 1 .. ChunkSize
        PROVE  (<<d, k>> \in taken' \/ (k = ChunkSize /\ \E p \in Owners : Searching(p)' /\ pChunk'[p] = d))
               <=> (<<d, k>> \in taken \/ (k = ChunkSize /\ \E p \in Owners : Searching(p) /\ pChunk[p] = d))
    <3>1. d \in Nat /\ k \in Nat BY <1>3, TlsConstants
    <3>2. <<d, k>> \in taken' <=> <<d, k>> \in taken BY <1>18, <1>21, <3>1
    <3>3. (\E p \in Owners : Searching(p)' /\ pChunk'[p] = d)
          <=> (\E p \in Owners : Searching(p) /\ pChunk[p] = d)
      BY <1>4, <1>13, <1>16, <1>21
    <3> QED BY <3>2, <3>3
  <2> QED BY <2>1 DEF OutOf
<1>22. TlsTypes'
  <2>1. taken' \in SUBSET (Nat \X Nat)
    <3>1. c \in Nat /\ n \in Nat /\ taken \in SUBSET (Nat \X Nat) BY <1>3 DEF TlsInv, TlsTypes
    <3> QED BY <1>13, <3>1
  <2>2. \A p \in Owners : pChunk'[p] <= L BY <1>3, <1>13 DEF TlsInv, TlsTypes
  <2>3. \A p \in Owners : ts'[p].at \in {"linkNode", "take", "search", "seek", "null"} =>
          pChunk'[p] # 0
    BY <1>2, <1>13, <1>14 DEF TlsInv, TlsTypes
  <2> QED BY <1>13, <1>14, <1>15, <2>1, <2>2, <2>3 DEF TlsInv, TlsTypes
<1>23. Counting'
  <2>1. ASSUME NEW d \in Nat, NEW k \in Nat, <<d, k>> \in taken'
        PROVE  d \in 1 .. L /\ k \in 1 .. chunks'[d].Top
    <3>1. CASE <<d, k>> \in taken
      <4>1. d \in 1 .. L /\ k \in 1 .. chunks[d].Top BY <1>3, <3>1 DEF TlsInv, Counting
      <4>2. CASE d = c
        <5>1. k \in 1 .. old.Top BY <1>5, <4>1, <4>2
        <5>2. k \in 1 .. n BY <1>6, <1>7, <5>1
        <5> QED BY <1>10, <1>15, <4>1, <4>2, <5>2
      <4>3. CASE d # c BY <1>15, <4>1, <4>3
      <4> QED BY <4>2, <4>3
    <3>2. CASE d = c /\ k = n BY <1>8, <1>10, <1>15, <3>2
    <3> QED BY <1>18, <2>1, <3>1, <3>2
  <2>2. ASSUME NEW d \in 1 .. L
        PROVE  /\ chunks'[d].Top <= ChunkSize
               /\ chunks'[d].FreeCnt + Cardinality(OutOf(d)') = chunks'[d].Top
               /\ ~chunks'[d].live => chunks'[d].FreeCnt = ChunkSize
    <3>1. CASE d = c
      <4>1. PICK w \in Nat : w = Cardinality(OutOf(c)) BY OutOfFinite
      <4>2. Cardinality(OutOf(c)') = w + 1
        <5>1. PICK S : S = OutOf(c) OBVIOUS
        <5>2. IsFiniteSet(S) /\ Cardinality(S) = w BY <4>1, <5>1, OutOfFinite
        <5>3. n \notin S /\ OutOf(c)' = S \cup {n} BY <1>20, <5>1
        <5>4. Cardinality(S \cup {n}) = w + 1 BY <5>2, <5>3, FS_AddElement
        <5> QED BY <5>3, <5>4
      <4>3. old.FreeCnt + w = old.Top BY <1>3, <1>5, <4>1 DEF TlsInv, Counting
      <4>4. r.FreeCnt + (w + 1) = r.Top BY <1>6, <1>7, <1>10, <4>3
      <4> QED BY <1>8, <1>10, <1>15, <3>1, <4>2, <4>4
    <3>2. CASE d # c
      <4>1. chunks'[d] = chunks[d] /\ Cardinality(OutOf(d)') = Cardinality(OutOf(d))
        BY <1>15, <1>21, <3>2
      <4> QED BY <1>3, <4>1 DEF TlsInv, Counting
    <3> QED BY <3>1, <3>2
  <2> QED BY <1>15, <2>1, <2>2 DEF Counting
<1>24. Owning'
  <2>1. \A p, q \in Owners : pChunk'[p] # 0 /\ pChunk'[p] = pChunk'[q] => p = q
    BY <1>13 DEF TlsInv, Owning
  <2>2. ASSUME NEW p \in Owners, Searching(p)'
        PROVE  /\ ts'[p].chunk = pChunk'[p] /\ ts'[p].cnt = ChunkSize
               /\ <<pChunk'[p], ChunkSize>> \notin taken'
               /\ chunks'[pChunk'[p]].Top = ChunkSize
    <3>1. CASE p = o
      <4>1. n = ChunkSize /\ pChunk'[p] = c BY <1>4, <1>13, <1>17, <2>2, <3>1
      <4>2. <<c, ChunkSize>> \notin taken' BY <1>13, <1>19, <4>1, TlsConstants
      <4> QED BY <1>10, <1>12, <1>14, <1>15, <3>1, <4>1, <4>2
    <3>2. CASE p # o
      <4>1. Searching(p) /\ pChunk[p] # c /\ pChunk'[p] = pChunk[p] /\ ts'[p] = ts[p]
        BY <1>13, <1>14, <1>16, <2>2, <3>2
      <4>2. /\ ts[p].chunk = pChunk[p] /\ ts[p].cnt = ChunkSize
            /\ <<pChunk[p], ChunkSize>> \notin taken /\ chunks[pChunk[p]].Top = ChunkSize
        BY <4>1 DEF TlsInv, Owning
      <4>3. pChunk[p] # 0 BY <4>1 DEF TlsInv, TlsTypes, Searching
      <4>4. pChunk[p] \in 1 .. L /\ pChunk[p] \in Nat BY <1>3, <4>3 DEF TlsInv, TlsTypes
      <4>5. <<pChunk[p], ChunkSize>> \notin taken' BY <1>18, <4>1, <4>2, <4>4, TlsConstants
      <4> QED BY <1>15, <4>1, <4>2, <4>4, <4>5
    <3> QED BY <3>1, <3>2
  <2>3. ASSUME NEW p \in Owners, pChunk'[p] # 0, ~Searching(p)'
        PROVE  chunks'[pChunk'[p]].Top < ChunkSize
    <3>1. CASE p = o
      <4>1. n # ChunkSize /\ pChunk'[p] = c BY <1>4, <1>13, <1>17, <2>3, <3>1
      <4>2. n < ChunkSize BY <1>8, <4>1, TlsConstants
      <4> QED BY <1>10, <1>15, <4>1, <4>2
    <3>2. CASE p # o
      <4>1. ~Searching(p) /\ pChunk[p] # c /\ pChunk'[p] = pChunk[p] /\ pChunk[p] # 0
        BY <1>13, <1>16, <2>3, <3>2
      <4>2. pChunk[p] \in 1 .. L BY <1>3, <4>1 DEF TlsInv, TlsTypes
      <4>3. chunks'[pChunk[p]] = chunks[pChunk[p]] BY <1>15, <4>1, <4>2
      <4> QED BY <4>1, <4>3 DEF TlsInv, Owning
    <3> QED BY <3>1, <3>2
  <2>4. ASSUME NEW p \in Owners, ts'[p].at = "compare"
        PROVE  ts'[p].chunk \in 1 .. L /\ ts'[p].cnt <= chunks'[ts'[p].chunk].FreeCnt
    <3>1. p # o /\ ts'[p] = ts[p] BY <1>12, <1>14, <2>4
    <3>2. ts[p].chunk \in 1 .. L /\ ts[p].cnt <= chunks[ts[p].chunk].FreeCnt
      BY <1>3, <2>4, <3>1 DEF TlsInv, Owning
    <3>3. chunks'[ts[p].chunk].FreeCnt = chunks[ts[p].chunk].FreeCnt BY <1>5, <1>10, <1>15, <3>2
    <3> QED BY <3>1, <3>2, <3>3
  <2> QED BY <1>15, <2>1, <2>2, <2>3, <2>4 DEF Owning
<1> QED BY <1>22, <1>23, <1>24 DEF TlsInv

\* Free finds the chunk of a block that is held alive.
LEMMA TakenIsLive ==
  ASSUME TlsInv, NEW c \in Nat, NEW n \in Nat, <<c, n>> \in taken
  PROVE  /\ c \in 1 .. Len(chunks) /\ chunks[c].live /\ n \in OutOf(c)
         /\ \A p \in Owners : Searching(p) /\ pChunk[p] = c => n # ChunkSize
<1>1. c \in 1 .. Len(chunks) /\ n \in 1 .. chunks[c].Top BY DEF TlsInv, Counting
<1>2. PICK t \in Nat : t = chunks[c].Top
  <2>1. chunks[c] \in ChunkRecord BY <1>1 DEF TlsInv, TlsTypes
  <2> QED BY <2>1 DEF ChunkRecord
<1>3. t <= ChunkSize BY <1>1, <1>2 DEF TlsInv, Counting
<1>4. n \in 1 .. ChunkSize BY <1>1, <1>2, <1>3, TlsConstants
<1>5. n \in OutOf(c) BY <1>4 DEF OutOf
<1>6. chunks[c].live BY <1>1, <1>5, OutIsLive
<1>7. \A p \in Owners : Searching(p) /\ pChunk[p] = c => n # ChunkSize BY DEF TlsInv, Owning
<1> QED BY <1>1, <1>5, <1>6, <1>7

LEMMA CountFreedInv ==
  ASSUME TlsInv, NEW o \in Owners, CountFreed(o)
  PROVE  TlsInv' /\ ts'[o].at = "compare" /\ chunks'[ts'[o].chunk].live
<1>1. PICK b \in taken :
        /\ Turns(o, "out", IF chunks[b[1]].live
                           THEN [Resting EXCEPT !.at = "compare", !.chunk = b[1],
                                                !.cnt = chunks[b[1]].FreeCnt + 1]
                           ELSE [Resting EXCEPT !.at = "fault"])
        /\ chunks' = [chunks EXCEPT ![b[1]].FreeCnt = @ + 1]
        /\ taken' = taken \ {b}
  BY DEF CountFreed
<1>2. PICK c \in Nat, n \in Nat : b = <<c, n>> BY <1>1 DEF TlsInv, TlsTypes
<1>3. PICK L \in Nat : L = Len(chunks) BY DEF TlsInv, TlsTypes
<1>4. /\ c \in 1 .. L /\ chunks[c].live /\ n \in OutOf(c)
      /\ \A p \in Owners : Searching(p) /\ pChunk[p] = c => n # ChunkSize
  BY <1>1, <1>2, <1>3, TakenIsLive
<1>5. PICK old \in ChunkRecord : old = chunks[c] BY <1>3, <1>4 DEF TlsInv, TlsTypes
<1>6. old.Top \in Nat /\ old.FreeCnt \in Nat /\ old.live BY <1>4, <1>5 DEF ChunkRecord
<1>7. PICK f \in Nat : f = old.FreeCnt + 1 BY <1>6
<1>8. PICK r : r = [old EXCEPT !.FreeCnt = f] OBVIOUS
<1>9. r \in ChunkRecord /\ r.Top = old.Top /\ r.FreeCnt = f /\ r.live
  BY <1>6, <1>8 DEF ChunkRecord
<1>10. PICK new : new = [Resting EXCEPT !.at = "compare", !.chunk = c, !.cnt = f] OBVIOUS
<1>11. new \in TlsLocal /\ new.at = "compare" /\ new.chunk = c /\ new.cnt = f
  BY <1>10 DEF Resting, TlsLocal
<1>12. /\ Turns(o, "out", new) /\ chunks' = [chunks EXCEPT ![c] = r]
       /\ taken' = taken \ {<<c, n>>}
       /\ pTopNode' = pTopNode /\ pNextNode' = pNextNode /\ pChunk' = pChunk
  <2>1. b[1] = c BY <1>2
  <2>2. [chunks EXCEPT ![c].FreeCnt = @ + 1] = [chunks EXCEPT ![c] = r] BY <1>5, <1>7, <1>8
  <2>3. Turns(o, "out", new) BY <1>1, <1>4, <1>5, <1>7, <1>10, <2>1
  <2>4. chunks' = [chunks EXCEPT ![c] = r] BY <1>1, <2>1, <2>2
  <2> QED BY <1>1, <1>2, <2>3, <2>4 DEF CountFreed
<1>13. /\ ts[o].at = "out" /\ ts' \in [Owners -> TlsLocal] /\ ts'[o] = new
       /\ \A p \in Owners \ {o} : ts'[p] = ts[p]
  BY <1>11, <1>12, TurnsFacts DEF TlsInv
<1>14. /\ chunks' \in Seq(ChunkRecord) /\ Len(chunks') = L /\ chunks'[c] = r
       /\ \A d \in 1 .. L : d # c => chunks'[d] = chunks[d]
  BY <1>3, <1>4, <1>9, <1>12, ChunkChanged DEF TlsInv, TlsTypes
<1>15. \A p \in Owners : Searching(p)' <=> Searching(p) BY <1>11, <1>13 DEF Searching
<1>16. \A d, k \in Nat : <<d, k>> \in taken' <=> <<d, k>> \in taken /\ ~(d = c /\ k = n)
  BY <1>12
<1>17. OutOf(c)' = OutOf(c) \ {n}
  <2>1. ASSUME NEW k \in 1 .. ChunkSize
        PROVE  (<<c, k>> \in taken' \/ (k = ChunkSize /\ \E p \in Owners : Searching(p)' /\ pChunk'[p] = c))
               <=> (<<c, k>> \in taken \/ (k = ChunkSize /\ \E p \in Owners : Searching(p) /\ pChunk[p] = c))
                   /\ k # n
    <3>1. k \in Nat BY TlsConstants
    <3>2. (\E p \in Owners : Searching(p)' /\ pChunk'[p] = c)
          <=> (\E p \in Owners : Searching(p) /\ pChunk[p] = c)
      BY <1>12, <1>15
    <3>3. <<c, k>> \in taken' <=> <<c, k>> \in taken /\ k # n BY <1>16, <3>1
    <3>4. (\E p \in Owners : Searching(p) /\ pChunk[p] = c) => n # ChunkSize BY <1>4
    <3> QED BY <3>2, <3>3, <3>4
  <2> QED BY <2>1 DEF OutOf
<1>18. ASSUME NEW d \in 1 .. L, d # c PROVE OutOf(d)' = OutOf(d)
  <2>1. ASSUME NEW k \in 1 .. ChunkSize
        PROVE  (<<d, k>> \in taken' \/ (k = ChunkSize /\ \E p \in Owners : Searching(p)' /\ pChunk'[p] = d))
               <=> (<<d, k>> \in taken \/ (k = ChunkSize /\ \E p \in Owners : Searching(p) /\ pChunk[p] = d))
    <3>1. d \in Nat /\ k \in Nat BY <1>3, TlsConstants
    <3>2. <<d, k>> \in taken' <=> <<d, k>> \in taken BY <1>16, <1>18, <3>1
    <3> QED BY <1>12, <1>15, <3>2
  <2> QED BY <2>1 DEF OutOf
<1>19. TlsTypes'
  <2>1. taken' \in SUBSET (Nat \X Nat) BY <1>12 DEF TlsInv, TlsTypes
  <2>2. \A p \in Owners : ts'[p].at \in {"linkNode", "take", "search", "seek", "null"} =>
          pChunk'[p] # 0
    BY <1>11, <1>12, <1>13 DEF TlsInv, TlsTypes
  <2> QED BY <1>3, <1>12, <1>13, <1>14, <2>1, <2>2 DEF TlsInv, TlsTypes
<1>20. \A d \in 1 .. L : chunks'[d].Top = chunks[d].Top BY <1>5, <1>9, <1>14
<1>21. Counting'
  <2>1. ASSUME NEW d \in Nat, NEW k \in Nat, <<d, k>> \in taken'
        PROVE  d \in 1 .. L /\ k \in 1 .. chunks'[d].Top
    <3>1. d \in 1 .. L /\ k \in 1 .. chunks[d].Top BY <1>3, <1>16, <2>1 DEF TlsInv, Counting
    <3> QED BY <1>20, <3>1
  <2>2. ASSUME NEW d \in 1 .. L
        PROVE  /\ chunks'[d].Top <= ChunkSize
               /\ chunks'[d].FreeCnt + Cardinality(OutOf(d)') = chunks'[d].Top
               /\ ~chunks'[d].live => chunks'[d].FreeCnt = ChunkSize
    <3>1. CASE d = c
      <4>1. PICK w \in Nat : w = Cardinality(OutOf(c)) BY OutOfFinite
      <4>2. Cardinality(OutOf(c)') = w - 1
        <5>1. PICK S : S = OutOf(c) OBVIOUS
        <5>2. IsFiniteSet(S) /\ Cardinality(S) = w BY <4>1, <5>1, OutOfFinite
        <5>3. n \in S /\ OutOf(c)' = S \ {n} BY <1>4, <1>17, <5>1
        <5>4. Cardinality(S \ {n}) = w - 1 BY <5>2, <5>3, FS_RemoveElement
        <5> QED BY <5>3, <5>4
      <4>3. old.FreeCnt + w = old.Top /\ old.Top <= ChunkSize
        BY <1>3, <1>4, <1>5, <4>1 DEF TlsInv, Counting
      <4>4. r.FreeCnt + (w - 1) = r.Top BY <1>6, <1>7, <1>9, <4>3
      <4> QED BY <1>9, <1>14, <3>1, <4>2, <4>3, <4>4
    <3>2. CASE d # c
      <4>1. chunks'[d] = chunks[d] /\ Cardinality(OutOf(d)') = Cardinality(OutOf(d))
        BY <1>14, <1>18, <3>2
      <4> QED BY <1>3, <4>1 DEF TlsInv, Counting
    <3> QED BY <3>1, <3>2
  <2> QED BY <1>14, <2>1, <2>2 DEF Counting
<1>22. Owning'
  <2>1. \A p, q \in Owners : pChunk'[p] # 0 /\ pChunk'[p] = pChunk'[q] => p = q
    BY <1>12 DEF TlsInv, Owning
  <2>2. ASSUME NEW p \in Owners, Searching(p)'
        PROVE  /\ ts'[p].chunk = pChunk'[p] /\ ts'[p].cnt = ChunkSize
               /\ <<pChunk'[p], ChunkSize>> \notin taken'
               /\ chunks'[pChunk'[p]].Top = ChunkSize
    <3>1. p # o /\ Searching(p) BY <1>11, <1>13, <1>15, <2>2 DEF Searching
    <3>2. ts'[p] = ts[p] /\ pChunk'[p] = pChunk[p] BY <1>12, <1>13, <3>1
    <3>3. /\ ts[p].chunk = pChunk[p] /\ ts[p].cnt = ChunkSize
          /\ <<pChunk[p], ChunkSize>> \notin taken /\ chunks[pChunk[p]].Top = ChunkSize
      BY <3>1 DEF TlsInv, Owning
    <3>4. pChunk[p] # 0 BY <3>1 DEF TlsInv, TlsTypes, Searching
    <3>5. pChunk[p] \in 1 .. L BY <1>3, <3>4 DEF TlsInv, TlsTypes
    <3> QED BY <1>12, <1>20, <3>2, <3>3, <3>5
  <2>3. ASSUME NEW p \in Owners, pChunk'[p] # 0, ~Searching(p)'
        PROVE  chunks'[pChunk'[p]].Top < ChunkSize
    <3>1. ~Searching(p) /\ pChunk'[p] = pChunk[p] /\ pChunk[p] # 0 BY <1>12, <1>15, <2>3
    <3>2. pChunk[p] \in 1 .. L BY <1>3, <3>1 DEF TlsInv, TlsTypes
    <3>3. chunks'[pChunk[p]].Top = chunks[pChunk[p]].Top BY <1>20, <3>2
    <3> QED BY <3>1, <3>3 DEF TlsInv, Owning
  <2>4. ASSUME NEW p \in Owners, ts'[p].at = "compare"
        PROVE  ts'[p].chunk \in 1 .. L /\ ts'[p].cnt <= chunks'[ts'[p].chunk].FreeCnt
    <3>1. CASE p = o BY <1>4, <1>9, <1>11, <1>13, <1>14, <3>1
    <3>2. CASE p # o
      <4>1. ts'[p] = ts[p] BY <1>13, <3>2
      <4>2. PICK d \in 1 .. L, k \in Nat :
              d = ts[p].chunk /\ k = ts[p].cnt /\ k <= chunks[d].FreeCnt
        <5>1. ts[p].chunk \in 1 .. L /\ ts[p].cnt <= chunks[ts[p].chunk].FreeCnt
          BY <1>3, <2>4, <4>1 DEF TlsInv, Owning
        <5>2. ts[p].cnt \in Nat BY DEF TlsInv, TlsTypes, TlsLocal
        <5> QED BY <5>1, <5>2
      <4>3. k <= chunks'[d].FreeCnt
        <5>1. CASE d = c BY <1>5, <1>6, <1>7, <1>9, <1>14, <4>2, <5>1
        <5>2. CASE d # c BY <1>14, <4>2, <5>2
        <5> QED BY <5>1, <5>2
      <4> QED BY <4>1, <4>2, <4>3
    <3> QED BY <3>1, <3>2
  <2> QED BY <1>14, <2>1, <2>2, <2>3, <2>4 DEF Owning
<1>23. ts'[o].at = "compare" /\ chunks'[ts'[o].chunk].live BY <1>9, <1>11, <1>13, <1>14
<1> QED BY <1>19, <1>21, <1>22, <1>23 DEF TlsInv

LEMMA FreeChunkInv ==
  ASSUME TlsInv, NEW o \in Owners, FreeChunk(o)
  PROVE  TlsInv'
<1>1. /\ Turns(o, "compare", Resting) /\ pTopNode' = pTopNode /\ pNextNode' = pNextNode
      /\ pChunk' = pChunk /\ taken' = taken
      /\ chunks' = IF ts[o].cnt = ChunkSize
                   THEN [chunks EXCEPT ![ts[o].chunk].live = FALSE] ELSE chunks
  BY DEF FreeChunk
<1>2. PICK new : new = Resting OBVIOUS
<1>3. new \in TlsLocal /\ new.at = "out" BY <1>2 DEF Resting, TlsLocal
<1>4. /\ ts[o].at = "compare" /\ ts' \in [Owners -> TlsLocal] /\ ts'[o] = new
      /\ \A p \in Owners \ {o} : ts'[p] = ts[p]
  BY <1>1, <1>2, <1>3, TurnsFacts DEF TlsInv
<1>5. /\ pNextNode \in [Owners -> Owners \cup {NoOwner}] /\ pTopNode \in Owners \cup {NoOwner}
  BY DEF TlsInv, TlsTypes
<1>6. CASE ts[o].cnt # ChunkSize
  <2>1. chunks' = chunks /\ ~Searching(o) BY <1>1, <1>4, <1>6 DEF Searching
  <2> QED BY <1>1, <1>2, <1>3, <1>5, <2>1, QuietTurn
<1>7. CASE ts[o].cnt = ChunkSize
  <2>1. PICK L \in Nat : L = Len(chunks) BY DEF TlsInv, TlsTypes
  <2>2. PICK c \in 1 .. L : c = ts[o].chunk /\ ChunkSize <= chunks[c].FreeCnt
    BY <1>4, <1>7, <2>1 DEF TlsInv, Owning
  <2>3. PICK old \in ChunkRecord : old = chunks[c] BY <2>1, <2>2 DEF TlsInv, TlsTypes
  <2>4. old.Top \in Nat /\ old.FreeCnt \in Nat BY DEF ChunkRecord
  <2>5. old.FreeCnt = ChunkSize
    <3>1. PICK w \in Nat : w = Cardinality(OutOf(c)) BY OutOfFinite
    <3>2. old.FreeCnt + w = old.Top /\ old.Top <= ChunkSize
      BY <2>1, <2>3, <3>1 DEF TlsInv, Counting
    <3> QED BY <2>2, <2>3, <2>4, <3>2, TlsConstants
  <2>6. PICK r : r = [old EXCEPT !.live = FALSE] OBVIOUS
  <2>7. r \in ChunkRecord /\ r.Top = old.Top /\ r.FreeCnt = old.FreeCnt BY <2>6 DEF ChunkRecord
  <2>8. chunks' = [chunks EXCEPT ![c] = r]
    <3>1. [chunks EXCEPT ![c].live = FALSE] = [chunks EXCEPT ![c] = r] BY <2>3, <2>6
    <3> QED BY <1>1, <1>7, <2>2, <3>1
  <2>9. /\ chunks' \in Seq(ChunkRecord) /\ Len(chunks') = L /\ chunks'[c] = r
        /\ \A d \in 1 .. L : d # c => chunks'[d] = chunks[d]
    BY <2>1, <2>7, <2>8, ChunkChanged DEF TlsInv, TlsTypes
  <2>10. \A p \in Owners : Searching(p)' <=> Searching(p) BY <1>3, <1>4 DEF Searching
  <2>11. \A d : OutOf(d)' = OutOf(d) BY <1>1, <2>10 DEF OutOf
  <2>12. \A d \in 1 .. L : chunks'[d].Top = chunks[d].Top /\ chunks'[d].FreeCnt = chunks[d].FreeCnt
    BY <2>3, <2>7, <2>9
  <2>13. TlsTypes'
    <3>1. \A p \in Owners : ts'[p].at \in {"linkNode", "take", "search", "seek", "null"} =>
            pChunk'[p] # 0
      BY <1>1, <1>3, <1>4 DEF TlsInv, TlsTypes
    <3> QED BY <1>1, <1>4, <2>1, <2>9, <3>1 DEF TlsInv, TlsTypes
  <2>14. Counting'
    <3>1. \A d \in 1 .. L : Cardinality(OutOf(d)') = Cardinality(OutOf(d)) BY <2>11
    <3>2. \A d, k \in Nat : <<d, k>> \in taken' => d \in 1 .. L /\ k \in 1 .. chunks'[d].Top
      BY <1>1, <2>1, <2>12 DEF TlsInv, Counting
    <3>3. \A d \in 1 .. L : ~chunks'[d].live => chunks'[d].FreeCnt = ChunkSize
      BY <2>1, <2>3, <2>5, <2>7, <2>9 DEF TlsInv, Counting
    <3> QED BY <2>1, <2>9, <2>12, <3>1, <3>2, <3>3 DEF TlsInv, Counting
  <2>15. Owning'
    <3>1. \A p \in Owners : pChunk[p] # 0 => pChunk[p] \in 1 .. L BY <2>1 DEF TlsInv, TlsTypes
    <3>2. \A p \in Owners : Searching(p) => pChunk[p] # 0 /\ ts'[p] = ts[p]
      BY <1>4 DEF TlsInv, TlsTypes, Searching
    <3>3. ASSUME NEW p \in Owners, ts'[p].at = "compare"
          PROVE  ts'[p].chunk \in 1 .. L /\ ts'[p].cnt <= chunks'[ts'[p].chunk].FreeCnt
      <4>1. ts'[p] = ts[p] BY <1>3, <1>4, <3>3
      <4>2. ts[p].chunk \in 1 .. L /\ ts[p].cnt <= chunks[ts[p].chunk].FreeCnt
        BY <2>1, <3>3, <4>1 DEF TlsInv, Owning
      <4> QED BY <2>12, <4>1, <4>2
    <3>4. \A p, q \in Owners : pChunk'[p] # 0 /\ pChunk'[p] = pChunk'[q] => p = q
      BY <1>1 DEF TlsInv, Owning
    <3>5. ASSUME NEW p \in Owners, Searching(p)
          PROVE  /\ ts'[p].chunk = pChunk'[p] /\ ts'[p].cnt = ChunkSize
                 /\ <<pChunk'[p], ChunkSize>> \notin taken'
                 /\ chunks'[pChunk'[p]].Top = ChunkSize
      BY <1>1, <2>12, <3>1, <3>2, <3>5 DEF TlsInv, Owning
    <3>6. ASSUME NEW p \in Owners, pChunk[p] # 0, ~Searching(p)
          PROVE  chunks'[pChunk'[p]].Top < ChunkSize
      BY <1>1, <2>12, <3>1, <3>6 DEF TlsInv, Owning
    <3> QED BY <1>1, <2>9, <2>10, <3>3, <3>4, <3>5, <3>6 DEF Owning
  <2> QED BY <2>13, <2>14, <2>15 DEF TlsInv
<1> QED BY <1>6, <1>7

LEMMA TlsStart == TlsInit => TlsInv
<1> SUFFICES ASSUME TlsInit PROVE TlsInv OBVIOUS
<1>1. /\ pTopNode = NoOwner /\ pNextNode = [o \in Owners |-> NoOwner]
      /\ pChunk = [o \in Owners |-> 0] /\ chunks = <<>> /\ taken = {}
      /\ ts = [o \in Owners |-> Resting]
  BY DEF TlsInit
<1>2. Resting \in TlsLocal /\ Resting.at = "out" BY DEF Resting, TlsLocal
<1>3. Len(chunks) = 0 /\ chunks \in Seq(ChunkRecord) BY <1>1
<1>4. \A o \in Owners : ts[o].at = "out" /\ pChunk[o] = 0 /\ ~Searching(o)
  BY <1>1, <1>2 DEF Searching
<1>5. TlsTypes BY <1>1, <1>2, <1>3, <1>4 DEF TlsTypes
<1>6. Counting BY <1>1, <1>3 DEF Counting
<1>7. Owning BY <1>4 DEF Owning
<1> QED BY <1>5, <1>6, <1>7 DEF TlsInv

LEMMA TlsStep ==
  ASSUME TlsInv, [TlsNext]_tlsVars
  PROVE  TlsInv'
<1>1. CASE UNCHANGED tlsVars
  <2>1. /\ pTopNode' = pTopNode /\ pNextNode' = pNextNode /\ pChunk' = pChunk
        /\ chunks' = chunks /\ taken' = taken /\ ts' = ts
    BY <1>1 DEF tlsVars
  <2>2. \A o : Searching(o)' <=> Searching(o) BY <2>1 DEF Searching
  <2>3. \A c : OutOf(c)' = OutOf(c) BY <2>1, <2>2 DEF OutOf
  <2>4. \A c : Cardinality(OutOf(c)') = Cardinality(OutOf(c)) BY <2>3
  <2>5. TlsTypes' BY <2>1 DEF TlsInv, TlsTypes
  <2>6. Counting' BY <2>1, <2>4 DEF TlsInv, Counting
  <2>7. Owning' BY <2>1, <2>2 DEF TlsInv, Owning
  <2> QED BY <2>5, <2>6, <2>7 DEF TlsInv
<1>2. CASE TlsNext
  <2>1. PICK o \in Owners : TlsAlloc(o) \/ TlsFree(o) BY <1>2 DEF TlsNext
  <2> QED BY <2>1, FirstAllocInv, LinkNodeInv, NextAllocInv, TakeBlockInv, SearchInv,
             SeekPastInv, ReplaceInv, CountFreedInv, FreeChunkInv, CompareFreedInv
          DEF TlsAlloc, TlsFree
<1> QED BY <1>1, <1>2

\* What a step does to the other threads and to the chunks, and where it can lead.
LEMMA TlsEffect ==
  ASSUME TlsInv, NEW o \in Owners, TlsAlloc(o) \/ TlsFree(o)
  PROVE  /\ freers' = freers /\ apart' = apart
         /\ \A p \in Owners \ {o} : ts'[p] = ts[p]
         /\ ~FreeChunk(o) => \A d \in 1 .. Len(chunks) : chunks'[d].live = chunks[d].live
         /\ ts'[o].at = "fault" => CompareFreed(o)
         /\ ts'[o].at = "compare" => CountFreed(o)
<1>0. ts \in [Owners -> TlsLocal] /\ chunks \in Seq(ChunkRecord) BY DEF TlsInv, TlsTypes
<1>1. CASE FirstAlloc(o)
  <2>1. \A d \in 1 .. Len(chunks) : chunks'[d] = chunks[d]
    BY <1>0, <1>1, ChunkAppended DEF FirstAlloc
  <2> QED BY <1>0, <1>1, <2>1 DEF FirstAlloc, Turns, Resting
<1>2. CASE LinkNode(o) BY <1>0, <1>2 DEF LinkNode, Turns, Resting
<1>3. CASE NextAlloc(o) BY <1>0, <1>3 DEF NextAlloc, Turns, Resting
<1>4. CASE TakeBlock(o)
  <2>1. ts[o].at = "take" BY <1>4 DEF TakeBlock, Turns
  <2>2. pChunk[o] # 0 BY <2>1 DEF TlsInv, TlsTypes
  <2>3. PICK c \in 1 .. Len(chunks) : c = pChunk[o] BY <2>2 DEF TlsInv, TlsTypes
  <2>4. chunks[c].live BY <2>2, <2>3, TlsKeepsChunk DEF OwnerKeepsChunk
  <2>5. ts'[o].at \in {"search", "out"} /\ \A p \in Owners \ {o} : ts'[p] = ts[p]
    <3>1. Turns(o, "take", IF chunks[c].Top + 1 = ChunkSize
                           THEN [Resting EXCEPT !.at = "search", !.chunk = c,
                                                !.cnt = chunks[c].Top + 1]
                           ELSE Resting)
      BY <1>4, <2>3, <2>4 DEF TakeBlock
    <3> QED BY <1>0, <3>1 DEF Turns, Resting
  <2>6. \A d \in 1 .. Len(chunks) : chunks'[d].live = chunks[d].live
    <3>1. chunks' = [chunks EXCEPT ![c].Top = chunks[c].Top + 1] BY <1>4, <2>3 DEF TakeBlock
    <3>2. chunks[c] \in ChunkRecord BY <1>0, <2>3
    <3> QED BY <1>0, <3>1, <3>2 DEF ChunkRecord
  <2> QED BY <1>4, <2>5, <2>6 DEF TakeBlock
<1>5. CASE Search(o) BY <1>0, <1>5 DEF Search, Turns, TlsLocal
<1>6. CASE SeekPast(o)
  <2>1. PICK new : /\ Turns(o, "seek", new)
                   /\ new = IF ts[o].node = NoOwner THEN [ts[o] EXCEPT !.at = "null"]
                            ELSE [ts[o] EXCEPT !.node = pNextNode[@]]
    BY <1>6 DEF SeekPast
  <2>2. ts[o] \in TlsLocal /\ ts[o].at = "seek" BY <1>0, <2>1 DEF Turns
  <2>3. new.at \in {"seek", "null"} BY <2>1, <2>2 DEF TlsLocal
  <2>4. ts'[o] = new /\ \A p \in Owners \ {o} : ts'[p] = ts[p] BY <1>0, <2>1 DEF Turns
  <2> QED BY <1>6, <2>3, <2>4 DEF SeekPast
<1>7. CASE Replace(o)
  <2>1. \A d \in 1 .. Len(chunks) : chunks'[d] = chunks[d]
    BY <1>0, <1>7, ChunkAppended DEF Replace
  <2> QED BY <1>0, <1>7, <2>1 DEF Replace, Turns, Resting
<1>8. CASE CountFreed(o)
  <2>1. ts'[o].at = "compare" BY <1>8, CountFreedInv
  <2>2. \A p \in Owners \ {o} : ts'[p] = ts[p] BY <1>0, <1>8 DEF CountFreed, Turns
  <2>3. PICK b \in taken : chunks' = [chunks EXCEPT ![b[1]].FreeCnt = @ + 1]
    BY <1>8 DEF CountFreed
  <2>4. ASSUME NEW d \in 1 .. Len(chunks) PROVE chunks'[d].live = chunks[d].live
    <3>1. chunks[d] \in ChunkRecord BY <1>0
    <3> QED BY <1>0, <2>3, <3>1 DEF ChunkRecord
  <2> QED BY <1>8, <2>1, <2>2, <2>4 DEF CountFreed
<1>9. CASE FreeChunk(o) BY <1>0, <1>9 DEF FreeChunk, Turns, Resting
<1>10. CASE CompareFreed(o) BY <1>0, <1>10 DEF CompareFreed, Turns, Resting
<1> QED BY <1>1, <1>2, <1>3, <1>4, <1>5, <1>6, <1>7, <1>8, <1>9, <1>10 DEF TlsAlloc, TlsFree

\* With one freer, nobody else can free the chunk that it is about to compare.
LoneInv ==
  LoneFreer => \A o \in Owners :
    ts[o].at # "fault" /\ (ts[o].at = "compare" => o \in freers /\ chunks[ts[o].chunk].live)

LEMMA LoneStart == TlsInit => LoneInv
BY DEF TlsInit, LoneInv, Resting

LEMMA LoneStep ==
  ASSUME TlsInv, LoneInv, [TlsNext]_tlsVars
  PROVE  LoneInv'
<1>1. CASE UNCHANGED tlsVars BY <1>1 DEF tlsVars, LoneInv, LoneFreer
<1>2. CASE TlsNext
  <2>1. PICK o \in Owners : TlsAlloc(o) \/ TlsFree(o) BY <1>2 DEF TlsNext
  <2>2. /\ freers' = freers
        /\ \A p \in Owners \ {o} : ts'[p] = ts[p]
        /\ ~FreeChunk(o) => \A d \in 1 .. Len(chunks) : chunks'[d].live = chunks[d].live
        /\ ts'[o].at = "fault" => CompareFreed(o)
        /\ ts'[o].at = "compare" => CountFreed(o)
    BY <2>1, TlsEffect
  <2> SUFFICES ASSUME LoneFreer
               PROVE  \A p \in Owners :
                        /\ ts'[p].at # "fault"
                        /\ ts'[p].at = "compare" => p \in freers /\ chunks'[ts'[p].chunk].live
    BY <2>2 DEF LoneInv, LoneFreer
  <2>3. ts'[o].at # "fault"
    <3>1. ASSUME CompareFreed(o) PROVE FALSE
      <4>1. ts[o].at = "compare" /\ ~chunks[ts[o].chunk].live
        BY <3>1 DEF CompareFreed, Turns
      <4> QED BY <4>1 DEF LoneInv
    <3> QED BY <2>2, <3>1
  <2>4. ts'[o].at = "compare" => o \in freers /\ chunks'[ts'[o].chunk].live
    <3>1. CountFreed(o) => o \in freers BY DEF CountFreed
    <3> QED BY <2>2, <3>1, CountFreedInv
  <2>5. ASSUME NEW p \in Owners, p # o
        PROVE  /\ ts'[p].at # "fault"
               /\ ts'[p].at = "compare" => p \in freers /\ chunks'[ts'[p].chunk].live
    <3>1. ts'[p] = ts[p] BY <2>2, <2>5
    <3>2. /\ ts[p].at # "fault"
          /\ ts[p].at = "compare" => p \in freers /\ chunks[ts[p].chunk].live
      BY DEF LoneInv
    <3>3. ASSUME ts[p].at = "compare" PROVE chunks'[ts[p].chunk].live
      <4>1. ts[p].chunk \in 1 .. Len(chunks) BY <3>3 DEF TlsInv, Owning
      <4>2. CASE ~FreeChunk(o) BY <2>2, <3>2, <3>3, <4>1, <4>2
      <4>3. CASE FreeChunk(o)
        <5>1. ts[o].at = "compare" BY <4>3 DEF FreeChunk, Turns
        <5>2. o \in freers /\ p \in freers BY <3>2, <3>3, <5>1 DEF LoneInv
        <5> QED BY <2>5, <5>2 DEF LoneFreer
      <4> QED BY <4>2, <4>3
    <3> QED BY <3>1, <3>2, <3>3
  <2> QED BY <2>3, <2>4, <2>5
<1> QED BY <1>1, <1>2

\* Whoever follows next from n comes past o.
Reaches(next, n, o) ==
  \A S \in SUBSET (Owners \cup {NoOwner}) :
    n \in S /\ (\A p \in S \cap Owners : next[p] \in S) => o \in S

\* As long as first Allocs do not overlap, every node that has been linked is reached from
\* the top, and the one a thread looks for from the one it looks at.
ApartInv ==
  apart =>
    /\ \A o, p \in Owners : ts[o].at = "linkNode" /\ ts[p].at = "linkNode" => o = p
    /\ \A o \in Owners :
         /\ ts[o].at = "linkNode" => pNextNode[o] = pTopNode
         /\ pChunk[o] = 0 => pNextNode[o] = NoOwner
         /\ pChunk[o] # 0 /\ ts[o].at # "linkNode" => Reaches(pNextNode, pTopNode, o)
         /\ ts[o].at = "seek" => Reaches(pNextNode, ts[o].node, o)
         /\ ts[o].at # "null"

\* A new node that nothing points to takes nobody out of reach.
LEMMA ReachesPastNew ==
  ASSUME NEW next \in [Owners -> Owners \cup {NoOwner}], NEW n \in Owners \cup {NoOwner},
         NEW o \in Owners, NEW top \in Owners \cup {NoOwner}, NEW new \in Owners,
         next[new] = NoOwner, o # new, Reaches(next, n, o)
  PROVE  Reaches([next EXCEPT ![new] = top], n, o)
<1> SUFFICES ASSUME NEW S \in SUBSET (Owners \cup {NoOwner}), n \in S,
                    \A p \in S \cap Owners : [next EXCEPT ![new] = top][p] \in S
             PROVE  o \in S
  BY DEF Reaches
<1>1. PICK T : T = S \cup {new, NoOwner} OBVIOUS
<1>2. T \in SUBSET (Owners \cup {NoOwner}) /\ n \in T BY <1>1
<1>3. ASSUME NEW p \in T \cap Owners PROVE next[p] \in T
  <2>1. CASE p = new BY <1>1, <2>1
  <2>2. CASE p # new
    <3>1. p \in S \cap Owners BY <1>1, <1>3, <2>2, NoOwnerIsNone
    <3> QED BY <1>1, <2>2, <3>1
  <2> QED BY <2>1, <2>2
<1>4. o \in T BY <1>2, <1>3 DEF Reaches
<1> QED BY <1>1, <1>4, NoOwnerIsNone

LEMMA ReachesOn ==
  ASSUME NEW next \in [Owners -> Owners \cup {NoOwner}], NEW n \in Owners, NEW o \in Owners,
         n # o, Reaches(next, n, o)
  PROVE  Reaches(next, next[n], o)
<1> SUFFICES ASSUME NEW S \in SUBSET (Owners \cup {NoOwner}), next[n] \in S,
                    \A p \in S \cap Owners : next[p] \in S
             PROVE  o \in S
  BY DEF Reaches
<1>1. PICK T : T = S \cup {n} OBVIOUS
<1>2. T \in SUBSET (Owners \cup {NoOwner}) /\ n \in T BY <1>1
<1>3. \A p \in T \cap Owners : next[p] \in T BY <1>1
<1>4. o \in T BY <1>2, <1>3 DEF Reaches
<1> QED BY <1>1, <1>4

LEMMA ReachesFromNone ==
  ASSUME NEW next, NEW o \in Owners, Reaches(next, NoOwner, o)
  PROVE  FALSE
<1>1. PICK S : S = {NoOwner} OBVIOUS
<1>2. S \in SUBSET (Owners \cup {NoOwner}) /\ S \cap Owners = {} BY <1>1, NoOwnerIsNone
<1>3. o \in S BY <1>1, <1>2 DEF Reaches
<1> QED BY <1>1, <1>3, NoOwnerIsNone

LEMMA ReachesFromAbove ==
  ASSUME NEW next, NEW n \in Owners, NEW o \in Owners,
         Reaches(next, next[n], o)
  PROVE  Reaches(next, n, o)
BY DEF Reaches

LEMMA ReachesItself ==
  ASSUME NEW next, NEW o
  PROVE  Reaches(next, o, o)
BY DEF Reaches

LEMMA ApartStart == TlsInit => ApartInv
BY DEF TlsInit, ApartInv, Resting

\* A step that neither links a node nor looks for one.
LEMMA ApartQuiet ==
  ASSUME TlsInv, ApartInv, NEW o \in Owners, UNCHANGED <<apart, pTopNode, pNextNode>>,
         \A p \in Owners \ {o} : ts'[p] = ts[p],
         ts[o].at # "linkNode", ts'[o].at \notin {"linkNode", "seek", "null"},
         \A p \in Owners : pChunk'[p] = 0 <=> pChunk[p] = 0
  PROVE  ApartInv'
<1> SUFFICES ASSUME apart
             PROVE  /\ \A q, p \in Owners : ts'[q].at = "linkNode" /\ ts'[p].at = "linkNode" => q = p
                    /\ \A p \in Owners :
                         /\ ts'[p].at = "linkNode" => pNextNode[p] = pTopNode
                         /\ pChunk'[p] = 0 => pNextNode[p] = NoOwner
                         /\ pChunk'[p] # 0 /\ ts'[p].at # "linkNode" =>
                              Reaches(pNextNode, pTopNode, p)
                         /\ ts'[p].at = "seek" => Reaches(pNextNode, ts'[p].node, p)
                         /\ ts'[p].at # "null"
  BY DEF ApartInv
<1>1. \A p \in Owners :
        \/ ts'[p] = ts[p]
        \/ ts[p].at # "linkNode" /\ ts'[p].at \notin {"linkNode", "seek", "null"}
  OBVIOUS
<1> QED BY <1>1 DEF ApartInv

LEMMA ApartStep ==
  ASSUME TlsInv, ApartInv, [TlsNext]_tlsVars
  PROVE  ApartInv'
<1>1. CASE UNCHANGED tlsVars BY <1>1 DEF tlsVars, ApartInv
<1>2. CASE TlsNext
  <2>1. PICK o \in Owners : TlsAlloc(o) \/ TlsFree(o) BY <1>2 DEF TlsNext
  <2>2. apart' = apart /\ \A p \in Owners \ {o} : ts'[p] = ts[p] BY <2>1, TlsEffect
  <2>3. /\ ts \in [Owners -> TlsLocal] /\ pNextNode \in [Owners -> Owners \cup {NoOwner}]
        /\ pTopNode \in Owners \cup {NoOwner} /\ pChunk \in [Owners -> Nat]
        /\ \A p \in Owners : ts[p].at \in {"linkNode", "take", "search", "seek", "null"} =>
             pChunk[p] # 0
    BY DEF TlsInv, TlsTypes
  <2>4. CASE FirstAlloc(o)
    <3>1. PICK next : next = [pNextNode EXCEPT ![o] = pTopNode] OBVIOUS
    <3>2. /\ pTopNode' = pTopNode /\ pNextNode' = next
          /\ pChunk[o] = 0 /\ ts[o].at = "out" /\ ts'[o].at = "linkNode"
          /\ apart => \A p \in Owners : ts[p].at # "linkNode"
      BY <2>3, <2>4, <3>1 DEF FirstAlloc, Turns, Resting
    <3>3. \A p \in Owners \ {o} : pChunk'[p] = pChunk[p] BY <2>3, <2>4 DEF FirstAlloc
    <3>4. pChunk'[o] # 0
      <4>1. chunks' = Append(chunks, NewChunk) /\ pChunk' = [pChunk EXCEPT ![o] = Len(chunks')]
        BY <2>4 DEF FirstAlloc
      <4>2. Len(chunks') # 0 BY <4>1, ChunkAppended DEF TlsInv, TlsTypes
      <4> QED BY <2>3, <4>1, <4>2
    <3> SUFFICES ASSUME apart
                 PROVE  /\ \A q, p \in Owners : ts'[q].at = "linkNode" /\ ts'[p].at = "linkNode" => q = p
                        /\ \A p \in Owners :
                             /\ ts'[p].at = "linkNode" => next[p] = pTopNode
                             /\ pChunk'[p] = 0 => next[p] = NoOwner
                             /\ pChunk'[p] # 0 /\ ts'[p].at # "linkNode" =>
                                  Reaches(next, pTopNode, p)
                             /\ ts'[p].at = "seek" => Reaches(next, ts'[p].node, p)
                             /\ ts'[p].at # "null"
      BY <2>2, <3>2 DEF ApartInv
    <3>5. \A q, p \in Owners : ts'[q].at = "linkNode" /\ ts'[p].at = "linkNode" => q = p
      BY <2>2, <3>2
    <3>6. pNextNode[o] = NoOwner BY <3>2 DEF ApartInv
    <3>7. /\ next[o] = pTopNode /\ \A p \in Owners \ {o} : next[p] = pNextNode[p]
      BY <2>3, <3>1
    <3>8. ASSUME NEW p \in Owners, p # o
          PROVE  /\ ts'[p].at # "linkNode" /\ (pChunk'[p] = 0 => next[p] = NoOwner)
                 /\ pChunk'[p] # 0 => Reaches(next, pTopNode, p)
                 /\ ts'[p].at = "seek" => Reaches(next, ts'[p].node, p)
                 /\ ts'[p].at # "null"
      <4>1. ts'[p] = ts[p] /\ pChunk'[p] = pChunk[p] /\ ts[p].at # "linkNode"
        BY <2>2, <3>2, <3>3, <3>8
      <4>2. pChunk[p] # 0 => Reaches(next, pTopNode, p)
        BY <2>3, <3>1, <3>6, <3>8, <4>1, ReachesPastNew DEF ApartInv
      <4>3. ts[p].at = "seek" => Reaches(next, ts[p].node, p)
        <5>1. ts[p].node \in Owners \cup {NoOwner} BY <2>3 DEF TlsLocal
        <5> QED BY <2>3, <3>1, <3>6, <3>8, <5>1, ReachesPastNew DEF ApartInv
      <4> QED BY <3>7, <3>8, <4>1, <4>2, <4>3 DEF ApartInv
    <3>9. ts'[o].at = "linkNode" /\ next[o] = pTopNode /\ pChunk'[o] # 0
      BY <3>2, <3>4, <3>7
    <3> QED BY <3>5, <3>8, <3>9
  <2>5. CASE LinkNode(o)
    <3>1. /\ pTopNode' = o /\ pNextNode' = pNextNode /\ pChunk' = pChunk
          /\ ts[o].at = "linkNode" /\ ts'[o].at = "take"
      BY <2>3, <2>5 DEF LinkNode, Turns, Resting
    <3> SUFFICES ASSUME apart
                 PROVE  \A p \in Owners :
                          /\ ts'[p].at # "linkNode"
                          /\ pChunk[p] = 0 => pNextNode[p] = NoOwner
                          /\ pChunk[p] # 0 => Reaches(pNextNode, o, p)
                          /\ ts'[p].at = "seek" => Reaches(pNextNode, ts'[p].node, p)
                          /\ ts'[p].at # "null"
      BY <2>2, <3>1 DEF ApartInv
    <3>2. pNextNode[o] = pTopNode BY <3>1 DEF ApartInv
    <3>3. ASSUME NEW p \in Owners, p # o
          PROVE  /\ ts'[p] = ts[p] /\ ts[p].at # "linkNode" /\ ts[p].at # "null"
                 /\ pChunk[p] = 0 => pNextNode[p] = NoOwner
                 /\ pChunk[p] # 0 => Reaches(pNextNode, pTopNode, p)
                 /\ ts[p].at = "seek" => Reaches(pNextNode, ts[p].node, p)
      BY <2>2, <3>1, <3>3 DEF ApartInv
    <3>4. \A p \in Owners : p # o /\ pChunk[p] # 0 => Reaches(pNextNode, o, p)
      BY <3>2, <3>3, ReachesFromAbove
    <3>5. Reaches(pNextNode, o, o) BY ReachesItself
    <3>6. pChunk[o] = 0 => pNextNode[o] = NoOwner BY DEF ApartInv
    <3> QED BY <3>1, <3>3, <3>4, <3>5, <3>6
  <2>6. CASE Search(o)
    <3>1. /\ pTopNode' = pTopNode /\ pNextNode' = pNextNode /\ pChunk' = pChunk
          /\ ts[o].at = "search" /\ ts'[o].at = "seek" /\ ts'[o].node = pTopNode
      BY <2>3, <2>6 DEF Search, Turns, TlsLocal
    <3> SUFFICES ASSUME apart PROVE ApartInv' BY <2>2 DEF ApartInv
    <3>2. Reaches(pNextNode, pTopNode, o) BY <2>3, <3>1 DEF ApartInv
    <3> QED BY <2>2, <3>1, <3>2 DEF ApartInv
  <2>7. CASE SeekPast(o)
    <3>1. /\ pTopNode' = pTopNode /\ pNextNode' = pNextNode /\ pChunk' = pChunk
          /\ ts[o].at = "seek" /\ ts[o].node # o
      BY <2>3, <2>7 DEF SeekPast, Turns
    <3> SUFFICES ASSUME apart PROVE ApartInv' BY <2>2 DEF ApartInv
    <3>2. Reaches(pNextNode, ts[o].node, o) BY <3>1 DEF ApartInv
    <3>3. ts[o].node # NoOwner BY <3>2, ReachesFromNone
    <3>4. ts[o] \in TlsLocal /\ ts[o].node \in Owners BY <2>3, <3>3 DEF TlsLocal
    <3>5. ts'[o].at = "seek" /\ ts'[o].node = pNextNode[ts[o].node]
      <4>1. Turns(o, "seek", [ts[o] EXCEPT !.node = pNextNode[ts[o].node]])
        BY <2>7, <3>3 DEF SeekPast
      <4> QED BY <2>3, <3>1, <3>4, <4>1 DEF Turns, TlsLocal
    <3>6. Reaches(pNextNode, ts'[o].node, o) BY <2>3, <3>1, <3>2, <3>4, <3>5, ReachesOn
    <3> QED BY <2>2, <3>1, <3>5, <3>6 DEF ApartInv
  <2>8. CASE NextAlloc(o)
    <3>1. /\ UNCHANGED <<apart, pTopNode, pNextNode>> /\ pChunk' = pChunk
          /\ ts[o].at = "out" /\ ts'[o].at = "take"
      BY <2>3, <2>8 DEF NextAlloc, Turns, Resting
    <3> QED BY <2>2, <3>1, ApartQuiet
  <2>9. CASE TakeBlock(o)
    <3>1. /\ UNCHANGED <<apart, pTopNode, pNextNode>> /\ pChunk' = pChunk /\ ts[o].at = "take"
      BY <2>3, <2>9 DEF TakeBlock, Turns
    <3>2. ts'[o].at \in {"search", "out", "fault"}
      <4>1. PICK c, n, new :
              /\ Turns(o, "take", new)
              /\ new = IF ~chunks[c].live THEN [Resting EXCEPT !.at = "fault"]
                       ELSE IF n = ChunkSize
                            THEN [Resting EXCEPT !.at = "search", !.chunk = c, !.cnt = n]
                            ELSE Resting
        BY <2>9 DEF TakeBlock
      <4>2. new.at \in {"search", "out", "fault"} BY <4>1 DEF Resting
      <4> QED BY <2>3, <4>1, <4>2 DEF Turns
    <3> QED BY <2>2, <3>1, <3>2, ApartQuiet
  <2>10. CASE Replace(o)
    <3>1. /\ UNCHANGED <<apart, pTopNode, pNextNode>>
          /\ ts[o].at = "seek" /\ ts'[o].at = "out"
      BY <2>3, <2>10 DEF Replace, Turns, Resting
    <3>2. \A p \in Owners : pChunk'[p] = 0 <=> pChunk[p] = 0
      <4>1. chunks' = Append(chunks, NewChunk) /\ pChunk' = [pChunk EXCEPT ![o] = Len(chunks')]
        BY <2>10 DEF Replace
      <4>2. Len(chunks') # 0 BY <4>1, ChunkAppended DEF TlsInv, TlsTypes
      <4>3. pChunk[o] # 0 BY <2>3, <3>1
      <4> QED BY <2>3, <4>1, <4>2, <4>3
    <3> QED BY <2>2, <3>1, <3>2, ApartQuiet
  <2>11. CASE CountFreed(o)
    <3>1. UNCHANGED <<apart, pTopNode, pNextNode>> /\ pChunk' = pChunk /\ ts[o].at = "out"
      BY <2>11 DEF CountFreed, Turns
    <3>2. ts'[o].at = "compare" BY <2>11, CountFreedInv
    <3> QED BY <2>2, <3>1, <3>2, ApartQuiet
  <2>12. CASE FreeChunk(o)
    <3>1. /\ UNCHANGED <<apart, pTopNode, pNextNode>> /\ pChunk' = pChunk
          /\ ts[o].at = "compare" /\ ts'[o].at = "out"
      BY <2>3, <2>12 DEF FreeChunk, Turns, Resting
    <3> QED BY <2>2, <3>1, ApartQuiet
  <2>13. CASE CompareFreed(o)
    <3>1. /\ UNCHANGED <<apart, pTopNode, pNextNode>> /\ pChunk' = pChunk
          /\ ts[o].at = "compare" /\ ts'[o].at \in {"out", "fault"}
      BY <2>3, <2>13 DEF CompareFreed, Turns, Resting
    <3> QED BY <2>2, <3>1, ApartQuiet
  <2> QED BY <2>1, <2>4, <2>5, <2>6, <2>7, <2>8, <2>9, <2>10, <2>11, <2>12, <2>13
          DEF TlsAlloc, TlsFree
<1> QED BY <1>1, <1>2

LEMMA TlsInvariance == TlsSpec => [](TlsInv /\ LoneInv /\ ApartInv)
<1>1. TlsInit => TlsInv /\ LoneInv /\ ApartInv BY TlsStart, LoneStart, ApartStart
<1>2. (TlsInv /\ LoneInv /\ ApartInv) /\ [TlsNext]_tlsVars => (TlsInv /\ LoneInv /\ ApartInv)'
  BY TlsStep, LoneStep, ApartStep
<1> QED BY <1>1, <1>2, PTL DEF TlsSpec

\* The chunk that a thread takes blocks from is never freed, with any number of threads
\* giving blocks back: a chunk has given as many blocks as are out and have come back, and
\* the owner keeps the last one until it has another chunk (CMemoryPool_TLS::Alloc).
THEOREM OwnersKeepTheirChunks == TlsSpec => []OwnerKeepsChunk
BY TlsInvariance, TlsKeepsChunk, PTL

\* With one thread that gives blocks back no chunk is freed twice (CMemoryPool_TLS::Free).
THEOREM OneFreerIsSafe == TlsSpec => []LoneFreerSafe
<1>1. LoneInv => LoneFreerSafe BY DEF LoneInv, LoneFreerSafe
<1> QED BY <1>1, TlsInvariance, PTL

\* When first Allocs do not overlap, Chunk_Alloc finds the node of its thread before the
\* end of the list: the list is only extended at its top, where the commented-out lock
\* would have stood.
THEOREM ApartAllocsAreSafe == TlsSpec => []ApartSafe
<1>1. ApartInv => ApartSafe BY DEF ApartInv, ApartSafe
<1> QED BY <1>1, TlsInvariance, PTL

-----------------------------------------------------------------------------
(* CRingbuffer *)

\* A position past the end of the array is one at its start.
Wrap(x) == IF x < BufferSize THEN x ELSE x - BufferSize

\* A receive that is outstanding was offered what there is room for now.
RingInv ==
  /\ RingTypeOK
  /\ offer = NoOffer
     \/ offer = <<GetNotBrokenPutSize,
                  IF GetFreeSize > GetNotBrokenPutSize
                  THEN GetFreeSize - GetNotBrokenPutSize ELSE 0>>

LEMMA WrapIsMod ==
  ASSUME NEW x \in Nat, x < 2 * BufferSize
  PROVE  x % BufferSize = Wrap(x) /\ Wrap(x) \in 0 .. BufferSize - 1
<1>1. PICK m \in Nat \ {0} : m = BufferSize BY BufferSizeAssumption
<1>2. CASE x < m
  <2>1. x \in 0 .. m - 1 BY <1>2
  <2>2. x % m = x BY <2>1, SmallMod
  <2> QED BY <1>1, <1>2, <2>1, <2>2 DEF Wrap
<1>3. CASE x >= m
  <2>1. PICK y \in Nat : y = x - m BY <1>3
  <2>2. x = y + m /\ y \in 0 .. m - 1 BY <1>1, <1>3, <2>1
  <2>3. y % m = y BY <2>2, SmallMod
  <2>4. (y + m) % m = y % m BY ModPlus
  <2> QED BY <1>1, <1>3, <2>1, <2>2, <2>3, <2>4 DEF Wrap
<1> QED BY <1>1, <1>2, <1>3

LEMMA PieceFacts ==
  ASSUME NEW s \in Seq(Bytes), NEW a \in Nat, NEW n \in Nat, n <= Len(s)
  PROVE  /\ SubSeq(s, a + 1, n) \in Seq(Bytes)
         /\ Len(SubSeq(s, a + 1, n)) = IF a <= n THEN n - a ELSE 0
         /\ \A i \in 1 .. Len(SubSeq(s, a + 1, n)) : SubSeq(s, a + 1, n)[i] = s[a + i]
OBVIOUS

LEMMA CopyInFacts ==
  ASSUME NEW array \in [0 .. BufferSize - 1 -> Bytes], NEW at \in Nat, NEW t \in Seq(Bytes),
         at + Len(t) <= BufferSize
  PROVE  /\ CopyIn(array, at, t) \in [0 .. BufferSize - 1 -> Bytes]
         /\ \A i \in 1 .. Len(t) : CopyIn(array, at, t)[at + i - 1] = t[i]
         /\ \A p \in 0 .. BufferSize - 1 : p < at \/ p >= at + Len(t) =>
              CopyIn(array, at, t)[p] = array[p]
<1>1. PICK n \in Nat, B \in Nat : n = Len(t) /\ B = BufferSize BY BufferSizeAssumption
<1>2. DOMAIN array \cup at .. at + n - 1 = 0 .. B - 1 BY <1>1
<1>3. CopyIn(array, at, t) = [p \in 0 .. B - 1 |->
                                IF p \in at .. at + n - 1 THEN t[p - at + 1] ELSE array[p]]
  BY <1>1, <1>2 DEF CopyIn
<1>4. \A p \in at .. at + n - 1 : p - at + 1 \in 1 .. n BY <1>1
<1>5. \A p \in at .. at + n - 1 : t[p - at + 1] \in Bytes BY <1>1, <1>4
<1>6. \A i \in 1 .. n : at + i - 1 \in at .. at + n - 1 /\ at + i - 1 \in 0 .. B - 1
                        /\ (at + i - 1) - at + 1 = i
  BY <1>1
<1>7. \A p \in 0 .. B - 1 : array[p] \in Bytes BY <1>1
<1> QED BY <1>1, <1>3, <1>5, <1>6, <1>7

LEMMA JoinFacts ==
  ASSUME NEW a \in Seq(Bytes), NEW b \in Seq(Bytes)
  PROVE  /\ a \o b \in Seq(Bytes) /\ Len(a \o b) = Len(a) + Len(b)
         /\ Len(a) \in Nat /\ Len(b) \in Nat
         /\ \A i \in 1 .. Len(a) : (a \o b)[i] = a[i]
         /\ \A i \in 1 .. Len(b) : (a \o b)[Len(a) + i] = b[i]
OBVIOUS

LEMMA SameBytes ==
  ASSUME NEW a \in Seq(Bytes), NEW b \in Seq(Bytes), Len(a) = Len(b),
         \A i \in 1 .. Len(a) : a[i] = b[i]
  PROVE  a = b
<1>1. PICK n \in Nat : n = Len(a) OBVIOUS
<1>2. a = [i \in 1 .. n |-> a[i]] /\ b = [i \in 1 .. n |-> b[i]] BY <1>1
<1> QED BY <1>1, <1>2

\* The sizes: what is used and what is free make up the array but for one place.
LEMMA RingSizes ==
  ASSUME Front \in 0 .. BufferSize - 1, Rear \in 0 .. BufferSize - 1
  PROVE  /\ GetUseSize \in 0 .. BufferSize - 1 /\ GetFreeSize = BufferSize - 1 - GetUseSize
         /\ Rear = Wrap(Front + GetUseSize)
         /\ GetNotBrokenPutSize \in 0 .. BufferSize - Rear
         /\ GetFreeSize \in 0 .. BufferSize - 1
         /\ GetNotBrokenGetSize \in 0 .. BufferSize - Front
BY BufferSizeAssumption DEF GetUseSize, GetFreeSize, Wrap, GetNotBrokenPutSize, GetNotBrokenGetSize

\* The array from f on, as a sequence.
LEMMA UnwrapFacts ==
  ASSUME NEW buf \in [0 .. BufferSize - 1 -> Bytes], NEW f \in 0 .. BufferSize - 1,
         NEW v \in 0 .. BufferSize - 1
  PROVE  /\ [i \in 1 .. v |-> buf[(f + i - 1) % BufferSize]] \in Seq(Bytes)
         /\ Len([i \in 1 .. v |-> buf[(f + i - 1) % BufferSize]]) = v
         /\ \A j \in 1 .. v :
              [i \in 1 .. v |-> buf[(f + i - 1) % BufferSize]][j] = buf[Wrap(f + j - 1)]
<1>1. PICK U \in Nat, F \in Nat, B \in Nat : U = v /\ F = f /\ B = BufferSize /\ U < B /\ F < B
  BY BufferSizeAssumption
<1>2. \A i \in 1 .. U : F + i - 1 \in Nat /\ F + i - 1 < 2 * B BY <1>1
<1>3. \A i \in 1 .. U : (F + i - 1) % B = Wrap(F + i - 1) /\ Wrap(F + i - 1) \in 0 .. B - 1
  BY <1>1, <1>2, WrapIsMod
<1>4. PICK c : c = [i \in 1 .. v |-> buf[(f + i - 1) % BufferSize]] OBVIOUS
<1>5. c = [i \in 1 .. U |-> buf[(F + i - 1) % B]] BY <1>1, <1>4
<1>6. \A i \in 1 .. U : buf[(F + i - 1) % B] \in Bytes BY <1>1, <1>3
<1>7. c \in [1 .. U -> Bytes] BY <1>5, <1>6
<1>8. \A g \in [1 .. U -> Bytes] : g \in Seq(Bytes) /\ Len(g) = U BY <1>1
<1> QED BY <1>1, <1>3, <1>4, <1>5, <1>7, <1>8

LEMMA ContentsFacts ==
  ASSUME RingTypeOK
  PROVE  /\ Contents \in Seq(Bytes) /\ Len(Contents) = GetUseSize
         /\ \A i \in 1 .. GetUseSize : Contents[i] = pBuffer[Wrap(Front + i - 1)]
<1>1. /\ GetUseSize \in 0 .. BufferSize - 1 /\ pBuffer \in [0 .. BufferSize - 1 -> Bytes]
      /\ Front \in 0 .. BufferSize - 1
  BY RingSizes DEF RingTypeOK
<1>2. PICK v \in 0 .. BufferSize - 1 : v = GetUseSize BY <1>1
<1>3. Contents = [i \in 1 .. v |-> pBuffer[(Front + i - 1) % BufferSize]]
  BY <1>2 DEF Contents
<1> QED BY <1>1, <1>2, <1>3, UnwrapFacts

\* Bytes written from Rear on, of which n are taken over, are added to the contents.
LEMMA WriteStep ==
  ASSUME RingTypeOK, RingTypeOK',
         NEW s \in Seq(Bytes), NEW a \in Nat, NEW u \in Seq(Bytes), NEW n \in Nat,
         NEW at \in 0 .. BufferSize - 1,
         a + Len(u) <= Len(s), Rear + a <= BufferSize, n <= a + Len(u),
         a + Len(u) <= BufferSize - GetUseSize, n <= GetFreeSize,
         Len(u) > 0 => at = 0 /\ Rear + a = BufferSize,
         \A i \in 1 .. Len(u) : u[i] = s[a + i],
         pBuffer' = CopyIn(CopyIn(pBuffer, Rear, SubSeq(s, 1, a)), at, u),
         Front' = Front, Rear' = Wrap(Rear + n)
  PROVE  Contents' = Contents \o SubSeq(s, 1, n)
<1>1. PICK B \in Nat, F \in Nat, R \in Nat, U \in Nat, b \in Nat :
        /\ B = BufferSize /\ F = Front /\ R = Rear /\ U = GetUseSize /\ b = Len(u)
        /\ F < B /\ R < B /\ U < B /\ R = Wrap(F + U)
        /\ GetFreeSize = B - 1 - U
  <2>1. GetUseSize \in 0 .. BufferSize - 1 BY RingSizes DEF RingTypeOK
  <2>2. Front \in Nat /\ Rear \in Nat /\ Front < BufferSize /\ Rear < BufferSize /\ Len(u) \in Nat
    BY BufferSizeAssumption DEF RingTypeOK
  <2>3. Rear = Wrap(Front + GetUseSize) /\ GetFreeSize = BufferSize - 1 - GetUseSize
    BY RingSizes DEF RingTypeOK
  <2>4. BufferSize \in Nat /\ GetUseSize \in Nat /\ GetUseSize < BufferSize
    BY <2>1, BufferSizeAssumption
  <2> QED BY <2>2, <2>3, <2>4
<1>2. /\ R + a <= B /\ n <= a + b /\ a + b <= B - U /\ n <= B - 1 - U
      /\ b > 0 => R + a = B
  BY <1>1
<1>20. /\ B \in Nat /\ F \in Nat /\ R \in Nat /\ U \in Nat /\ b \in Nat /\ a \in Nat /\ n \in Nat
       /\ F < B /\ R < B /\ U < B
  BY <1>1
<1>3. b <= R BY <1>1, <1>2 DEF Wrap
<1>4. PICK t : t = SubSeq(s, 1, a) OBVIOUS
<1>5. t \in Seq(Bytes) /\ Len(t) = a /\ \A i \in 1 .. a : t[i] = s[i]
  <2>1. a <= Len(s) /\ 0 \in Nat BY <1>1
  <2>2. /\ SubSeq(s, 0 + 1, a) \in Seq(Bytes) /\ Len(SubSeq(s, 0 + 1, a)) = a
        /\ \A i \in 1 .. a : SubSeq(s, 0 + 1, a)[i] = s[0 + i]
    BY <2>1, PieceFacts
  <2> QED BY <1>4, <2>2
<1>21. PICK one : one = CopyIn(pBuffer, R, t) OBVIOUS
<1>6. PICK new : new = CopyIn(one, at, u) OBVIOUS
<1>22. PICK z \in Nat : z = at /\ z < B /\ (b > 0 => z = 0)
  BY <1>1, <1>20
<1>7. /\ \A k \in 1 .. a : new[R + k - 1] = t[k]
      /\ \A k \in 1 .. b : new[k - 1] = u[k]
      /\ \A p \in 0 .. B - 1 : (p < R \/ p >= R + a) /\ p >= b => new[p] = pBuffer[p]
  <2>1. /\ one \in [0 .. BufferSize - 1 -> Bytes]
        /\ \A k \in 1 .. a : one[R + k - 1] = t[k]
        /\ \A p \in 0 .. B - 1 : p < R \/ p >= R + a => one[p] = pBuffer[p]
    <3>1. pBuffer \in [0 .. BufferSize - 1 -> Bytes] /\ R + Len(t) <= BufferSize
      BY <1>1, <1>2, <1>5 DEF RingTypeOK
    <3>2. /\ CopyIn(pBuffer, R, t) \in [0 .. BufferSize - 1 -> Bytes]
          /\ \A k \in 1 .. Len(t) : CopyIn(pBuffer, R, t)[R + k - 1] = t[k]
          /\ \A p \in 0 .. BufferSize - 1 : p < R \/ p >= R + Len(t) =>
               CopyIn(pBuffer, R, t)[p] = pBuffer[p]
      BY <1>5, <1>20, <3>1, CopyInFacts
    <3> QED BY <1>1, <1>5, <1>21, <3>2
  <2>2. z + b <= B BY ONLY <1>3, <1>20, <1>22
  <2>3. /\ \A k \in 1 .. b : new[z + k - 1] = u[k]
        /\ \A p \in 0 .. B - 1 : p < z \/ p >= z + b => new[p] = one[p]
    <3>1. z + Len(u) <= BufferSize /\ z \in Nat BY <1>1, <1>22, <2>2
    <3>2. /\ CopyIn(one, z, u) \in [0 .. BufferSize - 1 -> Bytes]
          /\ \A k \in 1 .. Len(u) : CopyIn(one, z, u)[z + k - 1] = u[k]
          /\ \A p \in 0 .. BufferSize - 1 : p < z \/ p >= z + Len(u) =>
               CopyIn(one, z, u)[p] = one[p]
      BY <2>1, <3>1, CopyInFacts
    <3> QED BY <1>1, <1>6, <1>22, <3>2
  <2>4. ASSUME NEW p \in 0 .. B - 1, p >= b PROVE new[p] = one[p]
    <3>1. p < z \/ p >= z + b BY ONLY <1>20, <1>22, <2>4, p \in 0 .. B - 1, z \in Nat
    <3> QED BY <2>3, <3>1
  <2>5. ASSUME NEW k \in 1 .. a PROVE new[R + k - 1] = t[k]
    <3>1. R + k - 1 \in 0 .. B - 1 /\ R + k - 1 >= b
      BY ONLY <1>2, <1>3, <1>20, k \in 1 .. a
    <3> QED BY <2>1, <2>4, <3>1
  <2>6. ASSUME NEW k \in 1 .. b PROVE new[k - 1] = u[k]
    <3>1. z = 0 /\ z + k - 1 = k - 1 BY <1>20, <1>22
    <3> QED BY <2>3, <3>1
  <2> QED BY <2>1, <2>4, <2>5, <2>6
<1>8. pBuffer' = new BY <1>1, <1>4, <1>6, <1>21
<1>9. GetUseSize' = U + n /\ Front' = F
  <2>1. Rear' = IF R + n < B THEN R + n ELSE R + n - B BY <1>1 DEF Wrap
  <2>2. R = IF F + U < B THEN F + U ELSE F + U - B BY <1>1 DEF Wrap
  <2>3. PICK R2 \in Nat : R2 = Rear' BY <1>1, <2>1
  <2>4. GetUseSize' = IF R2 >= F THEN R2 - F ELSE B - F + R2 BY <1>1, <2>3 DEF GetUseSize
  <2>5. R2 \in Nat /\ U + n < B /\ R2 = IF R + n < B THEN R + n ELSE R + n - B BY <1>1, <1>2, <2>1, <2>3
  <2>6. (IF R2 >= F THEN R2 - F ELSE B - F + R2) = U + n
    <3>1. CASE F + U < B /\ R + n < B
      <4>1. R2 = F + U + n /\ R2 >= F BY ONLY <1>20, <2>2, <2>5, <3>1
      <4> QED BY ONLY <1>20, <4>1
    <3>2. CASE F + U < B /\ R + n >= B
      <4>1. R2 = F + U + n - B /\ R2 < F BY ONLY <1>20, <2>2, <2>5, <3>2
      <4> QED BY ONLY <1>20, <4>1
    <3>3. CASE F + U >= B
      <4>1. R = F + U - B /\ R + n < B BY ONLY <1>20, <2>2, <2>5, <3>3
      <4>2. R2 = F + U + n - B /\ R2 < F BY ONLY <1>20, <2>5, <4>1
      <4> QED BY ONLY <1>20, <4>2
    <3>4. (F + U < B /\ R + n < B) \/ (F + U < B /\ R + n >= B) \/ F + U >= B BY ONLY <1>20
    <3> QED BY <3>1, <3>2, <3>3, <3>4
  <2> QED BY <1>1, <2>4, <2>6
<1>10. PICK c : c = Contents' OBVIOUS
<1>11. c \in Seq(Bytes) /\ Len(c) = U + n /\ \A i \in 1 .. U + n : c[i] = new[Wrap(F + i - 1)]
  <2>1. /\ Contents' \in Seq(Bytes) /\ Len(Contents') = GetUseSize'
        /\ \A i \in 1 .. GetUseSize' : Contents'[i] = pBuffer'[Wrap(Front' + i - 1)]
    <3>1. PICK buf \in [0 .. BufferSize - 1 -> Bytes], f \in 0 .. BufferSize - 1,
               v \in 0 .. BufferSize - 1 :
            buf = pBuffer' /\ f = Front' /\ v = GetUseSize'
      <4>1. U + n \in 0 .. BufferSize - 1 BY <1>1, <1>2
      <4> QED BY <1>9, <4>1 DEF RingTypeOK
    <3>2. Contents' = [i \in 1 .. v |-> buf[(f + i - 1) % BufferSize]]
      BY <3>1 DEF Contents
    <3>3. /\ [i \in 1 .. v |-> buf[(f + i - 1) % BufferSize]] \in Seq(Bytes)
          /\ Len([i \in 1 .. v |-> buf[(f + i - 1) % BufferSize]]) = v
          /\ \A j \in 1 .. v :
               [i \in 1 .. v |-> buf[(f + i - 1) % BufferSize]][j] = buf[Wrap(f + j - 1)]
      BY UnwrapFacts
    <3> QED BY <3>1, <3>2, <3>3
  <2> QED BY <1>8, <1>9, <1>10, <2>1
<1>12. PICK x : x = SubSeq(s, 1, n) OBVIOUS
<1>13. x \in Seq(Bytes) /\ Len(x) = n /\ \A i \in 1 .. n : x[i] = s[i]
  <2>1. n <= Len(s) /\ 0 \in Nat BY <1>1
  <2>2. /\ SubSeq(s, 0 + 1, n) \in Seq(Bytes) /\ Len(SubSeq(s, 0 + 1, n)) = n
        /\ \A i \in 1 .. n : SubSeq(s, 0 + 1, n)[i] = s[0 + i]
    BY <2>1, PieceFacts
  <2> QED BY <1>12, <2>2
<1>14. PICK old : old = Contents OBVIOUS
<1>15. old \in Seq(Bytes) /\ Len(old) = U /\ \A i \in 1 .. U : old[i] = pBuffer[Wrap(F + i - 1)]
  BY <1>1, <1>14, ContentsFacts
<1>16. /\ old \o x \in Seq(Bytes) /\ Len(old \o x) = U + n
       /\ \A i \in 1 .. U : (old \o x)[i] = old[i]
       /\ \A i \in 1 .. n : (old \o x)[U + i] = x[i]
  BY <1>13, <1>15, JoinFacts
<1>17. ASSUME NEW i \in 1 .. U + n PROVE c[i] = (old \o x)[i]
  <2>1. CASE i <= U
    <3>1. i \in 1 .. U BY <1>1, <2>1
    <3>2. PICK p \in 0 .. B - 1 : p = Wrap(F + i - 1) /\ (p < R \/ p >= R + a) /\ p >= b
      <4>1. PICK p : p = Wrap(F + i - 1) OBVIOUS
      <4>2. /\ R = IF F + U < B THEN F + U ELSE F + U - B
            /\ p = IF F + i - 1 < B THEN F + i - 1 ELSE F + i - 1 - B
        BY <1>1, <4>1 DEF Wrap
      <4>3. p \in 0 .. B - 1 /\ (p < R \/ p >= R + a) /\ p >= b
        <5>0. i \in Nat /\ i >= 1 /\ i <= U BY ONLY <1>20, <3>1
        <5>1. CASE F + U < B
          <6>1. R = F + U /\ p = F + i - 1 BY ONLY <1>20, <4>2, <5>0, <5>1
          <6>2. b <= F BY ONLY <1>20, <1>2, <6>1
          <6> QED BY ONLY <1>20, <5>0, <5>1, <6>1, <6>2
        <5>2. CASE F + U >= B
          <6>1. R = F + U - B /\ R + a <= F BY ONLY <1>20, <1>2, <4>2, <5>2
          <6>2. b = 0 BY ONLY <1>20, <1>2, <6>1
          <6>3. CASE F + i - 1 < B BY ONLY <1>20, <4>2, <5>0, <6>1, <6>2, <6>3
          <6>4. CASE F + i - 1 >= B
            <7>1. p = F + i - 1 - B BY ONLY <1>20, <4>2, <5>0, <6>4
            <7> QED BY ONLY <1>20, <5>0, <6>1, <6>2, <6>4, <7>1
          <6> QED BY ONLY <1>20, <5>0, <6>3, <6>4
        <5> QED BY ONLY <1>20, <5>1, <5>2
      <4> QED BY <4>1, <4>3
    <3> QED BY <1>7, <1>11, <1>15, <1>16, <3>1, <3>2
  <2>2. CASE i > U
    <3>1. i - U \in 1 .. n /\ i = U + (i - U) BY <1>1, <2>2
    <3>2. PICK k \in 1 .. n : i = U + k BY <3>1
    <3>3. (old \o x)[i] = s[k] BY <1>13, <1>16, <3>2
    <3>4. CASE k <= a
      <4>1. k \in 1 .. a BY <3>2, <3>4
      <4>2. Wrap(F + i - 1) = R + k - 1 BY <1>1, <1>2, <3>2, <4>1 DEF Wrap
      <4>3. c[i] = t[k] BY <1>7, <1>11, <4>1, <4>2
      <4> QED BY <1>5, <3>3, <4>1, <4>3
    <3>5. CASE k > a
      <4>1. b > 0 /\ k - a \in 1 .. b /\ k = a + (k - a) BY <1>1, <1>2, <3>2, <3>5
      <4>2. PICK j \in 1 .. b : k = a + j BY <4>1
      <4>3. Wrap(F + i - 1) = j - 1 BY <1>1, <1>2, <3>2, <4>1, <4>2 DEF Wrap
      <4>4. c[i] = u[j] BY <1>7, <1>11, <4>2, <4>3
      <4> QED BY <1>1, <3>3, <4>2, <4>4
    <3>6. k <= a \/ k > a BY ONLY <1>20, <3>2
    <3> QED BY <3>4, <3>5, <3>6
  <2>3. i <= U \/ i > U BY <1>1
  <2> QED BY <2>1, <2>2, <2>3
<1>18. c = old \o x BY <1>11, <1>16, <1>17, SameBytes
<1> QED BY <1>10, <1>12, <1>14, <1>18

\* Bytes taken from Front leave the rest of the contents.
LEMMA ReadStep ==
  ASSUME RingTypeOK, RingTypeOK', NEW n \in Nat, n <= GetUseSize,
         pBuffer' = pBuffer, Rear' = Rear, Front' = Wrap(Front + n)
  PROVE  Contents' = SubSeq(Contents, n + 1, Len(Contents))
<1>1. PICK B \in Nat, F \in Nat, R \in Nat, U \in Nat, F2 \in Nat :
        /\ B = BufferSize /\ F = Front /\ R = Rear /\ U = GetUseSize /\ F2 = Front'
        /\ F < B /\ R < B /\ U < B /\ F2 < B /\ R = Wrap(F + U) /\ F2 = Wrap(F + n)
  <2>1. GetUseSize \in 0 .. BufferSize - 1 /\ Rear = Wrap(Front + GetUseSize)
    BY RingSizes DEF RingTypeOK
  <2>2. BufferSize \in Nat /\ GetUseSize \in Nat /\ GetUseSize < BufferSize
    BY <2>1, BufferSizeAssumption
  <2>3. /\ Front \in Nat /\ Rear \in Nat /\ Front < BufferSize /\ Rear < BufferSize
        /\ Front' \in Nat /\ Front' < BufferSize
    BY BufferSizeAssumption DEF RingTypeOK
  <2> QED BY <2>1, <2>2, <2>3
<1>2. /\ B \in Nat /\ F \in Nat /\ R \in Nat /\ U \in Nat /\ F2 \in Nat /\ n \in Nat
      /\ F < B /\ R < B /\ U < B /\ F2 < B /\ n <= U
  BY <1>1
<1>3. /\ F2 = IF F + n < B THEN F + n ELSE F + n - B
      /\ R = IF F + U < B THEN F + U ELSE F + U - B
  BY <1>1 DEF Wrap
<1>4. GetUseSize' = U - n
  <2>1. GetUseSize' = IF R >= F2 THEN R - F2 ELSE B - F2 + R BY <1>1 DEF GetUseSize
  <2>2. (IF R >= F2 THEN R - F2 ELSE B - F2 + R) = U - n
    <3>1. CASE F + U < B
      <4>1. R = F + U /\ F2 = F + n BY ONLY <1>2, <1>3, <3>1
      <4> QED BY ONLY <1>2, <4>1
    <3>2. CASE F + U >= B /\ F + n < B
      <4>1. R = F + U - B /\ F2 = F + n /\ R < F2 BY ONLY <1>2, <1>3, <3>2
      <4> QED BY ONLY <1>2, <4>1
    <3>3. CASE F + n >= B
      <4>1. R = F + U - B /\ F2 = F + n - B /\ R >= F2 BY ONLY <1>2, <1>3, <3>3
      <4> QED BY ONLY <1>2, <4>1
    <3>4. F + U < B \/ (F + U >= B /\ F + n < B) \/ F + n >= B BY ONLY <1>2
    <3> QED BY <3>1, <3>2, <3>3, <3>4
  <2> QED BY <2>1, <2>2
<1>5. PICK v \in Nat : v = U - n /\ v < B BY ONLY <1>2
<1>6. PICK c : c = Contents' OBVIOUS
<1>7. c \in Seq(Bytes) /\ Len(c) = v /\ \A i \in 1 .. v : c[i] = pBuffer[Wrap(F2 + i - 1)]
  <2>1. PICK buf \in [0 .. BufferSize - 1 -> Bytes], f \in 0 .. BufferSize - 1,
             w \in 0 .. BufferSize - 1 :
          buf = pBuffer /\ f = F2 /\ w = v
    <3>1. v \in 0 .. BufferSize - 1 /\ F2 \in 0 .. BufferSize - 1 BY <1>1, <1>5
    <3> QED BY <3>1 DEF RingTypeOK
  <2>2. c = [i \in 1 .. w |-> buf[(f + i - 1) % BufferSize]]
    BY <1>1, <1>4, <1>5, <1>6, <2>1 DEF Contents
  <2>3. /\ [i \in 1 .. w |-> buf[(f + i - 1) % BufferSize]] \in Seq(Bytes)
        /\ Len([i \in 1 .. w |-> buf[(f + i - 1) % BufferSize]]) = w
        /\ \A j \in 1 .. w :
             [i \in 1 .. w |-> buf[(f + i - 1) % BufferSize]][j] = buf[Wrap(f + j - 1)]
    BY UnwrapFacts
  <2> QED BY <2>1, <2>2, <2>3
<1>8. PICK old : old = Contents OBVIOUS
<1>9. old \in Seq(Bytes) /\ Len(old) = U /\ \A i \in 1 .. U : old[i] = pBuffer[Wrap(F + i - 1)]
  BY <1>1, <1>8, ContentsFacts
<1>10. PICK x : x = SubSeq(old, n + 1, U) OBVIOUS
<1>11. x \in Seq(Bytes) /\ Len(x) = v /\ \A i \in 1 .. v : x[i] = old[n + i]
  <2>1. U <= Len(old) BY <1>2, <1>9
  <2>2. /\ SubSeq(old, n + 1, U) \in Seq(Bytes)
        /\ Len(SubSeq(old, n + 1, U)) = IF n <= U THEN U - n ELSE 0
        /\ \A i \in 1 .. Len(SubSeq(old, n + 1, U)) : SubSeq(old, n + 1, U)[i] = old[n + i]
    BY <1>2, <1>9, <2>1, PieceFacts
  <2> QED BY <1>2, <1>5, <1>10, <2>2
<1>12. ASSUME NEW i \in 1 .. v PROVE c[i] = x[i]
  <2>1. n + i \in 1 .. U BY ONLY <1>2, <1>5, i \in 1 .. v
  <2>2. x[i] = pBuffer[Wrap(F + (n + i) - 1)] BY <1>9, <1>11, <2>1
  <2>3. Wrap(F2 + i - 1) = Wrap(F + (n + i) - 1)
    <3>1. i \in Nat /\ i >= 1 /\ i <= v BY <1>5
    <3>2. (IF F2 + i - 1 < B THEN F2 + i - 1 ELSE F2 + i - 1 - B)
          = (IF F + (n + i) - 1 < B THEN F + (n + i) - 1 ELSE F + (n + i) - 1 - B)
      BY ONLY <1>2, <1>3, <1>5, <3>1
    <3> QED BY <1>1, <3>2 DEF Wrap
  <2> QED BY <1>7, <2>2, <2>3
<1>13. c = x BY <1>7, <1>11, <1>12, SameBytes
<1> QED BY <1>6, <1>8, <1>9, <1>10, <1>13

LEMMA CopyOutFacts ==
  ASSUME RingTypeOK, NEW at \in Nat, NEW n \in Nat, at + n <= BufferSize
  PROVE  /\ CopyOut(at, n) \in Seq(Bytes) /\ Len(CopyOut(at, n)) = n
         /\ \A i \in 1 .. n : CopyOut(at, n)[i] = pBuffer[at + i - 1]
<1>1. \A i \in 1 .. n : at + i - 1 \in 0 .. BufferSize - 1 BY BufferSizeAssumption
<1>2. \A i \in 1 .. n : pBuffer[at + i - 1] \in Bytes BY <1>1 DEF RingTypeOK
<1>3. /\ CopyOut(at, n) \in [1 .. n -> Bytes]
      /\ \A i \in 1 .. n : CopyOut(at, n)[i] = pBuffer[at + i - 1]
  BY <1>2 DEF CopyOut
<1> QED BY <1>3

\* What is copied out is the first of the contents.
LEMMA CopiedFacts ==
  ASSUME RingTypeOK, NEW iSize \in 0 .. BufferSize
  PROVE  /\ Copied(iSize) = SubSeq(Contents, 1, Smaller(iSize, GetUseSize))
         /\ Copied(iSize) \in Seq(Bytes)
         /\ Len(Copied(iSize)) = Smaller(iSize, GetUseSize)
<1>1. PICK B \in Nat, F \in Nat, R \in Nat, U \in Nat, n \in Nat :
        /\ B = BufferSize /\ F = Front /\ R = Rear /\ U = GetUseSize
        /\ n = Smaller(iSize, U) /\ n <= U
        /\ F < B /\ R < B /\ U < B /\ R = Wrap(F + U)
  <2>1. GetUseSize \in 0 .. BufferSize - 1 /\ Rear = Wrap(Front + GetUseSize)
    BY RingSizes DEF RingTypeOK
  <2>2. BufferSize \in Nat /\ GetUseSize \in Nat /\ GetUseSize < BufferSize
    BY <2>1, BufferSizeAssumption
  <2>3. Front \in Nat /\ Rear \in Nat /\ Front < BufferSize /\ Rear < BufferSize
    BY BufferSizeAssumption DEF RingTypeOK
  <2>4. Smaller(iSize, GetUseSize) \in Nat /\ Smaller(iSize, GetUseSize) <= GetUseSize
    BY <2>2 DEF Smaller
  <2> QED BY <2>1, <2>2, <2>3, <2>4
<1>2. /\ B \in Nat /\ F \in Nat /\ R \in Nat /\ U \in Nat /\ n \in Nat
      /\ F < B /\ R < B /\ U < B /\ n <= U
  BY <1>1
<1>3. R = IF F + U < B THEN F + U ELSE F + U - B BY <1>1 DEF Wrap
<1>4. PICK one \in Nat, at \in Nat :
        /\ one <= n /\ F + one <= B /\ at <= B /\ (n - one) + at <= B
        /\ one < n => F + one = B /\ at = 0
        /\ Copied(iSize) = CopyOut(F, one) \o CopyOut(at, n - one)
  <2>1. CASE F > R /\ F + n > B
    <3>1. GetNotBrokenGetSize = B - F BY <1>1, <2>1 DEF GetNotBrokenGetSize
    <3>2. B - F \in Nat /\ F + (B - F) = B /\ B - F <= n BY ONLY <1>2, <2>1
    <3>3. B % B = 0
      <4>1. B < 2 * BufferSize BY <1>1, <1>2
      <4> QED BY <1>1, <4>1, WrapIsMod DEF Wrap
    <3>4. Copied(iSize) = CopyOut(F, B - F) \o CopyOut(0, n - (B - F))
      BY <1>1, <2>1, <3>1, <3>2, <3>3 DEF Copied
    <3>5. PICK k \in Nat, z \in Nat : k = B - F /\ z = 0 BY <3>2
    <3>6. /\ k <= n /\ F + k <= B /\ z <= B /\ (n - k) + z <= B
          /\ k < n => F + k = B /\ z = 0
      BY <1>2, <3>2, <3>5
    <3>7. Copied(iSize) = CopyOut(F, k) \o CopyOut(z, n - k) BY <3>4, <3>5
    <3> QED BY <3>6, <3>7
  <2>2. CASE ~(F > R /\ F + n > B)
    <3>1. F + n <= B BY ONLY <1>2, <1>3, <2>2
    <3>2. Copied(iSize) = CopyOut(F, n) \o CopyOut((F + n) % B, n - n)
      BY <1>1, <2>2 DEF Copied
    <3>3. (F + n) % B \in 0 .. B - 1
      <4>1. F + n \in Nat /\ F + n < 2 * BufferSize BY <1>1, <1>2
      <4> QED BY <1>1, <4>1, WrapIsMod
    <3>4. PICK z \in Nat : z = (F + n) % B /\ z <= B BY <1>2, <3>3
    <3>5. PICK k \in Nat : k = n OBVIOUS
    <3>6. /\ k <= n /\ F + k <= B /\ z <= B /\ (n - k) + z <= B
          /\ k < n => F + k = B /\ z = 0
      BY <1>2, <3>1, <3>4, <3>5
    <3>7. Copied(iSize) = CopyOut(F, k) \o CopyOut(z, n - k) BY <3>2, <3>4, <3>5
    <3> QED BY <3>6, <3>7
  <2> QED BY <2>1, <2>2
<1>5. PICK x : x = CopyOut(F, one) OBVIOUS
<1>6. x \in Seq(Bytes) /\ Len(x) = one /\ \A i \in 1 .. one : x[i] = pBuffer[F + i - 1]
  BY <1>1, <1>2, <1>4, <1>5, CopyOutFacts
<1>7. PICK m \in Nat : m = n - one BY <1>2, <1>4
<1>8. PICK y : y = CopyOut(at, m) OBVIOUS
<1>9. y \in Seq(Bytes) /\ Len(y) = m /\ \A i \in 1 .. m : y[i] = pBuffer[at + i - 1]
  <2>1. at + m <= BufferSize BY <1>1, <1>2, <1>4, <1>7
  <2> QED BY <1>8, <2>1, CopyOutFacts
<1>10. /\ x \o y \in Seq(Bytes) /\ Len(x \o y) = one + m
       /\ \A i \in 1 .. one : (x \o y)[i] = x[i]
       /\ \A i \in 1 .. m : (x \o y)[one + i] = y[i]
  BY <1>6, <1>9, JoinFacts
<1>11. one + m = n BY <1>2, <1>4, <1>7
<1>12. PICK old : old = Contents OBVIOUS
<1>13. old \in Seq(Bytes) /\ Len(old) = U /\ \A i \in 1 .. U : old[i] = pBuffer[Wrap(F + i - 1)]
  BY <1>1, <1>12, ContentsFacts
<1>14. PICK z : z = SubSeq(old, 1, n) OBVIOUS
<1>15. z \in Seq(Bytes) /\ Len(z) = n /\ \A i \in 1 .. n : z[i] = old[i]
  <2>1. n <= Len(old) /\ 0 \in Nat BY <1>2, <1>13
  <2>2. /\ SubSeq(old, 0 + 1, n) \in Seq(Bytes) /\ Len(SubSeq(old, 0 + 1, n)) = n
        /\ \A i \in 1 .. n : SubSeq(old, 0 + 1, n)[i] = old[0 + i]
    BY <1>13, <2>1, PieceFacts
  <2> QED BY <1>14, <2>2
<1>16. ASSUME NEW i \in 1 .. n PROVE (x \o y)[i] = z[i]
  <2>0. i \in 1 .. U /\ z[i] = pBuffer[Wrap(F + i - 1)]
    <3>1. i \in 1 .. U BY ONLY <1>2, i \in 1 .. n
    <3> QED BY <1>13, <1>15, <3>1
  <2>1. CASE i <= one
    <3>1. i \in 1 .. one /\ F + i - 1 < B BY <1>2, <1>4, <2>1
    <3>2. Wrap(F + i - 1) = F + i - 1 BY <1>1, <3>1 DEF Wrap
    <3> QED BY <1>6, <1>10, <2>0, <3>1, <3>2
  <2>2. CASE i > one
    <3>1. i - one \in 1 .. m /\ i = one + (i - one) BY <1>2, <1>4, <1>7, <2>2
    <3>2. PICK j \in 1 .. m : i = one + j BY <3>1
    <3>3. F + one = B /\ at = 0 BY <1>2, <1>4, <1>7, <3>2
    <3>4. F + i - 1 >= B /\ F + i - 1 - B = at + j - 1 BY <1>2, <1>7, <3>2, <3>3
    <3>5. Wrap(F + i - 1) = at + j - 1 BY <1>1, <1>2, <3>4 DEF Wrap
    <3> QED BY <1>9, <1>10, <2>0, <3>2, <3>5
  <2>3. i <= one \/ i > one BY <1>2
  <2> QED BY <2>1, <2>2, <2>3
<1>17. x \o y = z BY <1>10, <1>11, <1>15, <1>16, SameBytes
<1>18. Copied(iSize) = x \o y BY <1>4, <1>5, <1>7, <1>8
<1> QED BY <1>1, <1>10, <1>11, <1>12, <1>14, <1>17, <1>18

LEMMA ChunkFacts ==
  /\ \A s \in Chunks : s \in Seq(Bytes) /\ Len(s) \in 0 .. BufferSize
  /\ \A s \in Seq(Bytes) : Len(s) <= BufferSize => s \in Chunks
<1>1. ASSUME NEW s \in Chunks PROVE s \in Seq(Bytes) /\ Len(s) \in 0 .. BufferSize
  <2>1. PICK n \in 0 .. BufferSize : s \in [1 .. n -> Bytes] BY DEF Chunks
  <2>2. n \in Nat BY BufferSizeAssumption
  <2> QED BY <2>1, <2>2
<1>2. ASSUME NEW s \in Seq(Bytes), Len(s) <= BufferSize PROVE s \in Chunks
  <2>1. PICK n \in 0 .. BufferSize : n = Len(s) BY <1>2, BufferSizeAssumption
  <2>2. s \in [1 .. n -> Bytes] BY <2>1
  <2> QED BY <2>2 DEF Chunks
<1> QED BY <1>1, <1>2

LEMMA NoChunk == <<>> \in Chunks
<1>1. <<>> \in Seq(Bytes) /\ Len(<<>>) = 0 OBVIOUS
<1>2. 0 <= BufferSize BY BufferSizeAssumption
<1> QED BY <1>1, <1>2, ChunkFacts

LEMMA ArrayKept ==
  ASSUME NEW array \in [0 .. BufferSize - 1 -> Bytes], NEW x \in Nat, NEW t \in Seq(Bytes),
         NEW y \in Nat, NEW u \in Seq(Bytes),
         x + Len(t) <= BufferSize, y + Len(u) <= BufferSize
  PROVE  CopyIn(CopyIn(array, x, t), y, u) \in [0 .. BufferSize - 1 -> Bytes]
<1>1. PICK one : one = CopyIn(array, x, t) OBVIOUS
<1>2. one \in [0 .. BufferSize - 1 -> Bytes] BY <1>1, CopyInFacts
<1>3. CopyIn(one, y, u) \in [0 .. BufferSize - 1 -> Bytes] BY <1>2, CopyInFacts
<1> QED BY <1>1, <1>3

LEMMA RingPutStep ==
  ASSUME RingInv, NEW s \in Chunks, Put(s)
  PROVE  RingInv' /\ Contents' = Contents \o SubSeq(s, 1, moved')
         /\ moved' = Smaller(Len(s), GetFreeSize)
<1>0. RingTypeOK BY DEF RingInv
<1>1. s \in Seq(Bytes) /\ Len(s) \in 0 .. BufferSize BY ChunkFacts
<1>2. PICK B \in Nat, F \in Nat, R \in Nat, U \in Nat, n \in Nat, l \in Nat :
        /\ B = BufferSize /\ F = Front /\ R = Rear /\ U = GetUseSize /\ l = Len(s)
        /\ n = Smaller(Len(s), GetFreeSize) /\ n <= l /\ n <= B - 1 - U /\ l <= B
        /\ GetFreeSize = B - 1 - U
        /\ F < B /\ R < B /\ U < B
  <2>1. /\ GetUseSize \in 0 .. BufferSize - 1 /\ GetFreeSize = BufferSize - 1 - GetUseSize
        /\ GetFreeSize \in 0 .. BufferSize - 1
    BY <1>0, RingSizes DEF RingTypeOK
  <2>2. BufferSize \in Nat /\ GetUseSize \in Nat /\ GetUseSize < BufferSize
    BY <2>1, BufferSizeAssumption
  <2>3. Front \in Nat /\ Rear \in Nat /\ Front < BufferSize /\ Rear < BufferSize
    BY <1>0, BufferSizeAssumption DEF RingTypeOK
  <2>4. PICK q \in Nat : q = GetFreeSize BY <2>1
  <2>5. /\ Smaller(Len(s), q) \in Nat /\ Smaller(Len(s), q) <= Len(s)
        /\ Smaller(Len(s), q) <= q
    BY <1>1, <2>4 DEF Smaller
  <2>6. Len(s) \in Nat /\ Len(s) <= BufferSize BY <1>1, <2>2
  <2> QED BY <2>1, <2>2, <2>3, <2>4, <2>5, <2>6
<1>3. /\ B \in Nat /\ F \in Nat /\ R \in Nat /\ U \in Nat /\ n \in Nat /\ l \in Nat
      /\ F < B /\ R < B /\ U < B /\ n <= l /\ l <= B /\ n <= B - 1 - U
      /\ U = IF R >= F THEN R - F ELSE B - F + R
  BY <1>2 DEF GetUseSize
<1>4. PICK a \in Nat, at \in Nat :
        /\ a <= n /\ R + a <= B /\ at < B
        /\ n - a > 0 => at = 0 /\ R + a = B
        /\ pBuffer' = CopyIn(CopyIn(pBuffer, R, SubSeq(s, 1, a)), at, SubSeq(s, a + 1, n))
  <2>1. CASE R >= F /\ R + n >= B
    <3>1. GetNotBrokenPutSize = B - R BY <1>2, <2>1 DEF GetNotBrokenPutSize
    <3>2. B - R \in Nat /\ R + (B - R) = B /\ B - R <= n BY ONLY <1>3, <2>1
    <3>3. B % B = 0
      <4>1. B < 2 * BufferSize BY <1>2, <1>3
      <4> QED BY <1>2, <4>1, WrapIsMod DEF Wrap
    <3>4. PICK k \in Nat, z \in Nat : k = B - R /\ z = 0 /\ R + k = B BY <3>2
    <3>5. pBuffer' = CopyIn(CopyIn(pBuffer, R, SubSeq(s, 1, k)), z, SubSeq(s, k + 1, n))
      BY <1>2, <2>1, <3>1, <3>3, <3>4 DEF Put
    <3>6. /\ k <= n /\ R + k <= B /\ z < B
          /\ n - k > 0 => z = 0 /\ R + k = B
      BY ONLY <1>3, <3>2, <3>4, z \in Nat, k \in Nat
    <3> QED BY <3>5, <3>6
  <2>2. CASE ~(R >= F /\ R + n >= B)
    <3>1. R + n <= B BY ONLY <1>3, <2>2
    <3>2. pBuffer' = CopyIn(CopyIn(pBuffer, R, SubSeq(s, 1, n)), (R + n) % B, SubSeq(s, n + 1, n))
      BY <1>2, <2>2 DEF Put
    <3>3. (R + n) % B \in 0 .. B - 1
      <4>1. R + n \in Nat /\ R + n < 2 * BufferSize BY <1>2, <1>3
      <4> QED BY <1>2, <4>1, WrapIsMod
    <3>4. PICK z \in Nat : z = (R + n) % B /\ z < B BY <1>3, <3>3
    <3>5. PICK k \in Nat : k = n OBVIOUS
    <3>6. /\ k <= n /\ R + k <= B /\ z < B
          /\ n - k > 0 => z = 0 /\ R + k = B
      BY <1>3, <3>1, <3>4, <3>5
    <3>7. pBuffer' = CopyIn(CopyIn(pBuffer, R, SubSeq(s, 1, k)), z, SubSeq(s, k + 1, n))
      BY <3>2, <3>4, <3>5
    <3> QED BY <3>6, <3>7
  <2> QED BY <2>1, <2>2
<1>5. PICK u : u = SubSeq(s, a + 1, n) OBVIOUS
<1>6. u \in Seq(Bytes) /\ Len(u) = n - a /\ \A i \in 1 .. Len(u) : u[i] = s[a + i]
  <2>1. n <= Len(s) BY <1>2
  <2>2. /\ SubSeq(s, a + 1, n) \in Seq(Bytes)
        /\ Len(SubSeq(s, a + 1, n)) = IF a <= n THEN n - a ELSE 0
        /\ \A i \in 1 .. Len(SubSeq(s, a + 1, n)) : SubSeq(s, a + 1, n)[i] = s[a + i]
    BY <1>1, <2>1, PieceFacts
  <2> QED BY <1>4, <1>5, <2>2
<1>7. PICK t : t = SubSeq(s, 1, a) OBVIOUS
<1>8. t \in Seq(Bytes) /\ Len(t) = a
  <2>1. a <= Len(s) /\ 0 \in Nat BY <1>2, <1>3, <1>4
  <2>2. /\ SubSeq(s, 0 + 1, a) \in Seq(Bytes)
        /\ Len(SubSeq(s, 0 + 1, a)) = IF 0 <= a THEN a - 0 ELSE 0
    BY <1>1, <2>1, PieceFacts
  <2> QED BY <1>7, <2>2
<1>9. pBuffer' \in [0 .. BufferSize - 1 -> Bytes]
  <2>1. at + (n - a) <= B BY <1>3, <1>4
  <2>2. /\ pBuffer \in [0 .. BufferSize - 1 -> Bytes] /\ R + Len(t) <= BufferSize
        /\ at + Len(u) <= BufferSize
    BY <1>0, <1>2, <1>4, <1>6, <1>8, <2>1 DEF RingTypeOK
  <2>3. CopyIn(CopyIn(pBuffer, R, t), at, u) \in [0 .. BufferSize - 1 -> Bytes]
    BY <1>6, <1>8, <2>2, ArrayKept
  <2> QED BY <1>4, <1>5, <1>7, <2>3
<1>10. Rear' = Wrap(Rear + n) /\ Rear' \in 0 .. BufferSize - 1
  <2>1. R + n \in Nat /\ R + n < 2 * BufferSize BY <1>2, <1>3
  <2>2. Rear' = (Rear + n) % BufferSize BY <1>2 DEF Put
  <2> QED BY <1>2, <2>1, <2>2, WrapIsMod
<1>11. moved' = n /\ src' = s /\ dest' = <<>> /\ Front' = Front /\ offer' = NoOffer
  BY <1>2 DEF Put
<1>12. RingTypeOK'
  <2>1. <<>> \in Chunks /\ n \in 0 .. BufferSize
    <3>1. n \in 0 .. B BY ONLY <1>3
    <3> QED BY <1>2, <3>1, NoChunk
  <2>2. Front' \in 0 .. BufferSize - 1 BY <1>0, <1>11 DEF RingTypeOK
  <2> QED BY <1>9, <1>10, <1>11, <2>1, <2>2 DEF RingTypeOK
<1>13. Contents' = Contents \o SubSeq(s, 1, n)
  <2>1. PICK z \in 0 .. BufferSize - 1 : z = at BY <1>2, <1>4
  <2>2. /\ a + Len(u) = n /\ a + Len(u) <= Len(s) /\ Rear + a <= BufferSize
        /\ a + Len(u) <= BufferSize - GetUseSize /\ n <= GetFreeSize /\ n <= a + Len(u)
    <3>1. PICK w \in Nat : w = Len(u) /\ w = n - a BY <1>6
    <3>2. /\ a + w = n /\ a + w <= l /\ R + a <= B /\ a + w <= B - U
          /\ n <= B - 1 - U /\ n <= a + w
      <4>1. a \in Nat /\ a <= n /\ R + a <= B BY <1>4
      <4> QED BY ONLY <1>3, <3>1, <4>1, w \in Nat
    <3> QED BY <1>2, <3>1, <3>2
  <2>3. Len(u) > 0 => z = 0 /\ Rear + a = BufferSize BY <1>2, <1>4, <1>6, <2>1
  <2>4. pBuffer' = CopyIn(CopyIn(pBuffer, Rear, SubSeq(s, 1, a)), z, u) BY <1>2, <1>4, <1>5, <2>1
  <2> QED BY <1>0, <1>1, <1>6, <1>10, <1>11, <1>12, <2>2, <2>3, <2>4, WriteStep
<1> QED BY <1>2, <1>11, <1>12, <1>13 DEF RingInv

LEMMA RingMoveStep ==
  ASSUME RingInv, NEW s \in Chunks, MoveWritePos(s)
  PROVE  RingInv' /\ Contents' = Contents \o SubSeq(s, 1, moved')
         /\ moved' = Smaller(Len(s), GetFreeSize)
<1>0. RingTypeOK BY DEF RingInv
<1>1. s \in Seq(Bytes) /\ Len(s) \in 0 .. BufferSize BY ChunkFacts
<1>2. PICK B \in Nat, F \in Nat, R \in Nat, U \in Nat, n \in Nat, l \in Nat :
        /\ B = BufferSize /\ F = Front /\ R = Rear /\ U = GetUseSize /\ l = Len(s)
        /\ n = Smaller(Len(s), GetFreeSize) /\ n <= l /\ n <= B - 1 - U /\ l <= B
        /\ GetFreeSize = B - 1 - U
        /\ F < B /\ R < B /\ U < B
  <2>1. /\ GetUseSize \in 0 .. BufferSize - 1 /\ GetFreeSize = BufferSize - 1 - GetUseSize
        /\ GetFreeSize \in 0 .. BufferSize - 1
    BY <1>0, RingSizes DEF RingTypeOK
  <2>2. BufferSize \in Nat /\ GetUseSize \in Nat /\ GetUseSize < BufferSize
    BY <2>1, BufferSizeAssumption
  <2>3. Front \in Nat /\ Rear \in Nat /\ Front < BufferSize /\ Rear < BufferSize
    BY <1>0, BufferSizeAssumption DEF RingTypeOK
  <2>4. PICK q \in Nat : q = GetFreeSize BY <2>1
  <2>5. /\ Smaller(Len(s), q) \in Nat /\ Smaller(Len(s), q) <= Len(s)
        /\ Smaller(Len(s), q) <= q
    BY <1>1, <2>4 DEF Smaller
  <2>6. Len(s) \in Nat /\ Len(s) <= BufferSize BY <1>1, <2>2
  <2> QED BY <2>1, <2>2, <2>3, <2>4, <2>5, <2>6
<1>3. /\ B \in Nat /\ F \in Nat /\ R \in Nat /\ U \in Nat /\ n \in Nat /\ l \in Nat
      /\ F < B /\ R < B /\ U < B /\ n <= l /\ l <= B /\ n <= B - 1 - U
      /\ U = IF R >= F THEN R - F ELSE B - F + R
  BY <1>2 DEF GetUseSize
\* What was offered: P bytes from Rear on, and Q at the start of the array.
<1>4. PICK P \in Nat, Q \in Nat :
        /\ offer[1] = P /\ offer[2] = Q /\ R + P <= B /\ l <= P + Q /\ P + Q <= B - U
        /\ Q > 0 => R + P = B
  <2>1. PICK P : P = GetNotBrokenPutSize OBVIOUS
  <2>2. P = IF R >= F THEN B - R ELSE F - R - 1 BY <1>2, <2>1 DEF GetNotBrokenPutSize
  <2>3. P \in Nat /\ R + P <= B BY ONLY <1>3, <2>2
  <2>4. PICK Q : Q = IF B - 1 - U > P THEN B - 1 - U - P ELSE 0 OBVIOUS
  <2>5. Q \in Nat /\ P + Q <= B - U /\ (Q > 0 => R + P = B) BY ONLY <1>3, <2>2, <2>3, <2>4
  <2>6. offer = <<P, Q>> BY <1>2, <2>1, <2>4 DEF RingInv, MoveWritePos, NoOffer
  <2>7. offer[1] = P /\ offer[2] = Q BY <2>6
  <2>8. l <= P + Q BY <1>2, <2>7 DEF MoveWritePos
  <2> QED BY <2>3, <2>5, <2>7, <2>8
<1>5. PICK a \in Nat : a = Smaller(Len(s), offer[1]) /\ a = IF l < P THEN l ELSE P
  BY <1>2, <1>4 DEF Smaller
<1>6. PICK u : u = SubSeq(s, P + 1, l) OBVIOUS
<1>7. PICK w \in Nat :
        /\ u \in Seq(Bytes) /\ w = Len(u) /\ w = IF P <= l THEN l - P ELSE 0
        /\ \A i \in 1 .. w : u[i] = s[P + i]
  <2>1. l <= Len(s) BY <1>2
  <2>2. /\ SubSeq(s, P + 1, l) \in Seq(Bytes)
        /\ Len(SubSeq(s, P + 1, l)) = IF P <= l THEN l - P ELSE 0
        /\ \A i \in 1 .. Len(SubSeq(s, P + 1, l)) : SubSeq(s, P + 1, l)[i] = s[P + i]
    BY <1>1, <2>1, PieceFacts
  <2>3. Len(u) \in Nat BY <1>6, <2>2
  <2> QED BY <1>6, <2>2, <2>3
<1>8. /\ a + w = l /\ R + a <= B /\ a + w <= B - U /\ n <= a + w
      /\ w > 0 => R + a = B /\ a = P
      /\ w <= B
  <2>1. /\ R + P <= B /\ l <= P + Q /\ P + Q <= B - U /\ (Q > 0 => R + P = B)
        /\ a = (IF l < P THEN l ELSE P) /\ w = IF P <= l THEN l - P ELSE 0
    BY <1>4, <1>5, <1>7
  <2>2. P \in Nat /\ Q \in Nat /\ a \in Nat /\ w \in Nat OBVIOUS
  <2>3. CASE l < P BY ONLY <1>3, <2>1, <2>2, <2>3
  <2>4. CASE l >= P
    <3>1. a = P /\ w = l - P BY ONLY <1>3, <2>1, <2>2, <2>4
    <3>2. w > 0 => Q > 0 BY ONLY <1>3, <2>1, <2>2, <3>1
    <3> QED BY ONLY <1>3, <2>1, <2>2, <3>1, <3>2
  <2> QED BY ONLY <1>3, <2>2, <2>3, <2>4
<1>9. PICK t : t = SubSeq(s, 1, a) OBVIOUS
<1>10. t \in Seq(Bytes) /\ Len(t) = a
  <2>0. a <= l BY ONLY <1>3, <1>8, a \in Nat, w \in Nat
  <2>1. a <= Len(s) /\ 0 \in Nat BY <1>2, <2>0
  <2>2. /\ SubSeq(s, 0 + 1, a) \in Seq(Bytes)
        /\ Len(SubSeq(s, 0 + 1, a)) = IF 0 <= a THEN a - 0 ELSE 0
    BY <1>1, <2>1, PieceFacts
  <2> QED BY <1>9, <2>2
<1>11. pBuffer' = CopyIn(CopyIn(pBuffer, R, t), 0, u)
  BY <1>2, <1>4, <1>5, <1>6, <1>9 DEF MoveWritePos, Received
<1>12. pBuffer' \in [0 .. BufferSize - 1 -> Bytes]
  <2>1. PICK z \in Nat : z = 0 OBVIOUS
  <2>2. /\ pBuffer \in [0 .. BufferSize - 1 -> Bytes] /\ R + Len(t) <= BufferSize
        /\ z + Len(u) <= BufferSize
    <3>1. R + a <= B /\ z + w <= B BY ONLY <1>3, <1>8, <2>1, w \in Nat, a \in Nat
    <3> QED BY <1>0, <1>2, <1>7, <1>10, <3>1 DEF RingTypeOK
  <2>3. CopyIn(CopyIn(pBuffer, R, t), z, u) \in [0 .. BufferSize - 1 -> Bytes]
    BY <1>7, <1>10, <2>2, ArrayKept
  <2> QED BY <1>11, <2>1, <2>3
<1>13. moved' = n /\ src' = s /\ dest' = <<>> /\ Front' = Front /\ offer' = NoOffer
  BY <1>2 DEF MoveWritePos
<1>14. Rear' = Wrap(Rear + n) /\ Rear' \in 0 .. BufferSize - 1
  <2>1. R + n \in Nat /\ R + n < 2 * BufferSize BY <1>2, <1>3
  <2>2. Rear' = (Rear + n) % BufferSize BY <1>13 DEF MoveWritePos
  <2> QED BY <1>2, <2>1, <2>2, WrapIsMod
<1>15. RingTypeOK'
  <2>1. <<>> \in Chunks /\ n \in 0 .. BufferSize
    <3>1. n \in 0 .. B BY ONLY <1>3
    <3> QED BY <1>2, <3>1, NoChunk
  <2>2. Front' \in 0 .. BufferSize - 1 BY <1>0, <1>13 DEF RingTypeOK
  <2> QED BY <1>12, <1>13, <1>14, <2>1, <2>2 DEF RingTypeOK
<1>16. Contents' = Contents \o SubSeq(s, 1, n)
  <2>1. PICK z \in 0 .. BufferSize - 1 : z = 0 BY BufferSizeAssumption
  <2>2. /\ a + Len(u) <= Len(s) /\ Rear + a <= BufferSize
        /\ a + Len(u) <= BufferSize - GetUseSize /\ n <= GetFreeSize /\ n <= a + Len(u)
    <3>1. n <= B - 1 - U /\ a + w <= l BY ONLY <1>3, <1>8
    <3> QED BY <1>2, <1>7, <1>8, <3>1
  <2>3. Len(u) > 0 => z = 0 /\ Rear + a = BufferSize BY <1>2, <1>7, <1>8, <2>1
  <2>4. pBuffer' = CopyIn(CopyIn(pBuffer, Rear, SubSeq(s, 1, a)), z, u)
    BY <1>2, <1>9, <1>11, <2>1
  <2>5. \A i \in 1 .. Len(u) : u[i] = s[a + i]
    <3>1. ASSUME NEW i \in 1 .. w PROVE u[i] = s[a + i]
      <4>1. w > 0 OBVIOUS
      <4> QED BY <1>7, <1>8, <4>1
    <3> QED BY <1>7, <3>1
  <2> QED BY <1>0, <1>1, <1>7, <1>13, <1>14, <1>15, <2>2, <2>3, <2>4, <2>5, WriteStep
<1> QED BY <1>2, <1>13, <1>15, <1>16 DEF RingInv

\* How many of the bytes in the buffer a call takes.
LEMMA TakenSize ==
  ASSUME RingTypeOK, NEW iSize \in Sizes
  PROVE  \E n \in Nat : /\ n = Smaller(iSize, GetUseSize) /\ n <= GetUseSize
                        /\ n \in 0 .. BufferSize
                        /\ (Front + n) % BufferSize = Wrap(Front + n)
                        /\ Wrap(Front + n) \in 0 .. BufferSize - 1
<1>1. PICK B \in Nat, F \in Nat, U \in Nat, i \in Nat :
        B = BufferSize /\ F = Front /\ U = GetUseSize /\ i = iSize /\ F < B /\ U < B
  <2>1. GetUseSize \in 0 .. BufferSize - 1 BY RingSizes DEF RingTypeOK
  <2> QED BY <2>1, BufferSizeAssumption DEF RingTypeOK, Sizes
<1>2. PICK n \in Nat : n = Smaller(i, U) /\ n <= U BY DEF Smaller
<1>3. F + n \in Nat /\ F + n < 2 * BufferSize BY <1>1, <1>2
<1>4. n \in 0 .. BufferSize BY <1>1, <1>2
<1> QED BY <1>1, <1>2, <1>3, <1>4, WrapIsMod

LEMMA CopiedStep ==
  ASSUME RingTypeOK, NEW iSize \in Sizes
  PROVE  /\ Copied(iSize) = SubSeq(Contents, 1, Smaller(iSize, GetUseSize))
         /\ Len(Copied(iSize)) = Smaller(iSize, GetUseSize)
         /\ Copied(iSize) \in Chunks
<1>1. iSize \in 0 .. BufferSize BY DEF Sizes
<1>2. PICK n \in Nat : n = Smaller(iSize, GetUseSize) /\ n \in 0 .. BufferSize BY TakenSize
<1>3. n <= BufferSize BY <1>2, BufferSizeAssumption
<1>4. /\ Copied(iSize) = SubSeq(Contents, 1, Smaller(iSize, GetUseSize))
      /\ Copied(iSize) \in Seq(Bytes)
      /\ Len(Copied(iSize)) = Smaller(iSize, GetUseSize)
  BY <1>1, CopiedFacts
<1> QED BY <1>2, <1>3, <1>4, ChunkFacts

LEMMA RingGetStep ==
  ASSUME RingInv, NEW iSize \in Sizes, Get(iSize)
  PROVE  /\ RingInv'
         /\ moved' = Smaller(iSize, Len(Contents))
         /\ dest' = SubSeq(Contents, 1, moved')
         /\ Contents' = SubSeq(Contents, moved' + 1, Len(Contents))
<1>0. RingTypeOK BY DEF RingInv
<1>1. PICK n \in Nat : /\ n = Smaller(iSize, GetUseSize) /\ n <= GetUseSize
                       /\ n \in 0 .. BufferSize
                       /\ (Front + n) % BufferSize = Wrap(Front + n)
                       /\ Wrap(Front + n) \in 0 .. BufferSize - 1
  BY <1>0, TakenSize
<1>2. /\ dest' = SubSeq(Contents, 1, n) /\ Len(dest') = n /\ dest' \in Chunks
  BY <1>0, <1>1, CopiedStep DEF Get
<1>3. /\ moved' = n /\ Front' = Wrap(Front + n) /\ src' = <<>>
      /\ UNCHANGED <<pBuffer, Rear, offer>> /\ offer' = NoOffer
  BY <1>1, <1>2 DEF Get
<1>4. RingTypeOK' BY <1>0, <1>1, <1>2, <1>3, NoChunk DEF RingTypeOK
<1>5. Contents' = SubSeq(Contents, n + 1, Len(Contents))
  BY <1>0, <1>1, <1>3, <1>4, ReadStep
<1>6. Len(Contents) = GetUseSize BY <1>0, ContentsFacts
<1> QED BY <1>1, <1>2, <1>3, <1>4, <1>5, <1>6 DEF RingInv

LEMMA RingPeekStep ==
  ASSUME RingInv, NEW iSize \in Sizes, Peek(iSize)
  PROVE  /\ RingInv'
         /\ moved' = Smaller(iSize, Len(Contents))
         /\ dest' = SubSeq(Contents, 1, moved')
         /\ Contents' = Contents
<1>0. RingTypeOK BY DEF RingInv
<1>1. PICK n \in Nat : n = Smaller(iSize, GetUseSize) /\ n \in 0 .. BufferSize
  BY <1>0, TakenSize
<1>2. /\ dest' = SubSeq(Contents, 1, n) /\ Len(dest') = n /\ dest' \in Chunks
  BY <1>0, <1>1, CopiedStep DEF Peek
<1>3. /\ moved' = n /\ src' = <<>>
      /\ UNCHANGED <<pBuffer, Front, Rear, offer>> /\ offer' = NoOffer
  BY <1>1, <1>2 DEF Peek
<1>4. RingTypeOK' BY <1>0, <1>1, <1>2, <1>3, NoChunk DEF RingTypeOK
<1>5. Contents' = Contents BY <1>3 DEF Contents, GetUseSize
<1>6. Len(Contents) = GetUseSize BY <1>0, ContentsFacts
<1> QED BY <1>1, <1>2, <1>3, <1>4, <1>5, <1>6 DEF RingInv

LEMMA RingRemoveStep ==
  ASSUME RingInv, NEW iSize \in Sizes, RemoveData(iSize)
  PROVE  /\ RingInv'
         /\ moved' = Smaller(iSize, Len(Contents))
         /\ Contents' = SubSeq(Contents, moved' + 1, Len(Contents))
<1>0. RingTypeOK BY DEF RingInv
<1>1. PICK n \in Nat : /\ n = Smaller(iSize, GetUseSize) /\ n <= GetUseSize
                       /\ n \in 0 .. BufferSize
                       /\ (Front + n) % BufferSize = Wrap(Front + n)
                       /\ Wrap(Front + n) \in 0 .. BufferSize - 1
  BY <1>0, TakenSize
<1>3. /\ moved' = n /\ Front' = Wrap(Front + n) /\ src' = <<>> /\ dest' = <<>>
      /\ UNCHANGED <<pBuffer, Rear, offer>> /\ offer' = NoOffer
  BY <1>1 DEF RemoveData
<1>4. RingTypeOK' BY <1>0, <1>1, <1>3, NoChunk DEF RingTypeOK
<1>5. Contents' = SubSeq(Contents, n + 1, Len(Contents))
  BY <1>0, <1>1, <1>3, <1>4, ReadStep
<1>6. Len(Contents) = GetUseSize BY <1>0, ContentsFacts
<1> QED BY <1>1, <1>3, <1>4, <1>5, <1>6 DEF RingInv

LEMMA NoContents ==
  ASSUME Front = 0, Rear = 0
  PROVE  Contents = <<>>
<1>1. GetUseSize = 0 BY DEF GetUseSize
<1>2. 1 .. GetUseSize = {} BY <1>1
<1> QED BY <1>2 DEF Contents

LEMMA RingClearStep ==
  ASSUME RingInv, ClearBuffer
  PROVE  RingInv' /\ Contents' = <<>>
<1>1. 0 \in 0 .. BufferSize - 1 /\ 0 \in 0 .. BufferSize BY BufferSizeAssumption
<1>2. RingTypeOK' BY <1>1, NoChunk DEF RingInv, RingTypeOK, ClearBuffer
<1>3. offer' = NoOffer BY DEF ClearBuffer
<1>4. GetUseSize' = 0 /\ 1 .. 0 = {} BY DEF ClearBuffer, GetUseSize
<1>5. Contents' = <<>> BY <1>4 DEF Contents
<1> QED BY <1>2, <1>3, <1>5 DEF RingInv

LEMMA RingOfferStep ==
  ASSUME RingInv, Offer
  PROVE  RingInv' /\ Contents' = Contents /\ UNCHANGED <<moved, src, dest>>
<1>0. RingTypeOK BY DEF RingInv
<1>1. PICK x : x = GetNotBrokenPutSize OBVIOUS
<1>2. PICK y : y = IF GetFreeSize > GetNotBrokenPutSize
                   THEN GetFreeSize - GetNotBrokenPutSize ELSE 0
  OBVIOUS
<1>3. x \in 0 .. BufferSize /\ y \in 0 .. BufferSize
  <2>1. PICK B \in Nat, R \in Nat, f \in Nat :
          B = BufferSize /\ R = Rear /\ f = GetFreeSize /\ f < B /\ R < B
    <3>1. GetFreeSize \in 0 .. BufferSize - 1 BY <1>0, RingSizes DEF RingTypeOK
    <3> QED BY <1>0, <3>1, BufferSizeAssumption DEF RingTypeOK
  <2>2. x \in 0 .. B - R BY <1>0, <1>1, <2>1, RingSizes DEF RingTypeOK
  <2>3. y = IF f > x THEN f - x ELSE 0 BY <1>1, <1>2, <2>1
  <2>4. x \in 0 .. B /\ y \in 0 .. B BY ONLY <2>1, <2>2, <2>3, B \in Nat, R \in Nat, f \in Nat
  <2> QED BY <2>1, <2>4
<1>4. offer' = <<x, y>> /\ UNCHANGED <<pBuffer, Front, Rear, moved, src, dest>>
  BY <1>1, <1>2 DEF Offer
<1>5. RingTypeOK' BY <1>0, <1>3, <1>4 DEF RingTypeOK
<1>6. /\ GetUseSize' = GetUseSize /\ GetFreeSize' = GetFreeSize
      /\ GetNotBrokenPutSize' = GetNotBrokenPutSize
  BY <1>4 DEF GetUseSize, GetFreeSize, GetNotBrokenPutSize
<1>7. Contents' = Contents BY <1>4, <1>6 DEF Contents
<1> QED BY <1>1, <1>2, <1>4, <1>5, <1>6, <1>7 DEF RingInv

LEMMA RingStart == RingInit => RingInv /\ Contents = <<>>
<1> SUFFICES ASSUME RingInit PROVE RingInv /\ Contents = <<>> OBVIOUS
<1>1. 0 \in 0 .. BufferSize - 1 /\ 0 \in 0 .. BufferSize BY BufferSizeAssumption
<1>2. RingTypeOK BY <1>1, NoChunk DEF RingTypeOK, RingInit
<1>3. Contents = <<>> BY NoContents DEF RingInit
<1> QED BY <1>2, <1>3 DEF RingInv, RingInit

\* A step of the ring buffer is a step of the queue, or none.
LEMMA RingStep ==
  ASSUME RingInv, [RingNext]_ringVars
  PROVE  RingInv' /\ [Promised!Next]_(Promised!vars)
<1>0. RingTypeOK /\ Contents \in Seq(Bytes) /\ Len(Contents) = GetUseSize
  BY ContentsFacts DEF RingInv
<1>1. BufferSize - 1 + 1 = BufferSize /\ BufferSize - 1 \in Nat BY BufferSizeAssumption
<1>2. UNION {[1 .. n -> Bytes] : n \in 0 .. BufferSize - 1 + 1} = Chunks
  BY <1>1 DEF Chunks
<1>3. ASSUME NEW s \in Chunks, Contents' = Contents \o SubSeq(s, 1, moved'),
             moved' = Smaller(Len(s), GetFreeSize), src' = s, dest' = <<>>
      PROVE  Promised!Next
  <2>1. GetFreeSize = BufferSize - 1 - Len(Contents)
    BY <1>0, RingSizes DEF RingTypeOK
  <2>2. moved' = Promised!Lesser(Len(s), BufferSize - 1 - Len(Contents))
    BY <1>3, <2>1 DEF Smaller, Promised!Lesser
  <2>3. Promised!Accept(s) BY <1>3, <2>2 DEF Promised!Accept
  <2>4. s \in UNION {[1 .. n -> Bytes] : n \in 0 .. BufferSize - 1 + 1} BY <1>2
  <2> QED BY <2>3, <2>4 DEF Promised!Next
<1>4. ASSUME NEW n \in Sizes PROVE n \in 0 .. BufferSize - 1 + 1 BY <1>1 DEF Sizes
<1>5. CASE UNCHANGED ringVars
  <2>1. RingInv'
    BY <1>5 DEF RingInv, RingTypeOK, ringVars, GetNotBrokenPutSize, GetFreeSize
  <2>2. Contents' = Contents BY <1>5 DEF Contents, ringVars, GetUseSize
  <2>3. UNCHANGED Promised!vars BY <1>5, <2>2 DEF Promised!vars, ringVars
  <2> QED BY <2>1, <2>3
<1>6. ASSUME NEW s \in Chunks, Put(s) PROVE RingInv' /\ Promised!Next
  <2>1. src' = s /\ dest' = <<>> BY <1>6 DEF Put
  <2> QED BY <1>3, <1>6, <2>1, RingPutStep
<1>7. ASSUME NEW s \in Chunks, MoveWritePos(s) PROVE RingInv' /\ Promised!Next
  <2>1. src' = s /\ dest' = <<>> BY <1>7 DEF MoveWritePos
  <2> QED BY <1>3, <1>7, <2>1, RingMoveStep
<1>8. ASSUME NEW n \in Sizes, Get(n) PROVE RingInv' /\ Promised!Next
  <2>1. /\ RingInv' /\ moved' = Smaller(n, Len(Contents))
        /\ dest' = SubSeq(Contents, 1, moved')
        /\ Contents' = SubSeq(Contents, moved' + 1, Len(Contents))
    BY <1>8, RingGetStep
  <2>2. Promised!Take(n)
    BY <1>8, <2>1 DEF Get, Smaller, Promised!Take, Promised!Give, Promised!Lesser
  <2> QED BY <1>4, <2>1, <2>2 DEF Promised!Next
<1>9. ASSUME NEW n \in Sizes, Peek(n) PROVE RingInv' /\ Promised!Next
  <2>1. /\ RingInv' /\ moved' = Smaller(n, Len(Contents))
        /\ dest' = SubSeq(Contents, 1, moved') /\ Contents' = Contents
    BY <1>9, RingPeekStep
  <2>2. Promised!Look(n)
    BY <1>9, <2>1 DEF Peek, Smaller, Promised!Look, Promised!Give, Promised!Lesser
  <2> QED BY <1>4, <2>1, <2>2 DEF Promised!Next
<1>10. ASSUME NEW n \in Sizes, RemoveData(n) PROVE RingInv' /\ Promised!Next
  <2>1. /\ RingInv' /\ moved' = Smaller(n, Len(Contents))
        /\ Contents' = SubSeq(Contents, moved' + 1, Len(Contents))
    BY <1>10, RingRemoveStep
  <2>2. Promised!Drop(n)
    BY <1>10, <2>1 DEF RemoveData, Smaller, Promised!Drop, Promised!Lesser
  <2> QED BY <1>4, <2>1, <2>2 DEF Promised!Next
<1>11. CASE ClearBuffer
  <2>1. RingInv' /\ Contents' = <<>> BY <1>11, RingClearStep
  <2>2. Promised!Clear BY <1>11, <2>1 DEF ClearBuffer, Promised!Clear
  <2> QED BY <2>1, <2>2 DEF Promised!Next
<1>12. CASE Offer
  <2>1. RingInv' /\ Contents' = Contents /\ UNCHANGED <<moved, src, dest>>
    BY <1>12, RingOfferStep
  <2> QED BY <2>1 DEF Promised!vars
<1> QED BY <1>5, <1>6, <1>7, <1>8, <1>9, <1>10, <1>11, <1>12 DEF RingNext

LEMMA RingInvariance == RingSpec => []RingInv
<1>1. RingInit => RingInv BY RingStart
<1>2. RingInv /\ [RingNext]_ringVars => RingInv' BY RingStep
<1> QED BY <1>1, <1>2, PTL DEF RingSpec

\* Put, which copies in one piece or in two, and WSARecv, which writes through the pointers
\* of an earlier moment, stay inside the array, wherever the wrap falls.
THEOREM RingStaysInside == RingSpec => []RingTypeOK
<1>1. RingInv => RingTypeOK BY DEF RingInv
<1> QED BY <1>1, RingInvariance, PTL

\* The ring buffer, whatever its size, is the queue of one byte less: each call and each
\* completed receive is one operation of the queue, and offering the room is none.
THEOREM ByteQueueImplemented == RingSpec => ImplementsByteQueue
<1>1. RingInit => Promised!Init BY RingStart DEF RingInit, Promised!Init
<1>2. RingInv /\ [RingNext]_ringVars => [Promised!Next]_(Promised!vars) BY RingStep
<1>3. RingSpec => Promised!Init /\ [][Promised!Next]_(Promised!vars)
  BY <1>1, <1>2, RingInvariance, PTL DEF RingSpec
<1> QED BY <1>3 DEF ImplementsByteQueue, Promised!Spec

-----------------------------------------------------------------------------
(* CMemoryPool_LF *)

\* CMemoryPool_LF implements CMemoryPool and never follows a top that is not a block, for
\* any number of threads and any size of the pool.
\*
\* The invariant is that of CMemoryPool for the mapped state, and what the compare-and-swap
\* needs beside it: the links follow the list (Linked), a number that has been taken is
\* nobody else's and was never read from the top (Fresh), and what a thread has read is
\* still so while the top's number is the one it has read (Current).  The blocks of the
\* list keep their successors because the only block whose successor changes is one that
\* is being given back, and that has one owner.
P == INSTANCE MemoryPoolProofs WITH
  Threads <- Users,
  top <- list,
  pc <- [t \in Users |-> Phase(us[t].at)],
  seen <- [t \in Users |-> us[t].seen],
  blk <- [t \in Users |-> us[t].blk]

Popping == {"number", "allocUnique", "allocTop", "live", "next", "allocSwap"}
Pushing == {"freeUnique", "freeTop", "append", "freeSwap"}
Places == {"out", "count", "check", "malloc", "newBlock", "uncount", "fault"} \cup Popping \cup Pushing

\* Where a thread holds a number it has taken, has read the number of the top, and has
\* read its block.
Numbered == (Popping \ {"number"}) \cup Pushing
SawNumber == {"allocTop", "live", "next", "allocSwap", "freeTop", "append", "freeSwap"}
SawTop == {"live", "next", "allocSwap", "append", "freeSwap"}

Tops == [block : Int, unique : Nat]
\* Where a thread has a block that is neither in the list nor in use; elsewhere its
\* stpBlock is NULL.
Carrying == Pushing \cup {"newBlock"}
Locals ==
  {l \in [at : Places, seen : Nat, id : Nat, pre : Tops, blk : Nat, live : Int] :
     l.at \notin Carrying => l.blk = NULL}

Typed ==
  /\ poolTop \in Tops /\ number \in Nat
  /\ stpNext \in [1 .. made -> Int]
  /\ us \in [Users -> Locals]
  /\ \A t \in Users : us[t].at = "next" => us[t].live \in 1 .. made

Linked ==
  /\ list # <<>> => poolTop.block = list[1]
  /\ \A i \in 1 .. Len(list) - 1 : stpNext[list[i]] = list[i + 1]

HasNumber(t) == us[t].at \in Numbered
Read(t) == us[t].at \in SawNumber

Fresh ==
  /\ poolTop.unique <= number
  /\ \A t \in Users : HasNumber(t) =>
       /\ us[t].id <= number /\ us[t].id # poolTop.unique
       /\ \A u \in Users \ {t} : HasNumber(u) => us[u].id # us[t].id
       /\ \A u \in Users : Read(u) => us[u].pre.unique # us[t].id
  /\ \A t \in Users : Read(t) => us[t].pre.unique <= number

Current ==
  \A t \in Users : Read(t) /\ us[t].pre.unique = poolTop.unique =>
    /\ us[t].at \in SawTop => us[t].pre.block = poolTop.block
    /\ us[t].at = "next" => us[t].live = poolTop.block
    /\ us[t].at = "allocSwap" => us[t].live = stpNext[poolTop.block]
    /\ us[t].at = "freeSwap" => stpNext[us[t].blk] = poolTop.block

LFInv == P!IInv /\ Typed /\ Linked /\ Fresh /\ Current


-----------------------------------------------------------------------------
(* What CMemoryPool's proof gives *)

LEMMA AssumptionsMapped == P!IsFiniteSet(Users)
BY UsersFinite DEF IsFiniteSet, P!IsFiniteSet

LEMMA MappedInit == P!Init => P!IInv
BY P!InitIInv, AssumptionsMapped, BlockNumsNat, StartCountsNat, MaxCountNat

LEMMA MappedStep == P!IInv /\ [P!Next]_(P!vars) => P!IInv'
BY P!NextIInv, AssumptionsMapped, BlockNumsNat, StartCountsNat, MaxCountNat

\* The phases by where a thread is.
LEMMA PhaseOf ==
  /\ \A at \in Popping : Phase(at) = "pop"
  /\ \A at \in Pushing : Phase(at) = "push"
  /\ Phase("out") = "idle" /\ Phase("newBlock") = "grow" /\ Phase("count") = "count"
  /\ Phase("check") = "check" /\ Phase("malloc") = "malloc" /\ Phase("uncount") = "uncount"
  /\ Phase("fault") = "fault"
BY DEF Phase, Popping, Pushing

\* What the mapped invariant says of a thread and of the list.
LEMMA MappedFacts ==
  ASSUME P!IInv, Typed
  PROVE  /\ list \in Seq(Nat \ {0}) /\ made \in Nat
         /\ \A i \in 1 .. Len(list) : list[i] \in 1 .. made
         /\ \A i, j \in 1 .. Len(list) : list[i] = list[j] => i = j
         /\ \A t \in Users : us[t].at # "fault"
         /\ \A t \in Users : us[t].at \in Popping => list # <<>>
         /\ \A t \in Users : us[t].at \in Carrying =>
              /\ us[t].blk \in 1 .. made
              /\ \A i \in 1 .. Len(list) : list[i] # us[t].blk
              /\ \A u \in Users \ {t} : us[u].at \in Carrying =>
                   us[u].blk # us[t].blk
<1> DEFINE pc == [t \in Users |-> Phase(us[t].at)]
           blk == [t \in Users |-> us[t].blk]
<1>1. /\ list \in Seq(Nat \ {0}) /\ made \in Nat
  BY DEF P!IInv, P!TypeOK, P!Blocks, P!NoBlock
<1>2. \A i \in 1 .. Len(list) : list[i] \in P!ToSet(list)
  BY <1>1 DEF P!ToSet
<1>3. \A i \in 1 .. Len(list) : list[i] \in 1 .. made
  BY <1>2 DEF P!IInv, P!Made
<1>4. \A i, j \in 1 .. Len(list) : list[i] = list[j] => i = j
  BY <1>1 DEF P!IInv, P!OneOwner, P!IsInjective
<1>5. \A t \in Users : us[t].at # "fault"
  BY PhaseOf DEF P!IInv, P!NoFault
<1>6. ASSUME NEW t \in Users, us[t].at \in Popping PROVE list # <<>>
  <2>1. t \in P!Those({"pop"}) BY <1>6, PhaseOf DEF P!Those
  <2>2. P!Those({"pop"}) # {} /\ P!IsFiniteSet(P!Those({"pop"}))
    BY <2>1, P!NumberType, AssumptionsMapped, BlockNumsNat, StartCountsNat, MaxCountNat
  <2>3. P!Number({"pop"}) # 0 /\ P!Number({"pop"}) \in Nat
    BY <2>2, P!NumberType, P!FS_EmptySet, AssumptionsMapped, BlockNumsNat, StartCountsNat,
       MaxCountNat DEF P!Number
  <2>4. P!Number({"pop"}) <= Len(list) BY DEF P!IInv, P!EnoughFree
  <2> QED BY <1>1, <2>3, <2>4
<1>7. ASSUME NEW t \in Users, us[t].at \in Carrying
      PROVE  t \in P!Those({"grow", "push"})
  BY <1>7, PhaseOf DEF P!Those, Carrying
<1>8. ASSUME NEW t \in Users, us[t].at \in Carrying
      PROVE  /\ us[t].blk \in 1 .. made
             /\ us[t].blk \notin P!ToSet(list)
             /\ \A u \in Users \ {t} : us[u].at \in Carrying => us[u].blk # us[t].blk
  <2>1. us[t].blk \in 0 .. made /\ us[t].blk # 0
    BY <1>7, <1>8 DEF P!IInv, P!Made, P!NoBlock
  <2>2. us[t].blk \in 1 .. made BY <1>1, <2>1
  <2> QED BY <1>7, <1>8, <2>2 DEF P!IInv, P!OneOwner
<1> QED BY <1>1, <1>2, <1>3, <1>4, <1>5, <1>6, <1>8

-----------------------------------------------------------------------------
(* A thread goes on; the others stay *)

LEMMA Gone ==
  ASSUME Typed, NEW t \in Users, NEW from, NEW new, Goes(t, from, new)
  PROVE  /\ us[t].at = from /\ us'[t] = new
         /\ \A u \in Users \ {t} : us'[u] = us[u]
         /\ new \in Locals => us' \in [Users -> Locals]
BY DEF Typed, Goes

\* A step that leaves the list, its links and the numbers as they are keeps the invariant
\* when the thread has its number already and what it has read is true.
LEMMA QuietStep ==
  ASSUME LFInv, NEW t \in Users, NEW from, NEW new \in Locals, Goes(t, from, new),
         UNCHANGED <<made, poolTop, stpNext, list, number>>,
         new.at = "next" => new.live \in 1 .. made,
         new.at \in Numbered => from \in Numbered /\ new.id = us[t].id,
         new.at \in SawNumber => \/ new.pre.unique = poolTop.unique
                                 \/ from \in SawNumber /\ new.pre.unique = us[t].pre.unique,
         new.at \in SawNumber /\ new.pre.unique = poolTop.unique =>
           /\ new.at \in SawTop => new.pre.block = poolTop.block
           /\ new.at = "next" => new.live = poolTop.block
           /\ new.at = "allocSwap" => new.live = stpNext[poolTop.block]
           /\ new.at = "freeSwap" => stpNext[new.blk] = poolTop.block
  PROVE  Typed' /\ Linked' /\ Fresh' /\ Current'
<1> USE DEF LFInv
<1>1. /\ us[t].at = from /\ us'[t] = new /\ us' \in [Users -> Locals]
      /\ \A u \in Users \ {t} : us'[u] = us[u]
  BY Gone
<1>2. Typed' BY <1>1 DEF Typed
<1>3. Linked' BY DEF Linked
<1>4. /\ \A u \in Users : HasNumber(u)' => HasNumber(u) /\ us'[u].id = us[u].id
      /\ \A u \in Users : Read(u)' => \/ us'[u].pre.unique = poolTop.unique
                                      \/ Read(u) /\ us'[u].pre.unique = us[u].pre.unique
  BY <1>1 DEF HasNumber, Read
<1>5. Fresh' BY <1>4 DEF Fresh
<1>6. Current'
  <2> SUFFICES ASSUME NEW u \in Users, Read(u)', us'[u].pre.unique = poolTop.unique
               PROVE  /\ us'[u].at \in SawTop => us'[u].pre.block = poolTop.block
                      /\ us'[u].at = "next" => us'[u].live = poolTop.block
                      /\ us'[u].at = "allocSwap" => us'[u].live = stpNext[poolTop.block]
                      /\ us'[u].at = "freeSwap" => stpNext[us'[u].blk] = poolTop.block
    BY DEF Current
  <2>1. CASE u = t BY <1>1, <2>1 DEF Read
  <2>2. CASE u # t
    <3>1. us'[u] = us[u] BY <1>1, <2>2
    <3>2. Read(u) BY <3>1 DEF Read
    <3> QED BY <3>1, <3>2 DEF Current
  <2> QED BY <2>1, <2>2
<1> QED BY <1>2, <1>3, <1>5, <1>6

\* A number that has just been taken is nobody's and was never the top's.
LEMMA NumberTaken ==
  ASSUME LFInv, NEW t \in Users, NEW from, NEW new \in Locals, Goes(t, from, new),
         number' = number + 1, UNCHANGED <<made, poolTop, stpNext, list>>,
         new.at \notin SawNumber, new.id = number + 1
  PROVE  Typed' /\ Linked' /\ Fresh' /\ Current'
<1> USE DEF LFInv
<1>1. /\ us[t].at = from /\ us'[t] = new /\ us' \in [Users -> Locals]
      /\ \A u \in Users \ {t} : us'[u] = us[u]
  BY Gone
<1>2. Typed' BY <1>1 DEF Typed, SawNumber
<1>3. Linked' BY DEF Linked
<1>4. /\ \A u \in Users \ {t} : (HasNumber(u)' <=> HasNumber(u)) /\ us'[u].id = us[u].id
      /\ \A u \in Users : Read(u)' => u # t /\ Read(u) /\ us'[u] = us[u]
      /\ us'[t].id = number + 1
  BY <1>1 DEF HasNumber, Read
<1>5. number \in Nat /\ poolTop.unique \in Nat /\ poolTop.unique <= number
  BY DEF Typed, Fresh, Tops
<1>6. \A u \in Users : us[u].id \in Nat /\ us[u].pre.unique \in Nat
  BY DEF Typed, Locals, Tops
<1>7. Fresh'
  <2>1. ASSUME NEW u \in Users, HasNumber(u)'
        PROVE  /\ us'[u].id <= number + 1 /\ us'[u].id # poolTop.unique
               /\ \A v \in Users \ {u} : HasNumber(v)' => us'[v].id # us'[u].id
               /\ \A v \in Users : Read(v)' => us'[v].pre.unique # us'[u].id
    <3>1. CASE u = t BY <1>4, <1>5, <1>6, <3>1 DEF Fresh
    <3>2. CASE u # t BY <1>4, <1>5, <1>6, <2>1, <3>2 DEF Fresh
    <3> QED BY <3>1, <3>2
  <2>2. \A u \in Users : Read(u)' => us'[u].pre.unique <= number + 1
    BY <1>4, <1>5, <1>6 DEF Fresh
  <2> QED BY <1>5, <2>1, <2>2 DEF Fresh
<1>8. Current' BY <1>4 DEF Current
<1> QED BY <1>2, <1>3, <1>7, <1>8

\* The successor of a block that is being given back is nobody's concern but its
\* holder's.
LEMMA AppendStep ==
  ASSUME LFInv, NEW t \in Users, AppendBlock(t)
  PROVE  Typed' /\ Linked' /\ Fresh' /\ Current'
<1> USE DEF LFInv
<1> DEFINE new == [us[t] EXCEPT !.at = "freeSwap"]
<1>1. Goes(t, "append", new) /\ UNCHANGED <<made, poolTop, list, number>>
      /\ stpNext' = [stpNext EXCEPT ![us[t].blk] = poolTop.block]
  BY DEF AppendBlock, counts
<1>2. new \in Locals /\ us[t] \in Locals BY DEF Typed, Locals, Places, Pushing, Carrying
<1>3. /\ us[t].at = "append" /\ us'[t] = new /\ us' \in [Users -> Locals]
      /\ \A u \in Users \ {t} : us'[u] = us[u]
  BY <1>1, <1>2, Gone
<1>4. /\ new.at = "freeSwap" /\ new.id = us[t].id /\ new.pre = us[t].pre /\ new.blk = us[t].blk
  BY <1>2 DEF Locals
<1> HIDE DEF new
<1>5. /\ us[t].blk \in 1 .. made /\ \A i \in 1 .. Len(list) : list[i] # us[t].blk
      /\ \A u \in Users \ {t} : us[u].at \in Pushing => us[u].blk # us[t].blk
  BY <1>3, MappedFacts DEF Pushing, Carrying
<1>6. /\ stpNext' \in [1 .. made -> Int] /\ stpNext'[us[t].blk] = poolTop.block
      /\ \A b : b # us[t].blk => stpNext'[b] = stpNext[b]
  <2>1. poolTop.block \in Int /\ stpNext \in [1 .. made -> Int] BY DEF Typed, Tops
  <2> QED BY <1>1, <1>5, <2>1
<1>7. Typed' BY <1>1, <1>3, <1>4, <1>6 DEF Typed
<1>8. /\ list \in Seq(Nat \ {0}) /\ Len(list) \in Nat BY MappedFacts
<1>9. Linked'
  <2>1. Linked /\ list' = list /\ poolTop' = poolTop BY <1>1
  <2>2. \A i \in 1 .. Len(list) - 1 : i \in 1 .. Len(list) BY <1>8
  <2> QED BY ONLY <1>5, <1>6, <2>1, <2>2 DEF Linked
<1>10. /\ \A u \in Users : (HasNumber(u)' <=> HasNumber(u)) /\ us'[u].id = us[u].id
       /\ \A u \in Users : (Read(u)' <=> Read(u)) /\ us'[u].pre = us[u].pre
  BY <1>3, <1>4 DEF HasNumber, Read, Numbered, SawNumber, Popping, Pushing
<1>11. Fresh' BY <1>1, <1>10 DEF Fresh
<1>12. Current'
  <2> SUFFICES ASSUME NEW u \in Users, Read(u), us[u].pre.unique = poolTop.unique
               PROVE  /\ us'[u].at \in SawTop => us[u].pre.block = poolTop.block
                      /\ us'[u].at = "next" => us'[u].live = poolTop.block
                      /\ us'[u].at = "allocSwap" => us'[u].live = stpNext'[poolTop.block]
                      /\ us'[u].at = "freeSwap" => stpNext'[us'[u].blk] = poolTop.block
    BY <1>1, <1>10 DEF Current
  <2>1. CASE u = t BY <1>3, <1>4, <1>6, <2>1 DEF Current, SawTop
  <2>2. CASE u # t
    <3>1. us'[u] = us[u] BY <1>3, <2>2
    <3>2. us[u].at = "allocSwap" => poolTop.block # us[t].blk
      <4>1. us[u].at = "allocSwap" => list # <<>> BY MappedFacts DEF Popping
      <4> QED BY <1>5, <1>8, <4>1 DEF Linked
    <3>3. us[u].at = "freeSwap" => us[u].blk # us[t].blk BY <1>5, <2>2 DEF Pushing
    <3> QED BY <1>6, <3>1, <3>2, <3>3 DEF Current
  <2> QED BY <2>1, <2>2
<1> QED BY <1>7, <1>9, <1>11, <1>12

\* The number of a new top was nobody's, so no compare-and-swap on what was read before
\* succeeds any more.
LEMMA NewTop ==
  ASSUME LFInv, NEW t \in Users, NEW from, NEW new \in Locals, Goes(t, from, new),
         from \in Numbered, new.at \notin Numbered, new.at \notin SawNumber,
         poolTop' \in Tops, poolTop'.unique = us[t].id, number' = number
  PROVE  Fresh' /\ Current' /\ us' \in [Users -> Locals]
<1> USE DEF LFInv
<1>1. /\ us[t].at = from /\ us'[t] = new /\ us' \in [Users -> Locals]
      /\ \A u \in Users \ {t} : us'[u] = us[u]
  BY Gone
<1>2. /\ \A u \in Users : HasNumber(u)' => u # t /\ HasNumber(u) /\ us'[u].id = us[u].id
      /\ \A u \in Users : Read(u)' => u # t /\ Read(u) /\ us'[u].pre = us[u].pre
      /\ HasNumber(t)
  BY <1>1 DEF HasNumber, Read
<1>3. Fresh' BY <1>2 DEF Fresh
<1>4. Current' BY <1>2 DEF Current, Fresh
<1> QED BY <1>1, <1>3, <1>4

-----------------------------------------------------------------------------
(* Each action: a step of CMemoryPool, or none, that keeps the links and the numbers *)

Links == Typed /\ Linked /\ Fresh /\ Current

phases == [t \in Users |-> Phase(us[t].at)]
counted == [t \in Users |-> us[t].seen]
carried == [t \in Users |-> us[t].blk]

Stays ==
  UNCHANGED <<storeFlag, BlockCount, AllocCount, list, inUse, made, start, failed, phases, counted,
              carried>>

LEMMA StaysMapped == Stays => UNCHANGED (P!vars)
BY DEF Stays, P!vars, phases, counted, carried

LEMMA Moved ==
  ASSUME Typed, NEW t \in Users, NEW from, NEW new \in Locals, Goes(t, from, new)
  PROVE  /\ P!Step(t, Phase(from), Phase(new.at)) /\ phases' = [phases EXCEPT ![t] = Phase(new.at)]
         /\ counted' = [counted EXCEPT ![t] = new.seen]
         /\ carried' = [carried EXCEPT ![t] = new.blk]
         /\ Phase(from) = Phase(new.at) => phases' = phases
         /\ new.seen = us[t].seen => counted' = counted
         /\ new.blk = us[t].blk => carried' = carried
<1>1. /\ us[t].at = from /\ us'[t] = new /\ \A u \in Users \ {t} : us'[u] = us[u]
  BY Gone
<1>2. /\ phases' = [u \in Users |-> Phase(us'[u].at)]
      /\ counted' = [u \in Users |-> us'[u].seen] /\ carried' = [u \in Users |-> us'[u].blk]
  BY DEF phases, counted, carried
<1>3. phases' = [phases EXCEPT ![t] = Phase(new.at)] BY <1>1, <1>2 DEF phases
<1>4. counted' = [counted EXCEPT ![t] = new.seen] BY <1>1, <1>2 DEF counted
<1>5. carried' = [carried EXCEPT ![t] = new.blk] BY <1>1, <1>2 DEF carried
<1>6. phases[t] = Phase(from) BY <1>1 DEF phases
<1>7. P!Step(t, Phase(from), Phase(new.at)) BY <1>3, <1>6 DEF P!Step, phases
<1>8. /\ Phase(from) = Phase(new.at) => phases' = phases
      /\ new.seen = us[t].seen => counted' = counted
      /\ new.blk = us[t].blk => carried' = carried
  BY <1>3, <1>4, <1>5, <1>6 DEF phases, counted, carried
<1> QED BY <1>3, <1>4, <1>5, <1>7, <1>8

LEMMA FetchStays ==
  ASSUME Typed, NEW t \in Users, NEW from, NEW new \in Locals, Fetch(t, from, new),
         Phase(from) = Phase(new.at), new.seen = us[t].seen, new.blk = us[t].blk
  PROVE  Stays /\ UNCHANGED <<made, poolTop, stpNext, list, number>>
<1>1. Goes(t, from, new) BY DEF Fetch
<1>2. phases' = phases /\ counted' = counted /\ carried' = carried BY <1>1, Moved
<1> QED BY <1>2 DEF Fetch, counts, blocks, Stays
\* A thread that has returned, or begins a call.
LEMMA AtRest ==
  ASSUME Typed, NEW t \in Users
  PROVE  /\ Back(t) \in Locals /\ Back(t).at = "out" /\ Back(t).seen = us[t].seen
         /\ Back(t).blk = NULL /\ Back(t).id = 0
         /\ us[t] \in Locals
         /\ us[t].at \notin Carrying => us[t].blk = NULL
<1>1. us[t] \in Locals /\ us[t].seen \in Nat BY DEF Typed, Locals
<1>2. Back(t) = [at |-> "out", seen |-> us[t].seen, id |-> 0, pre |-> NoBlockTop, blk |-> NULL,
                 live |-> NULL]
  BY DEF Back, Away
<1>3. NoBlockTop \in Tops BY DEF NoBlockTop, Tops, NULL
<1> QED BY <1>1, <1>2, <1>3 DEF Locals, Places, NULL

LEMMA ReadCountStep ==
  ASSUME LFInv, NEW t \in Users, ReadCount(t)
  PROVE  P!Read(t) /\ Links'
<1> DEFINE new == [Back(t) EXCEPT !.at = "count", !.seen = BlockCount]
<1>1. /\ Typed /\ Goes(t, "out", new) /\ AllocCount < MaxCount
      /\ UNCHANGED <<counts, blocks, number, inUse>>
  BY DEF ReadCount, Fetch, LFInv
<1>2. BlockCount \in Nat BY DEF LFInv, P!IInv, P!TypeOK
<1>3. /\ new \in Locals /\ new.at = "count" /\ new.seen = BlockCount /\ new.blk = NULL
  BY <1>1, <1>2, AtRest DEF Locals, Places, Carrying, Pushing
<1>4. us[t].at = "out" /\ us[t].blk = NULL
  BY <1>1, Gone, AtRest DEF Carrying, Pushing
<1> HIDE DEF new
<1>5. /\ P!Step(t, "idle", "count") /\ counted' = [counted EXCEPT ![t] = BlockCount]
      /\ carried' = carried
  BY <1>1, <1>3, <1>4, Moved, PhaseOf
<1>6. P!Read(t) BY <1>1, <1>5 DEF P!Read, counted, carried, counts, blocks
<1>7. Links'
  BY <1>1, <1>3, QuietStep DEF counts, blocks, Links, Numbered, SawNumber, Popping, Pushing
<1> QED BY <1>6, <1>7

LEMMA CountStep ==
  ASSUME LFInv, NEW t \in Users, Count(t)
  PROVE  P!Count(t) /\ Links'
<1> DEFINE new == [us[t] EXCEPT !.at = "check"]
<1>1. /\ Typed /\ Goes(t, "count", new) /\ AllocCount' = AllocCount + 1
      /\ UNCHANGED <<storeFlag, BlockCount, made, start, failed, blocks, number, inUse>>
  BY DEF Count, LFInv
<1>2. us[t].at = "count" /\ us[t].blk = NULL /\ us[t] \in Locals
  BY <1>1, Gone, AtRest DEF Carrying, Pushing
<1>3. /\ new \in Locals /\ new.at = "check" /\ new.seen = us[t].seen /\ new.blk = us[t].blk
  BY <1>2 DEF Locals, Places
<1> HIDE DEF new
<1>4. P!Step(t, "count", "check") /\ counted' = counted /\ carried' = carried
  BY <1>1, <1>3, Moved, PhaseOf
<1>5. P!Count(t) BY <1>1, <1>4 DEF P!Count, counted, carried, blocks
<1>6. Links'
  BY <1>1, <1>3, QuietStep DEF blocks, Links, Numbered, SawNumber, Popping, Pushing
<1> QED BY <1>5, <1>6

LEMMA CheckStep ==
  ASSUME LFInv, NEW t \in Users, Check(t)
  PROVE  P!Check(t) /\ Links'
<1> DEFINE enough == us[t].seen >= AllocCount
           new == IF enough THEN [us[t] EXCEPT !.at = "number"]
                  ELSE IF storeFlag THEN [us[t] EXCEPT !.at = "malloc"] ELSE Back(t)
           phase == IF enough THEN "pop" ELSE IF storeFlag THEN "malloc" ELSE "idle"
<1>1. /\ Typed /\ Goes(t, "check", new)
      /\ failed' = IF enough \/ storeFlag THEN failed ELSE failed + 1
      /\ UNCHANGED <<storeFlag, BlockCount, AllocCount, made, start, blocks, number, inUse>>
  BY DEF Check, LFInv
<1>2. us[t].at = "check" /\ us[t].blk = NULL /\ us[t] \in Locals
  BY <1>1, Gone, AtRest DEF Carrying, Pushing
<1>3. /\ new \in Locals /\ new.seen = us[t].seen /\ new.blk = us[t].blk
      /\ new.at = IF enough THEN "number" ELSE IF storeFlag THEN "malloc" ELSE "out"
  <2>1. CASE enough BY <1>2, <2>1 DEF Locals, Places, Popping
  <2>2. CASE ~enough /\ storeFlag BY <1>2, <2>2 DEF Locals, Places
  <2>3. CASE ~enough /\ ~storeFlag BY <1>1, <1>2, <2>3, AtRest
  <2> QED BY <2>1, <2>2, <2>3
<1>4. Phase(new.at) = phase BY <1>3, PhaseOf DEF Popping
<1> HIDE DEF new, phase
<1>5. P!Step(t, "check", phase) /\ counted' = counted /\ carried' = carried
  BY <1>1, <1>3, <1>4, Moved, PhaseOf
<1>6. [u \in Users |-> us[u].seen][t] = us[t].seen OBVIOUS
<1>7. P!Check(t) BY <1>1, <1>5, <1>6 DEF P!Check, counted, carried, blocks, phase
<1>8. Links'
  BY <1>1, <1>3, QuietStep DEF blocks, Links, Numbered, SawNumber, Popping, Pushing
<1> QED BY <1>7, <1>8

LEMMA NewBlockStep ==
  ASSUME LFInv, NEW t \in Users, NewBlock(t)
  PROVE  P!Grow(t) /\ Links'
<1>1. /\ Typed /\ Goes(t, "newBlock", Back(t)) /\ BlockCount' = BlockCount + 1
      /\ inUse' = inUse \cup {us[t].blk}
      /\ UNCHANGED <<storeFlag, AllocCount, made, start, failed, blocks, number>>
  BY DEF NewBlock, LFInv
<1>2. /\ P!Step(t, "grow", "idle") /\ counted' = counted /\ carried' = [carried EXCEPT ![t] = NULL]
  BY <1>1, AtRest, Moved, PhaseOf
<1>3. [u \in Users |-> us[u].blk][t] = us[t].blk OBVIOUS
<1>4. P!Grow(t)
  BY <1>1, <1>2, <1>3 DEF P!Grow, P!NoBlock, NULL, counted, carried, blocks
<1>5. Links'
  BY <1>1, AtRest, QuietStep DEF blocks, Links, Numbered, SawNumber, Popping, Pushing
<1> QED BY <1>4, <1>5

LEMMA UncountStep ==
  ASSUME LFInv, NEW t \in Users, Uncount(t)
  PROVE  P!Uncount(t) /\ Links'
<1>1. /\ Typed /\ Goes(t, "uncount", Back(t)) /\ AllocCount' = AllocCount - 1
      /\ UNCHANGED <<storeFlag, BlockCount, made, start, failed, blocks, number, inUse>>
  BY DEF Uncount, LFInv
<1>2. us[t].blk = NULL BY <1>1, Gone, AtRest DEF Carrying, Pushing
<1>3. P!Step(t, "uncount", "idle") /\ counted' = counted /\ carried' = carried
  BY <1>1, <1>2, AtRest, Moved, PhaseOf
<1>4. P!Uncount(t) BY <1>1, <1>3 DEF P!Uncount, counted, carried, blocks
<1>5. Links'
  BY <1>1, AtRest, QuietStep DEF blocks, Links, Numbered, SawNumber, Popping, Pushing
<1> QED BY <1>4, <1>5

\* A new block is not in the list, so the list's links are where they were.
LEMMA MallocStep ==
  ASSUME LFInv, NEW t \in Users, Malloc(t)
  PROVE  P!Malloc(t) /\ Links'
<1> DEFINE new == [us[t] EXCEPT !.at = "newBlock", !.blk = made + 1]
<1>1. /\ Typed /\ Linked /\ Fresh /\ Current /\ P!IInv /\ Goes(t, "malloc", new) /\ made' = made + 1
      /\ stpNext' = [i \in 1 .. made + 1 |-> IF i <= made THEN stpNext[i] ELSE Junk]
      /\ UNCHANGED <<storeFlag, BlockCount, AllocCount, start, failed, poolTop, list, number, inUse>>
  BY DEF Malloc, LFInv
<1>2. made \in Nat /\ us[t] \in Locals BY <1>1, MappedFacts, AtRest
<1>3. /\ new \in Locals /\ new.at = "newBlock" /\ new.seen = us[t].seen /\ new.blk = made + 1
  <2>1. PICK l \in Nat : l = made + 1 BY <1>2
  <2>2. new = [us[t] EXCEPT !.at = "newBlock", !.blk = l] BY <2>1
  <2> HIDE DEF new
  <2> QED BY <1>2, <2>1, <2>2 DEF Locals, Places, Carrying
<1> HIDE DEF new
<1>4. /\ P!Step(t, "malloc", "grow") /\ counted' = counted
      /\ carried' = [carried EXCEPT ![t] = made + 1]
  BY <1>1, <1>3, Moved, PhaseOf
<1>5. P!Malloc(t) BY <1>1, <1>4 DEF P!Malloc, counted, carried
<1>6. /\ us'[t] = new /\ us' \in [Users -> Locals] /\ \A u \in Users \ {t} : us'[u] = us[u]
  BY <1>1, <1>3, Gone
<1>7. stpNext' \in [1 .. made + 1 -> Int] /\ \A i \in 1 .. made : stpNext'[i] = stpNext[i]
  BY <1>1, <1>2 DEF Typed, Junk
<1>8. Typed' BY <1>1, <1>2, <1>3, <1>6, <1>7 DEF Typed
<1>9. Linked'
  <2>1. Linked /\ list' = list /\ poolTop' = poolTop BY <1>1
  <2>2. Len(list) \in Nat /\ \A i \in 1 .. Len(list) : list[i] \in 1 .. made
    BY <1>1, MappedFacts
  <2>3. \A i \in 1 .. Len(list) - 1 : i \in 1 .. Len(list) BY <2>2
  <2> QED BY ONLY <1>7, <2>1, <2>2, <2>3 DEF Linked
<1>10. /\ \A u \in Users : HasNumber(u)' => u # t /\ HasNumber(u) /\ us'[u] = us[u]
       /\ \A u \in Users : Read(u)' => u # t /\ Read(u) /\ us'[u] = us[u]
  BY <1>3, <1>6 DEF HasNumber, Read, Numbered, SawNumber, Popping, Pushing
<1>11. Fresh' BY <1>1, <1>10 DEF Fresh
<1>12. \A u \in Users : us[u].at = "allocSwap" => poolTop.block \in 1 .. made
  <2>1. \A u \in Users : us[u].at = "allocSwap" => list # <<>>
    BY <1>1, MappedFacts DEF Popping
  <2>2. list # <<>> => list[1] \in 1 .. made BY <1>1, MappedFacts
  <2> QED BY <1>1, <2>1, <2>2 DEF Linked
<1>13. \A u \in Users : us[u].at = "freeSwap" => us[u].blk \in 1 .. made
  BY <1>1, MappedFacts DEF Pushing, Carrying
<1>14. Current' BY <1>1, <1>7, <1>10, <1>12, <1>13 DEF Current
<1> QED BY <1>5, <1>8, <1>9, <1>11, <1>14 DEF Links

-----------------------------------------------------------------------------
(* The steps of the two loops that CMemoryPool does not see *)

LEMMA FetchLinks ==
  ASSUME LFInv, NEW t \in Users, NEW from, NEW new \in Locals, Fetch(t, from, new),
         Phase(from) = Phase(new.at), new.seen = us[t].seen, new.blk = us[t].blk,
         new.at = "next" => new.live \in 1 .. made,
         new.at \in Numbered => from \in Numbered /\ new.id = us[t].id,
         new.at \in SawNumber => \/ new.pre.unique = poolTop.unique
                                 \/ from \in SawNumber /\ new.pre.unique = us[t].pre.unique,
         new.at \in SawNumber /\ new.pre.unique = poolTop.unique =>
           /\ new.at \in SawTop => new.pre.block = poolTop.block
           /\ new.at = "next" => new.live = poolTop.block
           /\ new.at = "allocSwap" => new.live = stpNext[poolTop.block]
           /\ new.at = "freeSwap" => stpNext[new.blk] = poolTop.block
  PROVE  Stays /\ Links'
<1>1. Typed BY DEF LFInv
<1>2. Goes(t, from, new) BY DEF Fetch
<1>3. Stays /\ UNCHANGED <<made, poolTop, stpNext, list, number>> BY <1>1, FetchStays
<1>4. Typed' /\ Linked' /\ Fresh' /\ Current' BY <1>2, <1>3, QuietStep
<1> QED BY <1>3, <1>4 DEF Links

LEMMA NumberTakenStep ==
  ASSUME LFInv, NEW t \in Users, AllocNumber(t)
  PROVE  Stays /\ Links'
<1> DEFINE new == [us[t] EXCEPT !.at = "allocUnique", !.id = number + 1]
<1>1. /\ Typed /\ Goes(t, "number", new) /\ number' = number + 1
      /\ UNCHANGED <<counts, blocks, inUse>>
  BY DEF AllocNumber, TakeNumber, LFInv
<1>2. us[t].at = "number" /\ us[t] \in Locals /\ number \in Nat
  BY <1>1, Gone, AtRest DEF Typed
<1>3. /\ new \in Locals /\ new.at = "allocUnique" /\ new.seen = us[t].seen /\ new.blk = us[t].blk
      /\ new.id = number + 1
  <2>1. PICK i \in Nat : i = number + 1 BY <1>2
  <2>2. new = [us[t] EXCEPT !.at = "allocUnique", !.id = i] BY <2>1
  <2> HIDE DEF new
  <2> QED BY <1>2, <2>1, <2>2 DEF Locals, Places, Popping, Carrying, Pushing
<1> HIDE DEF new
<1>4. phases' = phases /\ counted' = counted /\ carried' = carried
  BY <1>1, <1>3, Moved, PhaseOf DEF Popping
<1>5. Stays BY <1>1, <1>4 DEF Stays, counts, blocks
<1>6. Links'
  BY <1>1, <1>3, NumberTaken DEF blocks, counts, Links, SawNumber
<1> QED BY <1>5, <1>6

\* Both calls read the top in the same way: first its number, then its block.
LEMMA UniqueRead ==
  ASSUME LFInv, NEW t \in Users, NEW from \in {"allocUnique", "freeUnique"},
         NEW to, to = IF from = "allocUnique" THEN "allocTop" ELSE "freeTop",
         Fetch(t, from, [us[t] EXCEPT !.at = to, !.pre.unique = poolTop.unique])
  PROVE  Stays /\ Links'
<1> DEFINE pre == [us[t].pre EXCEPT !.unique = poolTop.unique]
           new == [us[t] EXCEPT !.at = to, !.pre = pre]
<1>1. /\ Typed /\ Fetch(t, from, new) BY DEF LFInv
<1>2. us[t].at = from /\ us[t] \in Locals /\ poolTop.unique \in Nat
  BY <1>1, Gone, AtRest DEF Typed, Tops, Fetch
<1>3. pre \in Tops /\ pre.unique = poolTop.unique BY <1>2 DEF Locals, Tops
<1> HIDE DEF pre
<1>4. /\ new \in Locals /\ new.at = to /\ new.seen = us[t].seen /\ new.blk = us[t].blk
      /\ new.id = us[t].id /\ new.pre = pre
  BY <1>2, <1>3 DEF Locals, Places, Popping, Carrying, Pushing
<1> HIDE DEF new
<1>5. Phase(from) = Phase(new.at) BY <1>4, PhaseOf DEF Popping, Pushing
<1>6. from \in Numbered BY DEF Numbered, Popping, Pushing
<1>7. new.at \notin SawTop \cup {"next", "allocSwap", "freeSwap"} BY <1>4 DEF SawTop
<1> QED BY <1>1, <1>3, <1>4, <1>5, <1>6, <1>7, FetchLinks

LEMMA TopRead ==
  ASSUME LFInv, NEW t \in Users, NEW from \in {"allocTop", "freeTop"},
         NEW to, to = IF from = "allocTop" THEN "live" ELSE "append",
         Fetch(t, from, [us[t] EXCEPT !.at = to, !.pre.block = poolTop.block])
  PROVE  Stays /\ Links'
<1> DEFINE pre == [us[t].pre EXCEPT !.block = poolTop.block]
           new == [us[t] EXCEPT !.at = to, !.pre = pre]
<1>1. /\ Typed /\ Fetch(t, from, new) BY DEF LFInv
<1>2. us[t].at = from /\ us[t] \in Locals /\ poolTop.block \in Int
  BY <1>1, Gone, AtRest DEF Typed, Tops, Fetch
<1>3. pre \in Tops /\ pre.unique = us[t].pre.unique /\ pre.block = poolTop.block
  BY <1>2 DEF Locals, Tops
<1> HIDE DEF pre
<1>4. /\ new \in Locals /\ new.at = to /\ new.seen = us[t].seen /\ new.blk = us[t].blk
      /\ new.id = us[t].id /\ new.pre = pre
  BY <1>2, <1>3 DEF Locals, Places, Popping, Carrying, Pushing
<1> HIDE DEF new
<1>5. Phase(from) = Phase(new.at) BY <1>4, PhaseOf DEF Popping, Pushing
<1>6. from \in Numbered /\ from \in SawNumber
  BY DEF Numbered, SawNumber, Popping, Pushing
<1>7. new.at \notin {"next", "allocSwap", "freeSwap"} BY <1>4
<1> QED BY <1>1, <1>3, <1>4, <1>5, <1>6, <1>7, FetchLinks

\* The thread was sent to the list, so there is a block to follow.
LEMMA LiveTopStep ==
  ASSUME LFInv, NEW t \in Users, LiveTop(t)
  PROVE  Stays /\ Links'
<1> DEFINE to == IF poolTop.block \in 1 .. made THEN "next" ELSE "fault"
           new == [us[t] EXCEPT !.at = to, !.live = poolTop.block]
<1>1. /\ Typed /\ Linked /\ Current /\ P!IInv /\ Fetch(t, "live", new) BY DEF LFInv, LiveTop
<1>2. us[t].at = "live" /\ us[t] \in Locals /\ poolTop.block \in Int
  BY <1>1, Gone, AtRest DEF Typed, Tops, Fetch
<1>3. list # <<>> /\ list[1] \in 1 .. made
  BY <1>1, <1>2, MappedFacts DEF Popping
<1>4. to = "next" /\ poolTop.block \in 1 .. made BY <1>1, <1>3 DEF Linked
<1> HIDE DEF to
<1>5. /\ new \in Locals /\ new.at = "next" /\ new.seen = us[t].seen /\ new.blk = us[t].blk
      /\ new.id = us[t].id /\ new.pre = us[t].pre /\ new.live = poolTop.block
  BY <1>2, <1>4 DEF Locals, Places, Popping, Carrying, Pushing
<1> HIDE DEF new
<1>6. Phase("live") = Phase(new.at) BY <1>5, PhaseOf DEF Popping
<1>7. "live" \in Numbered /\ "live" \in SawNumber /\ "live" \in SawTop
  BY DEF Numbered, SawNumber, SawTop, Popping
<1>8. new.pre.unique = poolTop.unique => new.pre.block = poolTop.block
  BY <1>1, <1>2, <1>5, <1>7 DEF Current, Read
<1> QED BY <1>1, <1>4, <1>5, <1>6, <1>7, <1>8, FetchLinks
LEMMA NextBlockStep ==
  ASSUME LFInv, NEW t \in Users, NextBlock(t)
  PROVE  Stays /\ Links'
<1> DEFINE new == [us[t] EXCEPT !.at = "allocSwap", !.live = stpNext[@]]
<1>1. /\ Typed /\ Current /\ Fetch(t, "next", new) BY DEF LFInv, NextBlock
<1>2. us[t].at = "next" /\ us[t] \in Locals BY <1>1, Gone, AtRest DEF Fetch
<1>3. us[t].live \in 1 .. made /\ stpNext[us[t].live] \in Int BY <1>1, <1>2 DEF Typed
<1>4. /\ new \in Locals /\ new.at = "allocSwap" /\ new.seen = us[t].seen /\ new.blk = us[t].blk
      /\ new.id = us[t].id /\ new.pre = us[t].pre /\ new.live = stpNext[us[t].live]
  BY <1>2, <1>3 DEF Locals, Places, Popping, Carrying, Pushing
<1> HIDE DEF new
<1>5. Phase("next") = Phase(new.at) BY <1>4, PhaseOf DEF Popping
<1>6. "next" \in Numbered /\ "next" \in SawNumber /\ "next" \in SawTop
  BY DEF Numbered, SawNumber, SawTop, Popping
<1>7. new.pre.unique = poolTop.unique =>
        new.pre.block = poolTop.block /\ new.live = stpNext[poolTop.block]
  BY <1>1, <1>2, <1>4, <1>6 DEF Current, Read
<1> QED BY <1>1, <1>4, <1>5, <1>6, <1>7, FetchLinks

\* A compare-and-swap that fails begins the loop again.
LEMMA SwapFailed ==
  ASSUME LFInv, NEW t \in Users, NEW from \in {"allocSwap", "freeSwap"},
         NEW to, to = IF from = "allocSwap" THEN "allocUnique" ELSE "freeUnique",
         Fetch(t, from, [us[t] EXCEPT !.at = to])
  PROVE  Stays /\ Links'
<1> DEFINE new == [us[t] EXCEPT !.at = to]
<1>1. Typed /\ Fetch(t, from, new) BY DEF LFInv
<1>2. us[t].at = from /\ us[t] \in Locals BY <1>1, Gone, AtRest DEF Fetch
<1>3. /\ new \in Locals /\ new.at = to /\ new.seen = us[t].seen /\ new.blk = us[t].blk
      /\ new.id = us[t].id
  BY <1>2 DEF Locals, Places, Popping, Carrying, Pushing
<1> HIDE DEF new
<1>4. Phase(from) = Phase(new.at) BY <1>3, PhaseOf DEF Popping, Pushing
<1>5. from \in Numbered /\ new.at \notin SawNumber /\ new.at # "next"
  BY <1>3 DEF Numbered, SawNumber, Popping, Pushing
<1> QED BY <1>1, <1>3, <1>4, <1>5, FetchLinks

-----------------------------------------------------------------------------
(* The steps that change the list *)

\* The block an exchange takes is the first of the list and the new top the second,
\* although both were read at different times.
LEMMA TakeStep ==
  ASSUME LFInv, NEW t \in Users, AllocSwap(t), Unchanged(t)
  PROVE  P!Pop(t) /\ Links'
<1>1. /\ P!IInv /\ Typed /\ Linked /\ Fresh /\ Current /\ Goes(t, "allocSwap", Back(t))
      /\ poolTop' = [block |-> us[t].live, unique |-> us[t].id]
      /\ list' = SubSeq(list, 2, Len(list)) /\ inUse' = inUse \cup {us[t].pre.block}
      /\ UNCHANGED <<counts, stpNext, number>> /\ poolTop = us[t].pre
  BY DEF AllocSwap, LFInv, Unchanged
<1>2. us[t].at = "allocSwap" /\ us[t] \in Locals /\ us[t].blk = NULL
  BY <1>1, Gone, AtRest DEF Carrying, Pushing
<1>3. list # <<>> /\ list \in Seq(Nat \ {0})
  BY <1>1, <1>2, MappedFacts DEF Popping
<1>4. poolTop.block = list[1] /\ us[t].live = stpNext[list[1]]
  BY <1>1, <1>2, <1>3 DEF Linked, Current, Read, SawNumber
<1>5. list' = Tail(list) /\ Head(list) = list[1] BY <1>1, <1>3
<1>6. /\ P!Step(t, "pop", "idle") /\ counted' = counted /\ carried' = carried
  BY <1>1, <1>2, AtRest, Moved, PhaseOf DEF Popping
<1>7. P!Pop(t) BY <1>1, <1>3, <1>4, <1>5, <1>6 DEF P!Pop, counted, carried, counts
<1>8. poolTop' \in Tops /\ poolTop'.unique = us[t].id /\ poolTop'.block = us[t].live
  BY <1>1, <1>2 DEF Locals, Tops
<1>9. Fresh' /\ Current' /\ us' \in [Users -> Locals]
  BY <1>1, <1>8, AtRest, NewTop DEF Numbered, SawNumber, Popping, Pushing
<1>10. \A u \in Users : us'[u].at = "next" => us'[u] = us[u]
  BY <1>1, AtRest, Gone
<1>11. Typed' BY <1>1, <1>8, <1>9, <1>10 DEF Typed, counts
<1>12. /\ Len(list') = Len(list) - 1 /\ Len(list) \in Nat
       /\ \A i \in 1 .. Len(list') : list'[i] = list[i + 1]
  BY <1>3, <1>5
<1>13. Linked'
  <2>1. list' # <<>> => poolTop'.block = list'[1]
    <3>1. ASSUME list' # <<>> PROVE Len(list) >= 2 BY <1>3, <1>5, <3>1
    <3>2. Len(list) >= 2 => stpNext[list[1]] = list[2] BY <1>1, <1>12 DEF Linked
    <3>3. Len(list) >= 2 => list'[1] = list[2] BY <1>12
    <3> QED BY <1>4, <1>8, <3>1, <3>2, <3>3
  <2>2. \A i \in 1 .. Len(list') - 1 : stpNext[list'[i]] = list'[i + 1]
    BY <1>1, <1>12 DEF Linked
  <2> QED BY <1>1, <2>1, <2>2 DEF Linked
<1> QED BY <1>7, <1>9, <1>11, <1>13 DEF Links

LEMMA GiveStep ==
  ASSUME LFInv, NEW t \in Users, FreeSwap(t), Unchanged(t)
  PROVE  P!Push(t) /\ Links'
<1> DEFINE new == [us[t] EXCEPT !.at = "uncount", !.blk = NULL]
<1>1. /\ P!IInv /\ Typed /\ Linked /\ Fresh /\ Current /\ Goes(t, "freeSwap", new)
      /\ poolTop' = [block |-> us[t].blk, unique |-> us[t].id]
      /\ list' = <<us[t].blk>> \o list
      /\ UNCHANGED <<counts, stpNext, number, inUse>> /\ poolTop = us[t].pre
  BY DEF FreeSwap, LFInv, Unchanged
<1>2. us[t].at = "freeSwap" /\ us[t] \in Locals /\ us[t].blk \in Nat
  BY <1>1, Gone, AtRest DEF Locals
<1>3. /\ new \in Locals /\ new.at = "uncount" /\ new.seen = us[t].seen /\ new.blk = NULL
  BY <1>2 DEF Locals, Places, NULL
<1> HIDE DEF new
<1>4. list \in Seq(Nat \ {0}) /\ us[t].blk \in Nat \ {0}
  BY <1>1, <1>2, MappedFacts DEF Carrying, Pushing
<1>5. stpNext[us[t].blk] = poolTop.block
  BY <1>1, <1>2 DEF Current, Read, SawNumber
<1>6. /\ P!Step(t, "push", "uncount") /\ counted' = counted /\ carried' = [carried EXCEPT ![t] = NULL]
  BY <1>1, <1>2, <1>3, Moved, PhaseOf DEF Pushing
<1>7. [u \in Users |-> us[u].blk][t] = us[t].blk OBVIOUS
<1>8. P!Push(t) BY <1>1, <1>6, <1>7 DEF P!Push, P!NoBlock, NULL, counted, carried, counts
<1>9. poolTop' \in Tops /\ poolTop'.unique = us[t].id /\ poolTop'.block = us[t].blk
  BY <1>1, <1>2 DEF Locals, Tops
<1>10. Fresh' /\ Current' /\ us' \in [Users -> Locals]
  BY <1>1, <1>3, <1>9, NewTop DEF Numbered, SawNumber, Popping, Pushing
<1>11. \A u \in Users : us'[u].at = "next" => us'[u] = us[u]
  BY <1>1, <1>3, Gone
<1>12. Typed' BY <1>1, <1>9, <1>10, <1>11 DEF Typed, counts
<1>13. /\ Len(list') = Len(list) + 1 /\ Len(list) \in Nat /\ list'[1] = us[t].blk
       /\ \A i \in 2 .. Len(list') : list'[i] = list[i - 1]
  BY <1>1, <1>4
<1>14. Linked'
  <2>1. \A i \in 1 .. Len(list') - 1 : stpNext[list'[i]] = list'[i + 1]
    <3> TAKE i \in 1 .. Len(list') - 1
    <3>1. CASE i = 1
      <4>1. list # <<>> /\ list'[2] = list[1] BY <1>13, <3>1
      <4> QED BY <1>1, <1>5, <1>13, <3>1, <4>1 DEF Linked
    <3>2. CASE i # 1
      <4>1. i - 1 \in 1 .. Len(list) - 1 /\ list'[i] = list[i - 1] /\ list'[i + 1] = list[i]
        <5>1. PICK n \in Nat : n = Len(list) BY <1>13
        <5>2. i \in 1 .. n BY <1>13, <5>1
        <5>3. i - 1 \in 1 .. n - 1 /\ i \in 2 .. n + 1 /\ i + 1 \in 2 .. n + 1
          BY ONLY n \in Nat, <3>2, <5>2
        <5>4. /\ list'[i] = list[i - 1] /\ list'[i + 1] = list[i + 1 - 1]
          BY ONLY <1>13, <5>1, <5>3
        <5>5. i + 1 - 1 = i BY ONLY n \in Nat, <5>2
        <5> QED BY ONLY <5>1, <5>3, <5>4, <5>5
      <4>2. PICK k : k = i - 1 OBVIOUS
      <4>3. k + 1 = i BY <4>2
      <4>4. Linked BY <1>1
      <4>5. stpNext[list[k]] = list[k + 1] BY ONLY <4>1, <4>2, <4>4 DEF Linked
      <4> QED BY ONLY <4>1, <4>2, <4>3, <4>5
    <3> QED BY <3>1, <3>2
  <2> QED BY <1>1, <1>9, <1>13, <2>1 DEF Linked
<1> QED BY <1>8, <1>10, <1>12, <1>14 DEF Links

LEMMA FreeNumberStep ==
  ASSUME LFInv, NEW t \in Users, FreeNumber(t)
  PROVE  P!Free(t) /\ Links'
<1>1. PICK b \in inUse :
        /\ Goes(t, "out", [Back(t) EXCEPT !.at = "freeUnique", !.id = number + 1, !.blk = b])
        /\ inUse' = inUse \ {b}
  BY DEF FreeNumber
<1> DEFINE new == [Back(t) EXCEPT !.at = "freeUnique", !.id = number + 1, !.blk = b]
<1>2. Typed /\ number' = number + 1 /\ UNCHANGED <<counts, blocks>> BY DEF FreeNumber, LFInv
<1>3. b \in Nat /\ number \in Nat BY <1>2 DEF LFInv, P!IInv, P!TypeOK, P!Blocks, Typed
<1>4. PICK i \in Nat : i = number + 1 BY <1>3
<1>5. new = [Back(t) EXCEPT !.at = "freeUnique", !.id = i, !.blk = b] BY <1>4
<1>6. Goes(t, "out", new) BY <1>1
<1> HIDE DEF new
<1>7. /\ new \in Locals /\ new.at = "freeUnique" /\ new.seen = us[t].seen /\ new.blk = b
      /\ new.id = number + 1
  <2>1. Back(t) \in Locals /\ Back(t).seen = us[t].seen BY <1>2, AtRest
  <2> QED BY <1>3, <1>4, <1>5, <2>1 DEF Locals, Places, Pushing, Carrying
<1>8. /\ P!Step(t, "idle", "push") /\ counted' = counted /\ carried' = [carried EXCEPT ![t] = b]
  BY <1>2, <1>6, <1>7, Moved, PhaseOf DEF Pushing
<1>9. P!Free(t) BY <1>1, <1>2, <1>8 DEF P!Free, counted, carried, counts, blocks
<1>10. Links'
  BY <1>2, <1>6, <1>7, NumberTaken DEF counts, blocks, Links, SawNumber
<1> QED BY <1>9, <1>10

-----------------------------------------------------------------------------
LEMMA UserStep ==
  ASSUME LFInv, NEW t \in Users, Alloc(t) \/ Free(t)
  PROVE  (P!Alloc(t) \/ P!Release(t) \/ Stays) /\ Links'
<1>1. CASE ReadCount(t) BY <1>1, ReadCountStep DEF P!Alloc
<1>2. CASE Count(t) BY <1>2, CountStep DEF P!Alloc
<1>3. CASE Check(t) BY <1>3, CheckStep DEF P!Alloc
<1>4. CASE Malloc(t) BY <1>4, MallocStep DEF P!Alloc
<1>5. CASE NewBlock(t) BY <1>5, NewBlockStep DEF P!Alloc
<1>6. CASE AllocNumber(t) BY <1>6, NumberTakenStep
<1>7. CASE AllocUnique(t) BY <1>7, UniqueRead DEF AllocUnique
<1>8. CASE AllocTop(t) BY <1>8, TopRead DEF AllocTop
<1>9. CASE LiveTop(t) BY <1>9, LiveTopStep
<1>10. CASE NextBlock(t) BY <1>10, NextBlockStep
<1>11. CASE AllocSwap(t)
  <2>1. CASE Unchanged(t) BY <1>11, <2>1, TakeStep DEF P!Alloc
  <2>2. CASE ~Unchanged(t)
    <3>1. Fetch(t, "allocSwap", [us[t] EXCEPT !.at = "allocUnique"])
      BY <1>11, <2>2 DEF AllocSwap
    <3> QED BY <3>1, SwapFailed
  <2> QED BY <2>1, <2>2
<1>12. CASE FreeNumber(t) BY <1>12, FreeNumberStep DEF P!Release
<1>13. CASE FreeUnique(t) BY <1>13, UniqueRead DEF FreeUnique
<1>14. CASE FreeTop(t) BY <1>14, TopRead DEF FreeTop
<1>15. CASE AppendBlock(t)
  <2>1. Typed /\ Goes(t, "append", [us[t] EXCEPT !.at = "freeSwap"])
    BY <1>15 DEF AppendBlock, LFInv
  <2>2. us[t].at = "append" /\ us[t] \in Locals BY <2>1, Gone, AtRest
  <2>3. [us[t] EXCEPT !.at = "freeSwap"] \in Locals
    BY <2>2 DEF Locals, Places, Carrying, Pushing
  <2>4. phases' = phases /\ counted' = counted /\ carried' = carried
    BY <2>1, <2>2, <2>3, Moved, PhaseOf DEF Locals, Pushing
  <2>5. Stays BY <1>15, <2>4 DEF AppendBlock, Stays, counts
  <2> QED BY <1>15, <2>5, AppendStep DEF Links
<1>16. CASE FreeSwap(t)
  <2>1. CASE Unchanged(t) BY <1>16, <2>1, GiveStep DEF P!Release
  <2>2. CASE ~Unchanged(t)
    <3>1. Fetch(t, "freeSwap", [us[t] EXCEPT !.at = "freeUnique"])
      BY <1>16, <2>2 DEF FreeSwap
    <3> QED BY <3>1, SwapFailed
  <2> QED BY <2>1, <2>2
<1>17. CASE Uncount(t) BY <1>17, UncountStep DEF P!Release
<1> QED
  BY <1>1, <1>2, <1>3, <1>4, <1>5, <1>6, <1>7, <1>8, <1>9, <1>10, <1>11, <1>12, <1>13, <1>14,
     <1>15, <1>16, <1>17 DEF Alloc, Free

LEMMA PoolStep ==
  ASSUME LFInv, [PoolNext]_poolVars
  PROVE  [P!Next]_(P!vars) /\ LFInv'
<1>1. [P!Next]_(P!vars) /\ Links'
  <2>1. CASE UNCHANGED poolVars
    <3>1. Stays BY <2>1 DEF poolVars, Stays, phases, counted, carried
    <3>2. Links'
      BY <2>1 DEF poolVars, LFInv, Links, Typed, Linked, Fresh, Current, HasNumber, Read
    <3> QED BY <3>1, <3>2, StaysMapped
  <2>2. ASSUME NEW t \in Users, Alloc(t) \/ Free(t) PROVE [P!Next]_(P!vars) /\ Links'
    BY <2>2, UserStep, StaysMapped DEF P!Next
  <2> QED BY <2>1, <2>2 DEF PoolNext
<1>2. P!IInv' BY <1>1, MappedStep DEF LFInv
<1> QED BY <1>1, <1>2 DEF LFInv, Links

LEMMA PoolStart == PoolInit => P!Init /\ LFInv
<1> SUFFICES ASSUME PoolInit PROVE P!Init /\ LFInv
  OBVIOUS
<1>1. PICK n \in BlockNums, last \in {NULL, Junk} :
        /\ storeFlag = (n = 0) /\ BlockCount = n /\ list = [i \in 1 .. n |-> i]
        /\ poolTop = [block |-> IF n = 0 THEN NULL ELSE 1, unique |-> 0]
        /\ stpNext = [i \in 1 .. n |-> IF i < n THEN i + 1 ELSE last] /\ made = n
  BY DEF PoolInit
<1>2. n \in Nat BY BlockNumsNat
<1>3. \A t \in Users : us[t] = Away BY DEF PoolInit
<1>4. /\ phases = [t \in Users |-> "idle"] /\ counted = [t \in Users |-> 0]
      /\ carried = [t \in Users |-> 0]
  BY <1>3, PhaseOf DEF phases, counted, carried, Away, NULL
<1>5. P!Init
  BY <1>1, <1>4 DEF PoolInit, P!Init, P!NoBlock, phases, counted, carried
<1>6. Away \in Locals /\ Away.at = "out"
  BY DEF Away, NoBlockTop, Locals, Places, Tops, NULL
<1>7. Typed
  BY <1>1, <1>2, <1>3, <1>6 DEF PoolInit, Typed, Tops, NULL, Junk
<1>8. Linked BY <1>1, <1>2 DEF Linked
<1>9. Fresh /\ Current
  BY <1>1, <1>3, <1>6 DEF PoolInit, Fresh, Current, HasNumber, Read, Numbered, SawNumber, Popping, Pushing
<1> QED BY <1>5, <1>7, <1>8, <1>9, MappedInit DEF LFInv

LEMMA LFInvariance == PoolSpec => []LFInv
BY PoolStart, PoolStep, PTL DEF PoolSpec

\* No thread follows a top that is not a block, for any number of threads, any size of the
\* pool and any start of the counters: Alloc goes to the list on what two counters said
\* some steps before, and reads the successor through the live top (MemoryPool.h:361-396).
THEOREM NeverFollowsBadTop == PoolSpec => []NoBadTop
<1>1. LFInv => NoBadTop BY MappedFacts DEF LFInv, NoBadTop
<1> QED BY <1>1, LFInvariance, PTL

LEMMA SamePool ==
  /\ P!Init => LockedPool!Init
  /\ [P!Next]_(P!vars) => [LockedPool!Next]_(LockedPool!vars)
<1>1. P!Init => LockedPool!Init
  BY DEF P!Init, LockedPool!Init, P!NoBlock, LockedPool!NoBlock
<1>3. UNCHANGED (P!vars) => UNCHANGED (LockedPool!vars) BY DEF P!vars, LockedPool!vars
<1>4. ASSUME NEW t \in Users, P!Alloc(t) PROVE LockedPool!Alloc(t)
  BY <1>4 DEF P!Alloc, P!Read, P!Count, P!Check, P!Malloc, P!Grow, P!Pop, P!Step, P!NoBlock,
       LockedPool!Alloc, LockedPool!Read, LockedPool!Count, LockedPool!Check, LockedPool!Malloc,
       LockedPool!Grow, LockedPool!Pop, LockedPool!Step, LockedPool!NoBlock
<1>5. ASSUME NEW t \in Users, P!Release(t) PROVE LockedPool!Release(t)
  BY <1>5 DEF P!Release, P!Free, P!Push, P!Uncount, P!Step, P!NoBlock,
       LockedPool!Release, LockedPool!Free, LockedPool!Push, LockedPool!Uncount, LockedPool!Step,
       LockedPool!NoBlock
<1> QED BY <1>1, <1>3, <1>4, <1>5 DEF P!Next, LockedPool!Next

\* CMemoryPool_LF does what CMemoryPool does: no block is handed out twice or lost, although
\* the top, its successor and the counters are read at different times.
THEOREM LockedPoolImplemented == PoolSpec => ImplementsLockedPool
<1>1. LFInv /\ [PoolNext]_poolVars => [LockedPool!Next]_(LockedPool!vars)
  BY PoolStep, SamePool
<1>2. PoolInit => LockedPool!Init BY PoolStart, SamePool
<1> QED
  BY <1>1, <1>2, LFInvariance, PTL DEF PoolSpec, ImplementsLockedPool, LockedPool!Spec
=============================================================================
