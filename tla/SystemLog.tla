----------------------------- MODULE SystemLog -----------------------------
(***************************************************************************)
(* CSystemLog: records with a number and a date, appended to one file for  *)
(* each month.  The number is taken by an interlocked increment and the    *)
(* date from two members, Time and t, which every thread sets before it    *)
(* uses them; only the writing of the file is under a lock.                *)
(*                                                                         *)
(* Log, LogHex and LogSessionKey differ in the text they write.  A record  *)
(* below _SaveLogLevel is dropped before anything is done.  A file can     *)
(* always be opened.  The file's name also holds the type of the record:   *)
(* here there is one type.  A date is its month.                           *)
(***************************************************************************)
EXTENDS Naturals, Sequences, FiniteSets

CONSTANTS
  Loggers,   \* the threads that log
  Nobody,    \* the lock is free
  Months,    \* bound: the last month
  MaxLogNo   \* bound: no record is begun when _LogNo has reached it

ASSUME NobodyIsNone == Nobody \notin Loggers
ASSUME MonthsAssumption == Months \in Nat \ {0}

VARIABLES
  callers,      \* the threads that log in this behaviour
  windowprint,  \* _windowprint
  clock,        \* the month it is
  Time,         \* Time
  tm,           \* t
  LogNo,        \* _LogNo
  srwLock,      \* who holds _srwLock
  files,        \* the file of each month: headers and texts, with their number
  lg            \* each thread: the access it makes next, and its locals

logVars == <<callers, windowprint, clock, Time, tm, LogNo, srwLock, files, lg>>

\* file is FileName, No the number, date the date in Header.
Silent == [at |-> "out", file |-> 1, No |-> 0, date |-> 1]

\* CSystemLog(Level)
LogInit ==
  /\ callers \in SUBSET Loggers /\ windowprint \in BOOLEAN
  /\ clock = 1 /\ Time = 1 /\ tm = 1
  /\ LogNo = 0 /\ srwLock = Nobody
  /\ files = [m \in 1 .. Months |-> <<>>]
  /\ lg = [l \in Loggers |-> Silent]

Proceeds(l, from, new) == lg[l].at = from /\ lg' = [lg EXCEPT ![l] = new]
At(l, to) == [lg[l] EXCEPT !.at = to]

\* A month passes.
Turn ==
  /\ clock < Months
  /\ clock' = clock + 1
  /\ UNCHANGED <<callers, windowprint, Time, tm, LogNo, srwLock, files, lg>>

\* Time = time (NULL)
SetTime(l, from, to) ==
  /\ Proceeds(l, from, At(l, to))
  /\ Time' = clock
  /\ UNCHANGED <<callers, windowprint, clock, tm, LogNo, srwLock, files>>

\* localtime_s (&t, &Time)
SetTm(l, from, to) ==
  /\ Proceeds(l, from, At(l, to))
  /\ tm' = Time
  /\ UNCHANGED <<callers, windowprint, clock, Time, LogNo, srwLock, files>>

\* An access to t by HeaderSetting.
ReadsTm(l, from, new) ==
  /\ Proceeds(l, from, new)
  /\ UNCHANGED <<callers, windowprint, clock, Time, tm, LogNo, srwLock, files>>

\* Log begins with HeaderSetting.
BeginLog(l) == l \in callers /\ LogNo < MaxLogNo /\ SetTime(l, "out", "localtime")

SetDate(l) == SetTm(l, "localtime", "name")

NameFile(l) == ReadsTm(l, "name", [At(l, "number") EXCEPT !.file = tm])

\* Slip: the number is looked up instead of taken from the increment.
Slip_TakeLogNo(l) ==
  /\ Proceeds(l, "number", [At(l, "header") EXCEPT !.No = Len(files[lg[l].file]) \div 2 + 1])
  /\ LogNo' = LogNo + 1
  /\ UNCHANGED <<callers, windowprint, clock, Time, tm, srwLock, files>>

\* InterlockedIncrement64 (&_LogNo)
TakeLogNo(l) ==
  /\ Proceeds(l, "number", [At(l, "header") EXCEPT !.No = LogNo + 1])
  /\ LogNo' = LogNo + 1
  /\ UNCHANGED <<callers, windowprint, clock, Time, tm, srwLock, files>>

\* Slip: the date in the header is that of the moment.
Slip_MakeHeader(l) == ReadsTm(l, "header", [At(l, "acquire") EXCEPT !.date = clock])

MakeHeader(l) == ReadsTm(l, "header", [At(l, "acquire") EXCEPT !.date = tm])

\* Slip: the lock is not waited for.
Slip_AcquireLog(l) ==
  /\ Proceeds(l, "acquire", At(l, "writeHeader"))
  /\ srwLock' = l
  /\ UNCHANGED <<callers, windowprint, clock, Time, tm, LogNo, files>>

AcquireLog(l) ==
  /\ srwLock = Nobody
  /\ Proceeds(l, "acquire", At(l, "writeHeader"))
  /\ srwLock' = l
  /\ UNCHANGED <<callers, windowprint, clock, Time, tm, LogNo, files>>

\* fwprintf_s of one part of the record.
Write(l, from, to, part) ==
  /\ Proceeds(l, from, At(l, to))
  /\ files' = [files EXCEPT ![lg[l].file] = Append(@, part)]
  /\ UNCHANGED <<callers, windowprint, clock, Time, tm, LogNo, srwLock>>

WriteHeader(l) ==
  Write(l, "writeHeader", "writeText", [kind |-> "header", No |-> lg[l].No, date |-> lg[l].date])

WriteText(l) == Write(l, "writeText", "release", [kind |-> "text", No |-> lg[l].No])

ReleaseLog(l) ==
  /\ Proceeds(l, "release", IF windowprint THEN At(l, "time") ELSE Silent)
  /\ srwLock' = Nobody
  /\ UNCHANGED <<callers, windowprint, clock, Time, tm, LogNo, files>>

\* The copy on the console is dated in the same way.
SetTimeAgain(l) == SetTime(l, "time", "again")

SetDateAgain(l) ==
  /\ Proceeds(l, "again", Silent)
  /\ tm' = Time
  /\ UNCHANGED <<callers, windowprint, clock, Time, LogNo, srwLock, files>>

HeaderSetting(l) == SetDate(l) \/ NameFile(l) \/ TakeLogNo(l) \/ MakeHeader(l)

LogNext ==
  \/ Turn
  \/ \E l \in Loggers :
       \/ BeginLog(l) \/ HeaderSetting(l) \/ AcquireLog(l) \/ WriteHeader(l) \/ WriteText(l)
       \/ ReleaseLog(l) \/ SetTimeAgain(l) \/ SetDateAgain(l)

LogSpec == LogInit /\ [][LogNext]_logVars

-----------------------------------------------------------------------------
(* Properties *)

Writing(l) == lg[l].at = "writeText"

\* Whatever threads log, a file is a sequence of whole records: after each header comes its
\* own text, but for a record that is being written.
RecordsWhole ==
  \A m \in 1 .. Months : \A i \in DOMAIN files[m] :
    IF files[m][i].kind = "text" THEN i > 1 /\ files[m][i - 1].kind = "header"
                                       /\ files[m][i - 1].No = files[m][i].No
    ELSE \/ i < Len(files[m]) /\ files[m][i + 1].kind = "text"
         \/ i = Len(files[m]) /\ \E l \in Loggers : Writing(l) /\ lg[l].file = m

\* Where the record with a number is, and the threads that have yet to write it.
FiledPlaces == UNION {{m} \X DOMAIN files[m] : m \in 1 .. Months}

Filed(No) ==
  {p \in FiledPlaces : files[p[1]][p[2]].kind = "header" /\ files[p[1]][p[2]].No = No}

ToFile(No) ==
  {l \in Loggers : lg[l].No = No /\ lg[l].at \in {"header", "acquire", "writeHeader"}}

\* Every number up to _LogNo has one record, in one file, or one thread that will write it:
\* a number that is missing from the files for good is a record that was lost.
EveryRecordOnce ==
  \A No \in 1 .. LogNo : Cardinality(Filed(No)) + Cardinality(ToFile(No)) = 1

LoneLogger == \A k, l \in callers : k = l

\* As long as one thread logs, a record is in the file of the month its header names, also
\* when the month turns in the middle of it: file and header are dated by one look at the
\* clock.
FiledByDate ==
  LoneLogger =>
    \A m \in 1 .. Months : \A i \in DOMAIN files[m] :
      files[m][i].kind = "header" => files[m][i].date = m
=============================================================================
