---------------------------- MODULE DBConnector ----------------------------
(***************************************************************************)
(* CDBConnector and the program that uses it: main of DBConnector_test,    *)
(* which connects, sends Inserts statements without a result and Selects   *)
(* with one, and reads each result to its end.  main ignores what Query    *)
(* returns; so whether it ever uses a handle that is NULL or a result that *)
(* was freed depends on Query not returning before it has a handle and a   *)
(* result of its own.                                                      *)
(*                                                                         *)
(* The MySQL client library is external: a call may fail at any time, with *)
(* one of the errors Query takes for a lost connection or with another;    *)
(* mysql_errno (NULL), which is what Connect asks for, may have forgotten  *)
(* the error; mysql_fetch_row and mysql_free_result accept NULL.  The      *)
(* messages of errors, which ErrorSave copies with the length of a buffer  *)
(* that is not set, are left out.                                          *)
(***************************************************************************)
EXTENDS Integers

CONSTANTS
  Inserts,     \* the statements main sends before its queries
  Selects,     \* the queries
  MaxRows,     \* the rows a result has at most
  Reconnect    \* _iReconnect

ASSUME DBAssumption ==
  Inserts \in Nat /\ Selects \in Nat /\ MaxRows \in Nat /\ Reconnect \in Int

VARIABLES
  main,       \* the call the program is at
  cnt,        \* the statement it is at, counted from 1
  pMySQL,     \* _pMySQL
  sqlResult,  \* _pSqlResult
  rows,       \* the rows of the result not fetched yet
  lastError,  \* _iLastError
  ReTry,      \* _ReTry
  answered,   \* the server has executed the statement
  unfreed     \* history: results of mysql_store_result not freed

dbVars == <<main, cnt, pMySQL, sqlResult, rows, lastError, ReTry, answered, unfreed>>

\* CDBConnector(..): the two pointers are not set.
DBInit ==
  /\ main = "connect" /\ cnt = 1
  /\ pMySQL = "wild" /\ sqlResult = "wild" /\ rows = 0
  /\ lastError = "none" /\ ReTry = 0
  /\ answered = FALSE /\ unfreed = 0

AtCall(place) == main = place
GoOn(place) == main' = place

\* mysql_init and mysql_real_connect; the handle there was is not closed.
ConnectOk ==
  /\ pMySQL' = "open"
  /\ UNCHANGED lastError

ConnectFails ==
  /\ pMySQL' = "null"
  /\ lastError' \in {"none", "connection"}

\* The first thing main does; it ends when that fails.
Connect ==
  /\ AtCall("connect")
  /\ \/ ConnectOk /\ GoOn("query")
     \/ ConnectFails /\ GoOn("exit")
  /\ UNCHANGED <<cnt, sqlResult, rows, ReTry, answered, unfreed>>

\* Where main goes when a call of Query has returned, whatever it has returned.
AfterQuery ==
  IF cnt <= Inserts THEN GoOn("query") /\ cnt' = cnt + 1
  ELSE GoOn("fetch") /\ UNCHANGED cnt

\* mysql_query (_pMySQL, ..): nothing can be sent through NULL.
Query ==
  /\ AtCall("query")
  /\ cnt <= Inserts + Selects
  /\ \/ /\ pMySQL # "open"
        /\ GoOn("fault")
        /\ UNCHANGED <<answered, lastError>>
     \/ /\ pMySQL = "open"
        /\ answered' = TRUE
        /\ GoOn("store")
        /\ UNCHANGED lastError
     \/ /\ pMySQL = "open"
        /\ answered' = FALSE
        /\ \E e \in {"connection", "statement"} :
             /\ lastError' = e
             /\ GoOn(IF e = "connection" THEN "retry" ELSE "store")
  /\ UNCHANGED <<cnt, pMySQL, sqlResult, rows, ReTry, unfreed>>

\* Slip: Query gives up when it cannot connect at once.
Slip_Retry ==
  /\ AtCall("retry")
  /\ \/ ConnectOk /\ GoOn("store") /\ UNCHANGED <<cnt, ReTry>>
     \/ ConnectFails /\ ReTry' = ReTry + 1 /\ AfterQuery
  /\ UNCHANGED <<sqlResult, rows, answered, unfreed>>

\* while ( !Connect () ): Query returns false when there have been too many failures, in
\* this call and the earlier ones.  The statement is not sent again.
Retry ==
  /\ AtCall("retry")
  /\ \/ ConnectOk /\ GoOn("store") /\ UNCHANGED <<cnt, ReTry>>
     \/ /\ ConnectFails
        /\ ReTry' = ReTry + 1
        /\ IF ReTry' > Reconnect THEN AfterQuery ELSE GoOn("retry") /\ UNCHANGED cnt
  /\ UNCHANGED <<sqlResult, rows, answered, unfreed>>

\* _pSqlResult = mysql_store_result (_pMySQL), and Query returns true: there is a result
\* when the statement was executed, has one and it could be read; else it is NULL.
StoreResult ==
  /\ AtCall("store")
  /\ \/ /\ answered /\ cnt > Inserts
        /\ sqlResult' = "held"
        /\ rows' \in 0 .. MaxRows
        /\ unfreed' = unfreed + 1
     \/ sqlResult' = "null" /\ rows' = 0 /\ UNCHANGED unfreed
  /\ AfterQuery
  /\ UNCHANGED <<pMySQL, lastError, ReTry, answered>>

\* mysql_fetch_row: what was freed, or never set, cannot be read.
FetchRow ==
  /\ AtCall("fetch")
  /\ \/ sqlResult \in {"wild", "freed"} /\ GoOn("fault") /\ UNCHANGED rows
     \/ sqlResult = "held" /\ rows > 0 /\ rows' = rows - 1 /\ GoOn("fetch")
     \/ sqlResult \in {"held", "null"} /\ rows = 0 /\ GoOn("free") /\ UNCHANGED rows
  /\ UNCHANGED <<cnt, pMySQL, sqlResult, lastError, ReTry, answered, unfreed>>

\* Slip: the result is forgotten instead.
Slip_FreeResult ==
  /\ AtCall("free")
  /\ sqlResult' = "null" /\ UNCHANGED unfreed
  /\ cnt' = cnt + 1
  /\ GoOn(IF cnt = Inserts + Selects THEN "exit" ELSE "query")
  /\ UNCHANGED <<pMySQL, rows, lastError, ReTry, answered>>

\* mysql_free_result; _pSqlResult keeps its value.
FreeResult ==
  /\ AtCall("free")
  /\ IF sqlResult = "held" THEN sqlResult' = "freed" /\ unfreed' = unfreed - 1
     ELSE UNCHANGED <<sqlResult, unfreed>>
  /\ cnt' = cnt + 1
  /\ GoOn(IF cnt = Inserts + Selects THEN "exit" ELSE "query")
  /\ UNCHANGED <<pMySQL, rows, lastError, ReTry, answered>>

DBNext == Connect \/ Query \/ Retry \/ StoreResult \/ FetchRow \/ FreeResult

DBSpec == DBInit /\ [][DBNext]_dbVars

-----------------------------------------------------------------------------
(* Properties *)

\* A program that does not look at what Query returns uses a NULL handle or a freed result
\* only when the reconnects allowed are used up: an error of a statement, a connection that
\* comes back in time and a result that is empty or missing do it no harm.
FaultsOnlyWithoutRetries == AtCall("fault") => ReTry > Reconnect

\* _pSqlResult is overwritten by every Query: no result that is not freed is lost by it.
NoResultLeaks == unfreed = (IF sqlResult = "held" THEN 1 ELSE 0)
=============================================================================
