------------------------------ MODULE Database ------------------------------
(***************************************************************************)
(* SQLConnector (src/Database/mdz_db/sqlconnector.cpp), its queries        *)
(* (query.cpp), and the connectors and queries of the three drivers        *)
(* (src/extras).                                                           *)
(*                                                                         *)
(* A thread has one query at a time.  A query enters the connector's set   *)
(* and then takes the connector's lock, which it keeps until it is         *)
(* deleted; so one query at a time executes.  The destructor of the driver *)
(* closes the handle; that of SQLConnector refuses new queries and waits   *)
(* for the set to be empty.                                                *)
(*                                                                         *)
(* The server is external: it executes a statement, refuses it, or the     *)
(* connection is lost before or after it did.  PostgreSQL's driver runs    *)
(* the text as the name of a statement that nobody prepares, so the server *)
(* refuses all of them.  SQLite's driver executes a qInsert by one step    *)
(* and prepares a qSelect: the caller's first step executes that.          *)
(***************************************************************************)
EXTENDS Statement

CONSTANTS
  DbThreads,
  NoDbThread,
  LockTimed,                \* maxQueryLockMilliseconds # 0
  MaxReconnectionAttempts,
  MaxLosses                 \* bound of lost connections

ASSUME DatabaseAssumption == NoDbThread \notin DbThreads

VARIABLES
  connector,      \* alive; closed: the handle is; waiting, woken: for queries; gone
  handle,         \* dbCnt: null, up, down, or closed by the destructor
  querySet,
  mtDatabaseLock,
  dbStep,
  error,          \* eQueryPTRErrors of the thread's query
  inserting,      \* it is a qInsert, not a qSelect
  done,           \* how often the server executed it
  cursor,         \* of a select of SQLite: none, row, end, or again: stepped after the end
  stmt,           \* the query with the lock has a statement
  attempt,        \* of reconnect, by the query with the lock
  losses

dbvars == <<connector, handle, querySet, mtDatabaseLock, dbStep, error, inserting, done, cursor, stmt, attempt, losses>>

GoesTo(t, place) == dbStep' = [dbStep EXCEPT ![t] = place]
Ends(t, place, code) == GoesTo(t, place) /\ error' = [error EXCEPT ![t] = code]
Remote == driver # "sqlite3"

-----------------------------------------------------------------------------
(* createQuery. *)

\* createQuery0 is the driver's: it needs an object that is still one.
CreateQuery(t, insert) ==
  /\ dbStep[t] = "idle"
  /\ connector = "alive"
  /\ GoesTo(t, "created")
  /\ error' = [error EXCEPT ![t] = "QUERY_UNINITIALIZED"]
  /\ inserting' = [inserting EXCEPT ![t] = insert]
  /\ done' = [done EXCEPT ![t] = 0]
  /\ cursor' = [cursor EXCEPT ![t] = "none"]
  /\ UNCHANGED <<connector, handle, querySet, mtDatabaseLock, stmt, attempt, losses>>

AttachQuery(t) ==
  /\ dbStep[t] = "created"
  /\ \/ /\ connector \in {"alive", "closed"}
        /\ querySet' = querySet \cup {t}
        /\ GoesTo(t, "locking")
        /\ UNCHANGED error
     \/ /\ connector \in {"waiting", "woken"}
        /\ Ends(t, "idle", "QUERY_SQLCONNECTORFINISHED")
        /\ UNCHANGED querySet
  /\ UNCHANGED <<connector, handle, mtDatabaseLock, inserting, done, cursor, stmt, attempt, losses>>

AcquireLock(t) ==
  /\ dbStep[t] = "locking"
  /\ mtDatabaseLock = NoDbThread
  /\ mtDatabaseLock' = t
  /\ Ends(t, "ready", "QUERY_READY_OK")
  /\ UNCHANGED <<connector, handle, querySet, inserting, done, cursor, stmt, attempt, losses>>

\* try_lock_for fails; the query is deleted, and detaches.
LockTimesOut(t) ==
  /\ dbStep[t] = "locking"
  /\ LockTimed
  /\ mtDatabaseLock # NoDbThread
  /\ Ends(t, "closing", "QUERY_UNABLETOADQUIRELOCK")
  /\ UNCHANGED <<connector, handle, querySet, mtDatabaseLock, inserting, done, cursor, stmt, attempt, losses>>

-----------------------------------------------------------------------------
(* exec. *)

Executed(t, ok) == Ends(t, "executed", IF ok THEN "QUERY_RESULTS_OK" ELSE "QUERY_RESULTS_FAILED")
Counted(t) == done' = [done EXCEPT ![t] = @ + 1]

\* exec0 of SQLite only prepares a select and binds its parameters.
Lazy(t) == driver = "sqlite3" /\ ~inserting[t]

ExecSucceeds(t) ==
  /\ dbStep[t] = "ready"
  /\ handle = "up"
  /\ driver # "pgsql"
  /\ Executed(t, TRUE)
  /\ stmt' = TRUE
  /\ IF Lazy(t) THEN UNCHANGED done ELSE Counted(t)
  /\ UNCHANGED <<connector, handle, querySet, mtDatabaseLock, inserting, cursor, attempt, losses>>

\* The first step of a select executes it, and one after the end executes it again.  A step
\* that fails (the file is locked by another program) answers what the end answers: no row.
StepSelect(t) ==
  /\ dbStep[t] = "executed"
  /\ error[t] = "QUERY_RESULTS_OK" /\ Lazy(t)
  /\ \/ cursor[t] = "none" /\ Counted(t) /\ cursor' \in {[cursor EXCEPT ![t] = place] : place \in {"row", "end"}}
     \/ cursor[t] \in {"none", "row"} /\ UNCHANGED done /\ cursor' = [cursor EXCEPT ![t] = "end"]
     \/ cursor[t] = "end" /\ Counted(t) /\ cursor' = [cursor EXCEPT ![t] = "again"]
  /\ UNCHANGED <<connector, handle, querySet, mtDatabaseLock, dbStep, error, inserting, stmt, attempt, losses>>

\* There is no handle, or the statement is refused when it is prepared or
\* executed: SQLite has no statement if it could not prepare it, and
\* PostgreSQL's driver clears its result.
ExecFails(t) ==
  /\ dbStep[t] = "ready"
  /\ handle # "down"
  /\ Executed(t, FALSE)
  /\ stmt' \in IF handle = "null" \/ driver = "pgsql" THEN {FALSE}
               ELSE IF driver = "sqlite3" THEN BOOLEAN ELSE {TRUE}
  /\ UNCHANGED <<connector, handle, querySet, mtDatabaseLock, inserting, done, cursor, attempt, losses>>

\* The statement was executed: SQLite's gave a row, which an insert is not to give, or
\* MariaDB's result could not be stored, which is not taken for a lost connection.
ExecFailsAfterwards(t) ==
  /\ dbStep[t] = "ready"
  /\ handle = "up"
  /\ driver = "mariadb" \/ (driver = "sqlite3" /\ inserting[t])
  /\ Executed(t, FALSE)
  /\ stmt' = TRUE
  /\ Counted(t)
  /\ UNCHANGED <<connector, handle, querySet, mtDatabaseLock, inserting, cursor, attempt, losses>>

\* connectionError, before the server saw the statement or after it executed it.
ExecLosesConnection(t) ==
  /\ dbStep[t] = "ready"
  /\ Remote
  /\ \/ handle = "down" /\ UNCHANGED <<done, losses>>
     \/ /\ handle = "up" /\ losses < MaxLosses
        /\ losses' = losses + 1
        /\ IF driver = "pgsql" THEN UNCHANGED done ELSE Counted(t) \/ UNCHANGED done
  /\ handle' = "down"
  /\ stmt' = (driver = "mariadb")
  /\ attempt' = 0
  /\ GoesTo(t, "reconnecting")
  /\ UNCHANGED <<connector, querySet, mtDatabaseLock, error, inserting, cursor>>

\* connect0 closes the handle it has and opens another; if it fails it leaves none.
ConnectSucceeds == handle' = "up"
ConnectFails == handle' = "null"

\* (Mutant) Reconnected is as good as executed.
ReconnectAccepts(t) ==
  /\ dbStep[t] = "reconnecting"
  /\ ConnectSucceeds
  /\ stmt' = FALSE
  /\ Executed(t, TRUE)
  /\ UNCHANGED <<connector, querySet, mtDatabaseLock, inserting, done, cursor, attempt, losses>>

\* The old statement is removed and the query executed again.
Reconnects(t) ==
  /\ dbStep[t] = "reconnecting"
  /\ ConnectSucceeds
  /\ stmt' = FALSE
  /\ GoesTo(t, "ready")
  /\ UNCHANGED <<connector, querySet, mtDatabaseLock, error, inserting, done, cursor, attempt, losses>>

\* After the last attempt there is no handle, and later queries fail at once.
ReconnectFails(t) ==
  /\ dbStep[t] = "reconnecting"
  /\ ConnectFails
  /\ attempt' = attempt + 1
  /\ IF attempt' = MaxReconnectionAttempts
       THEN Executed(t, FALSE)
       ELSE UNCHANGED <<dbStep, error>>
  /\ UNCHANGED <<connector, querySet, mtDatabaseLock, inserting, done, cursor, stmt, losses>>

\* A second exec throws if there is a statement, and the query goes with its
\* owner's stack; if there is none it executes again.
ExecAgain(t) ==
  /\ dbStep[t] = "executed"
  /\ GoesTo(t, IF stmt THEN "closing" ELSE "ready")
  /\ stmt' = FALSE
  /\ UNCHANGED <<connector, handle, querySet, mtDatabaseLock, error, inserting, done, cursor, attempt, losses>>

\* The connection is lost while nobody uses it.
ConnectionDrops ==
  /\ Remote
  /\ handle = "up" /\ losses < MaxLosses
  /\ handle' = "down"
  /\ losses' = losses + 1
  /\ UNCHANGED <<connector, querySet, mtDatabaseLock, dbStep, error, inserting, done, cursor, stmt, attempt>>

-----------------------------------------------------------------------------
(* The destructor of a query: the driver's closes the statement, Query's   *)
(* detaches and then unlocks.                                              *)

CloseStatement(t) ==
  /\ dbStep[t] \in {"ready", "executed"}
  /\ GoesTo(t, "closing")
  /\ stmt' = FALSE
  /\ UNCHANGED <<connector, handle, querySet, mtDatabaseLock, error, inserting, done, cursor, attempt, losses>>

\* (Mutant) Nobody is told that the set is empty.
DetachSilently(t) ==
  /\ dbStep[t] = "closing"
  /\ querySet' = querySet \ {t}
  /\ GoesTo(t, IF mtDatabaseLock = t THEN "detached" ELSE "idle")
  /\ UNCHANGED <<connector, handle, mtDatabaseLock, error, inserting, done, cursor, stmt, attempt, losses>>

DetachQuery(t) ==
  /\ dbStep[t] = "closing"
  /\ querySet' = querySet \ {t}
  /\ connector' = IF connector = "waiting" /\ querySet' = {} THEN "woken" ELSE connector
  /\ GoesTo(t, IF mtDatabaseLock = t THEN "detached" ELSE "idle")
  /\ UNCHANGED <<handle, mtDatabaseLock, error, inserting, done, cursor, stmt, attempt, losses>>

\* The lock is the connector's, which may be gone by now.
Unlock(t) ==
  /\ dbStep[t] = "detached"
  /\ mtDatabaseLock' = NoDbThread
  /\ GoesTo(t, "idle")
  /\ UNCHANGED <<connector, handle, querySet, error, inserting, done, cursor, stmt, attempt, losses>>

-----------------------------------------------------------------------------
(* The destructor of the connector. *)

CloseHandle ==
  /\ connector = "alive"
  /\ connector' = "closed"
  /\ handle' = IF handle = "null" THEN "null" ELSE "closed"
  /\ UNCHANGED <<querySet, mtDatabaseLock, dbStep, error, inserting, done, cursor, stmt, attempt, losses>>

\* (Mutant) The destructor refuses new queries and does not wait.
DestroysConnectorAtOnce ==
  /\ connector \in {"closed", "woken"}
  /\ connector' = "gone"
  /\ UNCHANGED <<handle, querySet, mtDatabaseLock, dbStep, error, inserting, done, cursor, stmt, attempt, losses>>

\* finalized is set, and the set tested; again after each wake-up.  A program
\* that destroys a connector has no call in createQuery that is not attached.
DestroysConnector ==
  /\ connector \in {"closed", "woken"}
  /\ querySet = {} => \A t \in DbThreads : dbStep[t] # "created"
  /\ connector' = IF querySet = {} THEN "gone" ELSE "waiting"
  /\ UNCHANGED <<handle, querySet, mtDatabaseLock, dbStep, error, inserting, done, cursor, stmt, attempt, losses>>

-----------------------------------------------------------------------------
DbInit ==
  /\ connector = "alive"
  /\ handle = "up"
  /\ querySet = {}
  /\ mtDatabaseLock = NoDbThread
  /\ dbStep = [t \in DbThreads |-> "idle"]
  /\ error = [t \in DbThreads |-> "QUERY_UNINITIALIZED"]
  /\ inserting = [t \in DbThreads |-> FALSE]
  /\ done = [t \in DbThreads |-> 0]
  /\ cursor = [t \in DbThreads |-> "none"]
  /\ stmt = FALSE
  /\ attempt = 0
  /\ losses = 0

Steps(t) ==
  \/ AttachQuery(t) \/ AcquireLock(t) \/ LockTimesOut(t)
  \/ ExecSucceeds(t) \/ ExecFails(t) \/ ExecFailsAfterwards(t) \/ ExecLosesConnection(t)
  \/ Reconnects(t) \/ ReconnectFails(t)
  \/ CloseStatement(t) \/ DetachQuery(t) \/ Unlock(t)

\* A program is built with one driver.
DbNext ==
  /\ UNCHANGED driver
  /\ \/ \E t \in DbThreads : Steps(t) \/ StepSelect(t) \/ ExecAgain(t) \/ \E insert \in BOOLEAN : CreateQuery(t, insert)
     \/ ConnectionDrops \/ CloseHandle \/ DestroysConnector

DbSpec == DbInit /\ [][DbNext]_<<driver, dbvars>>

(***************************************************************************)
(* Fairness: what the code does by itself goes on, a query is deleted some *)
(* time (QueryInstance deletes it when its last owner goes), and the       *)
(* destructor, once begun, goes on.                                        *)
(***************************************************************************)
DbFairness ==
  /\ \A t \in DbThreads :
       /\ WF_dbvars(Steps(t) /\ dbStep[t] # "executed")
       /\ SF_dbvars(CloseStatement(t))
  /\ WF_dbvars(DestroysConnector)

-----------------------------------------------------------------------------
Attached == {"locking", "ready", "reconnecting", "executed", "closing"}

\* "Wait until current queries are finalized": no query that can still use the
\* connector's set or its handle is left when the connector is gone.
ConnectorOutlivesQueries ==
  connector = "gone" => \A t \in DbThreads : dbStep[t] \notin Attached \cup {"created"}

\* exec, reconnect and step: a query reported as executed was executed, except that a select of
\* SQLite was when it gave a row.  Whatever was reported (a failure may come after the execution)
\* and however exec is called again, what is executed twice had a lost connection, which
\* reconnection repeats without knowing, or is a select of SQLite stepped after its end.
ReportedIsDone ==
  \A t \in DbThreads :
    /\ dbStep[t] = "executed" /\ error[t] = "QUERY_RESULTS_OK" => done[t] >= 1 \/ (Lazy(t) /\ cursor[t] # "row")
    /\ cursor[t] # "again" => done[t] <= 1 + losses

\* The destructor of the connector returns.
ConnectorDestroyed == connector = "closed" ~> connector = "gone"
===============================================================================
