------------------------------- MODULE DbConn -------------------------------
(***************************************************************************)
(* One dbconn_t of src/src/db/db_psql.c shared by several application     *)
(* threads: db_query (mutex, template compilation into the shared scratch  *)
(* buffer db->q, the two-attempt send/retry loop with db_connect's retry   *)
(* policy), the caller's db_query_finish, db_set_keeptrying and the        *)
(* process-wide thread_keep_running() flag.                                *)
(*                                                                         *)
(* Data is abstracted to what the properties tell apart: db->q records     *)
(* which thread's statement it holds, a result handle is NULL or a         *)
(* PGresult, a template either compiles or not, the server's reply is a    *)
(* status and an SQLSTATE from small sets.  The mutex is the pthread mutex *)
(* behind mutex_lock/mutex_unlock: unlocking it from a thread that does    *)
(* not own it is undefined, and is modelled as the two outcomes builds     *)
(* produce (released, as a default glibc mutex does, or left as it is).   *)
(***************************************************************************)
EXTENDS Naturals

CONSTANTS
    Threads,        \* application threads sharing the dbconn_t
    NoOwner,        \* the mutex is not held
    Templates,      \* query templates the application passes to db_query
    Compiles(_),    \* whether a template compiles (see DbCompile)
    MaxCalls,       \* API calls (db_query or db_set_keeptrying) per thread
    KeepTryingValues, \* values the application passes to db_set_keeptrying
    FinishPolicy    \* when callers call db_query_finish after db_query

\* db_connect: "unsigned int i, max = 3"
MaxTries == 3

ASSUME ThreadsAssumption == NoOwner \notin Threads
ASSUME MaxCallsAssumption == MaxCalls \in Nat
ASSUME KeepTryingAssumption == KeepTryingValues \subseteq BOOLEAN
(* "always": after every db_query, as db_create and db_setupA do.          *)
(* "spec": only when db_query kept the mutex (OK, duplicate, query error). *)
(* "requery": as "spec", but a caller may also issue its next db_query     *)
(* before finishing the result it holds (the "un-finished() results eg in *)
(* a loop" that db_query's check is there to catch).                      *)
ASSUME FinishPolicyAssumption ==
    FinishPolicy \in {"always", "spec", "requery"}

VARIABLES
    pc,         \* per thread: where it is in db_query / its caller
    mutex,      \* owner of db->mutex, or NoOwner
    conn,       \* db->conn != NULL
    conninfo,   \* db->conninfo != NULL
    keeptrying, \* db->keeptrying
    running,    \* thread_keep_running()
    q,          \* db->q: the thread whose statement it holds, or NoOwner
    res,        \* per thread: result->res, "NULL" or "PGresult"
    ret,        \* per thread: what db_query returned to it
    iter,       \* per thread: i of db_query's send loop
    tries,      \* per thread: i of db_connect's loop, saturated at MaxTries
    ncalls      \* per thread: API calls made so far

vars == <<pc, mutex, conn, conninfo, keeptrying, running, q, res, ret,
          iter, tries, ncalls>>

PCs == {"idle", "lock", "compile", "loop", "connect", "send", "caller",
        "aborted"}
Rets == {"none", "ok", "dup", "queryerr", "compileerr", "connerr"}

\* db_query returned with db->mutex still locked: the caller must finish
LockKept == {"ok", "dup", "queryerr"}

\* PQresultStatus values and PG_DIAG_SQLSTATE values of a reply
Statuses == {"COMMAND_OK", "TUPLES_OK", "FATAL_ERROR", "NONFATAL_ERROR"}
SqlStates == {"none", "23505", "42601"}

-----------------------------------------------------------------------------
(* Helpers translating the code's conditions.                              *)

\* mutex_unlock(db->mutex) by thread t: the owners the mutex may have after
UnlockResult(t) ==
    IF mutex \in {t, NoOwner} THEN {NoOwner} ELSE {mutex, NoOwner}

\* est == PGRES_COMMAND_OK || est == PGRES_TUPLES_OK
ResultOk(st) == st \in {"COMMAND_OK", "TUPLES_OK"}

\* est == PGRES_FATAL_ERROR && r == NULL: disconnect and send again
Retryable(st, ss) == st = "FATAL_ERROR" /\ ss = "none"

\* r != NULL && strcmp(r, ERRCODE_UNIQUE_VIOLATION) == 0
ErrorKind(ss) == IF ss = "23505" THEN "dup" ELSE "queryerr"

\* the abort() in db_query has killed the process
Aborted == \E t \in Threads : pc[t] = "aborted"

-----------------------------------------------------------------------------
(* db_init and db_initres: no connection, mutex free, notices on,          *)
(* keeptrying off; conninfo is set iff a dbname or dbuser was given.       *)
Init ==
    /\ pc = [t \in Threads |-> "idle"]
    /\ mutex = NoOwner
    /\ conn = FALSE
    /\ conninfo \in BOOLEAN
    /\ keeptrying = FALSE
    /\ running = TRUE
    /\ q = NoOwner
    /\ res = [t \in Threads |-> "NULL"]
    /\ ret = [t \in Threads |-> "none"]
    /\ iter = [t \in Threads |-> 0]
    /\ tries = [t \in Threads |-> 0]
    /\ ncalls = [t \in Threads |-> 0]

\* Mutant: the template is compiled into db->q before mutex_lock
StartQueryCompileFirst(t) ==
    /\ pc[t] = "idle"
    /\ ncalls[t] < MaxCalls
    /\ pc' = [pc EXCEPT ![t] = "lock"]
    /\ ncalls' = [ncalls EXCEPT ![t] = @ + 1]
    /\ q' = t
    /\ UNCHANGED <<mutex, conn, conninfo, keeptrying, running, res, ret,
                   iter, tries>>

\* The application calls db_query(db, result, ...)
StartQuery(t) ==
    /\ pc[t] = "idle"
    /\ ncalls[t] < MaxCalls
    /\ pc' = [pc EXCEPT ![t] = "lock"]
    /\ ncalls' = [ncalls EXCEPT ![t] = @ + 1]
    /\ UNCHANGED <<mutex, conn, conninfo, keeptrying, running, q, res, ret,
                   iter, tries>>

\* mutex_lock(db->mutex), then abort() if result->res is still set
QueryLock(t) ==
    /\ pc[t] = "lock"
    /\ mutex = NoOwner
    /\ mutex' = t
    /\ pc' = [pc EXCEPT ![t] = IF res[t] # "NULL" THEN "aborted"
                                                  ELSE "compile"]
    /\ UNCHANGED <<conn, conninfo, keeptrying, running, q, res, ret, iter,
                   tries, ncalls>>

\* Mutant: the compile-error path returns without mutex_unlock
QueryCompileNoUnlock(t) ==
    /\ pc[t] = "compile"
    /\ q' = t
    /\ \E tpl \in Templates :
          IF Compiles(tpl)
          THEN /\ pc' = [pc EXCEPT ![t] = "loop"]
               /\ iter' = [iter EXCEPT ![t] = 0]
               /\ UNCHANGED ret
          ELSE /\ ret' = [ret EXCEPT ![t] = "compileerr"]
               /\ pc' = [pc EXCEPT ![t] = "caller"]
               /\ UNCHANGED iter
    /\ UNCHANGED <<mutex, conn, conninfo, keeptrying, running, res, tries,
                   ncalls>>

\* The template loop writes db->q; on failure unlock and return DB_R_ERR
QueryCompile(t) ==
    /\ pc[t] = "compile"
    /\ q' = t
    /\ \E tpl \in Templates :
          IF Compiles(tpl)
          THEN /\ pc' = [pc EXCEPT ![t] = "loop"]
               /\ iter' = [iter EXCEPT ![t] = 0]
               /\ UNCHANGED <<mutex, ret>>
          ELSE /\ mutex' \in UnlockResult(t)
               /\ ret' = [ret EXCEPT ![t] = "compileerr"]
               /\ pc' = [pc EXCEPT ![t] = "caller"]
               /\ UNCHANGED iter
    /\ UNCHANGED <<conn, conninfo, keeptrying, running, res, tries, ncalls>>

\* Mutant: "i <= 2", one send attempt too many
QueryLoopOffByOne(t) ==
    /\ pc[t] = "loop"
    /\ IF iter[t] <= 2
       THEN /\ pc' = [pc EXCEPT ![t] = IF conn THEN "send" ELSE "connect"]
            /\ tries' = [tries EXCEPT ![t] = 0]
            /\ UNCHANGED ret
       ELSE /\ ret' = [ret EXCEPT ![t] = "queryerr"]
            /\ pc' = [pc EXCEPT ![t] = "caller"]
            /\ UNCHANGED tries
    /\ UNCHANGED <<mutex, conn, conninfo, keeptrying, running, q, res, iter,
                   ncalls>>

\* Head of "for (i = 0; i < 2; i++)": connect if needed, or give up
QueryLoop(t) ==
    /\ pc[t] = "loop"
    /\ IF iter[t] < 2
       THEN /\ pc' = [pc EXCEPT ![t] = IF conn THEN "send" ELSE "connect"]
            /\ tries' = [tries EXCEPT ![t] = 0]
            /\ UNCHANGED ret
       ELSE /\ ret' = [ret EXCEPT ![t] = "queryerr"]
            /\ pc' = [pc EXCEPT ![t] = "caller"]
            /\ UNCHANGED tries
    /\ UNCHANGED <<mutex, conn, conninfo, keeptrying, running, q, res, iter,
                   ncalls>>

\* db_connect's loop condition "db->keeptrying || i < max"
ConnectLoopGuard(t) == keeptrying \/ tries[t] < MaxTries

\* db_tryconnect succeeds: PQconnectdb returned CONNECTION_OK
ConnectSucceed(t) ==
    /\ pc[t] = "connect"
    /\ ConnectLoopGuard(t)
    /\ conninfo
    /\ conn' = TRUE
    /\ pc' = [pc EXCEPT ![t] = "send"]
    /\ UNCHANGED <<mutex, conninfo, keeptrying, running, q, res, ret, iter,
                   tries, ncalls>>

\* Mutant: the failed attempt is not counted
ConnectFailNoCount(t) ==
    /\ pc[t] = "connect"
    /\ ConnectLoopGuard(t)
    /\ conn' = FALSE
    /\ IF running
       THEN UNCHANGED <<pc, tries>>
       ELSE /\ pc' = [pc EXCEPT ![t] = "send"]
            /\ UNCHANGED tries
    /\ UNCHANGED <<mutex, conninfo, keeptrying, running, q, res, ret, iter,
                   ncalls>>

\* db_tryconnect fails (no conninfo, or the server refused); stop if the
\* process is shutting down, else sleep and count the attempt
ConnectFail(t) ==
    /\ pc[t] = "connect"
    /\ ConnectLoopGuard(t)
    /\ conn' = FALSE
    /\ IF running
       THEN /\ tries' = [tries EXCEPT ![t] =
                            IF @ < MaxTries THEN @ + 1 ELSE @]
            /\ UNCHANGED pc
       ELSE /\ pc' = [pc EXCEPT ![t] = "send"]
            /\ UNCHANGED tries
    /\ UNCHANGED <<mutex, conninfo, keeptrying, running, q, res, ret, iter,
                   ncalls>>

\* db_connect's loop condition fails: out of attempts
ConnectGiveUp(t) ==
    /\ pc[t] = "connect"
    /\ ~ConnectLoopGuard(t)
    /\ pc' = [pc EXCEPT ![t] = "send"]
    /\ UNCHANGED <<mutex, conn, conninfo, keeptrying, running, q, res, ret,
                   iter, tries, ncalls>>

\* Mutant: "No connection" unlocks but does not return, going on to send
\* on the NULL handle, which yields no result and another loop iteration
QueryNoConnectionNoReturn(t) ==
    /\ pc[t] = "send"
    /\ ~conn
    /\ mutex' \in UnlockResult(t)
    /\ iter' = [iter EXCEPT ![t] = @ + 1]
    /\ pc' = [pc EXCEPT ![t] = "loop"]
    /\ UNCHANGED <<conn, conninfo, keeptrying, running, q, res, ret, tries,
                   ncalls>>

\* "No connection": unlock and return DB_R_ERR
QueryNoConnection(t) ==
    /\ pc[t] = "send"
    /\ ~conn
    /\ mutex' \in UnlockResult(t)
    /\ ret' = [ret EXCEPT ![t] = "connerr"]
    /\ pc' = [pc EXCEPT ![t] = "caller"]
    /\ UNCHANGED <<conn, conninfo, keeptrying, running, q, res, iter, tries,
                   ncalls>>

\* PQexecParams returns NULL: disconnect and try again
QueryNoResult(t) ==
    /\ pc[t] = "send"
    /\ conn
    /\ res' = [res EXCEPT ![t] = "NULL"]
    /\ conn' = FALSE
    /\ iter' = [iter EXCEPT ![t] = @ + 1]
    /\ pc' = [pc EXCEPT ![t] = "loop"]
    /\ UNCHANGED <<mutex, conninfo, keeptrying, running, q, ret, tries,
                   ncalls>>

\* PQexecParams returns a result: success, a retryable fatal error without
\* SQLSTATE (disconnect, loop again), or a duplicate key / query error
QueryResult(t) ==
    /\ pc[t] = "send"
    /\ conn
    /\ res' = [res EXCEPT ![t] = "PGresult"]
    /\ \E st \in Statuses, ss \in SqlStates :
          CASE ResultOk(st) ->
                 /\ ret' = [ret EXCEPT ![t] = "ok"]
                 /\ pc' = [pc EXCEPT ![t] = "caller"]
                 /\ UNCHANGED <<conn, iter>>
            [] ~ResultOk(st) /\ Retryable(st, ss) ->
                 /\ conn' = FALSE
                 /\ iter' = [iter EXCEPT ![t] = @ + 1]
                 /\ pc' = [pc EXCEPT ![t] = "loop"]
                 /\ UNCHANGED ret
            [] OTHER ->
                 /\ ret' = [ret EXCEPT ![t] = ErrorKind(ss)]
                 /\ pc' = [pc EXCEPT ![t] = "caller"]
                 /\ UNCHANGED <<conn, iter>>
    /\ UNCHANGED <<mutex, conninfo, keeptrying, running, q, tries, ncalls>>

\* db_query_finish: PQclear and clear db->q if a result is set; unlock
QueryFinish(t) ==
    /\ IF res[t] # "NULL"
       THEN /\ res' = [res EXCEPT ![t] = "NULL"]
            /\ q' = NoOwner
       ELSE UNCHANGED <<res, q>>
    /\ mutex' \in UnlockResult(t)

\* The caller finishes after db_query, as its finish policy says
CallerFinish(t) ==
    /\ pc[t] = "caller"
    /\ FinishPolicy = "always" \/ ret[t] \in LockKept
    /\ QueryFinish(t)
    /\ pc' = [pc EXCEPT ![t] = "idle"]
    /\ UNCHANGED <<conn, conninfo, keeptrying, running, ret, iter, tries,
                   ncalls>>

\* A caller following the specification does not finish after an error
\* that already released the mutex
CallerSkipFinish(t) ==
    /\ pc[t] = "caller"
    /\ FinishPolicy # "always"
    /\ ret[t] \notin LockKept
    /\ pc' = [pc EXCEPT ![t] = "idle"]
    /\ UNCHANGED <<mutex, conn, conninfo, keeptrying, running, q, res, ret,
                   iter, tries, ncalls>>

\* The caller calls db_query again with the result of its last query still
\* unfinished, and the mutex still locked by itself
CallerRequery(t) ==
    /\ pc[t] = "caller"
    /\ FinishPolicy = "requery"
    /\ ret[t] \in LockKept
    /\ ncalls[t] < MaxCalls
    /\ pc' = [pc EXCEPT ![t] = "lock"]
    /\ ncalls' = [ncalls EXCEPT ![t] = @ + 1]
    /\ UNCHANGED <<mutex, conn, conninfo, keeptrying, running, q, res, ret,
                   iter, tries>>

\* db_set_keeptrying: an unlocked write, racing with db_connect's loop
SetKeepTrying(t) ==
    /\ pc[t] = "idle"
    /\ ncalls[t] < MaxCalls
    /\ \E b \in KeepTryingValues :
          /\ b # keeptrying
          /\ keeptrying' = b
    /\ ncalls' = [ncalls EXCEPT ![t] = @ + 1]
    /\ UNCHANGED <<pc, mutex, conn, conninfo, running, q, res, ret, iter,
                   tries>>

\* The application asks its threads to stop: thread_keep_running() is false
StopRunning ==
    /\ running
    /\ running' = FALSE
    /\ UNCHANGED <<pc, mutex, conn, conninfo, keeptrying, q, res, ret, iter,
                   tries, ncalls>>

Thread(t) ==
    \/ StartQuery(t) \/ QueryLock(t) \/ QueryCompile(t) \/ QueryLoop(t)
    \/ ConnectSucceed(t) \/ ConnectFail(t) \/ ConnectGiveUp(t)
    \/ QueryNoConnection(t) \/ QueryNoResult(t) \/ QueryResult(t)
    \/ CallerFinish(t) \/ CallerSkipFinish(t) \/ CallerRequery(t)
    \/ SetKeepTrying(t)

\* Every thread has made its calls and returned, or the process aborted
Terminated ==
    \/ Aborted
    \/ \A t \in Threads : pc[t] = "idle" /\ ncalls[t] = MaxCalls

Next ==
    \/ ~Aborted /\ \E t \in Threads : Thread(t)
    \/ ~Aborted /\ ~Terminated /\ StopRunning
    \/ Terminated /\ UNCHANGED vars

\* Threads are OS threads: one that can run eventually runs
Fairness == \A t \in Threads : WF_vars(Thread(t))

Spec == Init /\ [][Next]_vars
FairSpec == Spec /\ Fairness

-----------------------------------------------------------------------------
(* Properties.                                                             *)

TypeOK ==
    /\ pc \in [Threads -> PCs]
    /\ mutex \in Threads \cup {NoOwner}
    /\ conn \in BOOLEAN
    /\ conninfo \in BOOLEAN
    /\ keeptrying \in BOOLEAN
    /\ running \in BOOLEAN
    /\ q \in Threads \cup {NoOwner}
    /\ res \in [Threads -> {"NULL", "PGresult"}]
    /\ ret \in [Threads -> Rets]
    /\ iter \in [Threads -> 0..2]
    /\ tries \in [Threads -> 0..MaxTries]
    /\ ncalls \in [Threads -> 0..MaxCalls]

\* Thread t is inside db_query past mutex_lock, or back in its caller with
\* the mutex still locked for it (db_query returned OK, a duplicate key or
\* a query error), or died in the abort() while holding it
Holding(t) ==
    \/ pc[t] \in {"compile", "loop", "connect", "send", "aborted"}
    \/ pc[t] = "caller" /\ ret[t] \in LockKept

(* At most one query is in flight on the connection: no two threads are   *)
(* between db_query's mutex_lock and the mutex_unlock that ends the query *)
(* (in db_query's error paths or in db_query_finish), so db->q and        *)
(* db->conn are only touched by one thread at a time.                     *)
MutualExclusion ==
    \A t, u \in Threads : t # u => ~(Holding(t) /\ Holding(u))

(* The mutex is locked exactly when some thread holds the connection, and *)
(* by that thread: every return path of db_query either unlocks or leaves *)
(* the mutex to the caller's db_query_finish, and nothing else unlocks.   *)
LockOwnedByHolder ==
    \A t \in Threads : (mutex = t) <=> Holding(t)

(* The specification's data model: a result is finished before the        *)
(* connection's lock is released, so a thread holds an unfinished         *)
(* PGresult only while it holds the connection (db_query's "Query still   *)
(* open" abort relies on this).                                           *)
NoStaleResult ==
    \A t \in Threads : res[t] # "NULL" => Holding(t)

(* A PGresult is released only by db_query_finish: db_query never sends a *)
(* statement, overwriting result->res, while it still holds one.         *)
ResultNotDropped ==
    \A t \in Threads : pc[t] = "send" => res[t] = "NULL"

(* Every call of db_query returns to its caller (unless the process       *)
(* aborted): the bounded retry loops of db_query and db_connect end and a *)
(* thread waiting for the mutex eventually gets it.                       *)
QueriesReturn ==
    \A t \in Threads : pc[t] = "lock" ~> (pc[t] = "caller" \/ Aborted)

(* Section 8: a second query issued while the result of the first is not  *)
(* finished is rejected as a protocol violation, never silently executed; *)
(* db_query's comment says its result->res check catches un-finished      *)
(* results in a loop.  So a thread that enters db_query with its result   *)
(* still set eventually reaches the abort().                              *)
UnfinishedResultRejected ==
    \A t \in Threads : pc[t] = "lock" /\ res[t] # "NULL" ~> Aborted

-----------------------------------------------------------------------------
(* Refinement of the specification's Executor (DbExecutor): a thread is   *)
(* in its query while it holds the connection (Holding), waiting while it *)
(* blocks in db_query's mutex_lock, idle otherwise; the lock is db->mutex *)
(* and the scratch buffer is db->q.                                        *)
ExecPhase ==
    [t \in Threads |-> IF Holding(t) THEN "inquery"
                       ELSE IF pc[t] = "lock" THEN "waiting"
                       ELSE "idle"]

Exec == INSTANCE DbExecutor WITH phase <- ExecPhase, lock <- mutex, buf <- q

(* Sections 4.3 and 5: db_query and db_query_finish serialise the queries *)
(* of all threads on db->mutex as the Executor promises: a thread takes   *)
(* the mutex only when it is free, only the thread holding it writes or   *)
(* clears db->q, and it is released, by its owner, exactly when that      *)
(* thread's query ends (an early error in db_query or db_query_finish).   *)
ExecutorRefined == Exec!Spec

=============================================================================
