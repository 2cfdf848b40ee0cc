------------------------------- MODULE DbSetup --------------------------------
(***************************************************************************)
(* The administrative bootstrap of src/src/db/db_psql.c: db_setup builds   *)
(* a private dbconn_t and calls db_setupA, which connects as the postgres *)
(* user, drops and recreates the role and the database with four         *)
(* db_query calls, disconnects, and adds a "trust" line for the role to   *)
(* pg_hba.conf by copying the file behind a new first line and renaming  *)
(* the copy over it, unless the old file already had the line.           *)
(*                                                                         *)
(* The server, the file system and libpq are the environment: each        *)
(* connection, statement, fopen may fail, and failed records that one   *)
(* did; the writes, reads, fclose, unlink, rename and system() whose       *)
(* results db_setupA ignores may fail too, and ioerr records that.  A      *)
(* statement is one atomic step (db_query and its retry are       *)
(* modelled in DbConn).  pg_hba.conf is abstracted to the number of our   *)
(* lines it holds; the server version to PQserverVersion's integer.       *)
(***************************************************************************)
EXTENDS Integers

CONSTANTS
    Versions,   \* what PQserverVersion may return
    Failures    \* the environment may fail a step (FALSE: it never does)

ASSUME VersionsAssumption == Versions \subseteq Nat \ {0} /\ Versions # {}
ASSUME FailuresAssumption == Failures \in BOOLEAN

\* the four statements of db_setupA, in order: the object each drops
\* (IF EXISTS) or creates, and whether it exists after the statement
Statements == <<[obj |-> "database", exists |-> FALSE],   \* DROP DATABASE
                [obj |-> "role", exists |-> FALSE],       \* DROP USER
                [obj |-> "role", exists |-> TRUE],        \* CREATE USER
                [obj |-> "database", exists |-> TRUE]>>   \* CREATE DATABASE

\* the directory the server's files live in: "9.6" below version 10,
\* the major number alone from 10 on (PQserverVersion is 10000 * major
\* + minor there, 10000 * major + 100 * minor + patch before)
ServerDir(v) == IF v >= 100000 THEN <<v \div 10000>>
                ELSE <<v \div 10000, (v % 10000) \div 100>>

\* "/etc/postgresql/%u.%u/main/...", libver / 10000, libver % 1000 / 100
DirOf(v) == <<v \div 10000, (v % 1000) \div 100>>

VARIABLES
    pc,         \* the step db_setup is at
    mutex,      \* db->mutex: "init" or "destroyed"
    held,       \* db->mutex is locked
    destroys,   \* mutex_destroy calls on db->mutex
    conn,       \* db->conn is a live handle
    conninfo,   \* db->conninfo: "user", "postgres" or "none" (NULL)
    libver,     \* the server version read after connecting
    stmt,       \* the next statement of Statements
    role,       \* the role exists on the server
    database,   \* the database exists on the server
    hba,        \* our lines in pg_hba.conf
    copy,       \* our lines in pg_hba.conf.defiance, -1 when absent
    open,       \* the FILE handles not closed: subset of {"fo", "fn"}
    already,    \* the old file had our line
    restarted,  \* the service restart was requested
    failed,     \* the environment failed a step db_setupA checks
    ioerr,      \* a file call whose result db_setupA ignores failed
    ret         \* what db_setupA returned

vars == <<pc, mutex, held, destroys, conn, conninfo, libver, stmt, role,
          database, hba, copy, open, already, restarted, failed, ioerr, ret>>

\* db_setup: db_init, db_initres, db_set_notices; the server's state and
\* the old pg_hba.conf are whatever they are
Init ==
    /\ pc = "setupA"
    /\ mutex = "init" /\ held = FALSE /\ destroys = 0
    /\ conn = FALSE /\ conninfo = "user"
    /\ libver = 0 /\ stmt = 1
    /\ role \in BOOLEAN /\ database \in BOOLEAN
    /\ hba \in {0, 1} /\ copy = -1 /\ open = {}
    /\ already = FALSE /\ restarted = FALSE /\ failed = FALSE /\ ret = FALSE
    /\ ioerr = FALSE

\* db_setupA's early return with false after the environment failed it
Fail == failed' = TRUE /\ ret' = FALSE /\ pc' = "return"

\* lock, replace conninfo, db_tryconnect succeeds
ConnectOk ==
    /\ pc = "setupA"
    /\ conninfo' = "postgres"
    /\ held' = TRUE /\ conn' = TRUE /\ pc' = "version"
    /\ UNCHANGED <<mutex, destroys, libver, stmt, role, database, hba, copy,
                   open, already, restarted, failed, ioerr, ret>>

\* Mutant: the failure path returns without mutex_unlock
ConnectFailNoUnlock ==
    /\ pc = "setupA" /\ Failures
    /\ conninfo' = "postgres"
    /\ held' = TRUE /\ conn' = FALSE /\ Fail
    /\ UNCHANGED <<mutex, destroys, libver, stmt, role, database, hba, copy,
                   open, already, restarted, ioerr>>

\* lock, replace conninfo, db_tryconnect fails: unlock and return false
ConnectFail ==
    /\ pc = "setupA" /\ Failures
    /\ conninfo' = "postgres"
    /\ held' = FALSE /\ conn' = FALSE /\ Fail
    /\ UNCHANGED <<mutex, destroys, libver, stmt, role, database, hba, copy,
                   open, already, restarted, ioerr>>

\* libver = PQserverVersion(db->conn); unlock
Version ==
    /\ pc = "version"
    /\ \E v \in Versions : libver' = v
    /\ held' = FALSE
    /\ pc' = "query"
    /\ UNCHANGED <<mutex, destroys, conn, conninfo, stmt, role, database, hba,
                   copy, open, already, restarted, failed, ioerr, ret>>

\* db_query and db_query_finish of the next statement, which succeeds
QueryOk ==
    /\ pc = "query"
    /\ LET st == Statements[stmt] IN
         /\ database' = IF st.obj = "database" THEN st.exists ELSE database
         /\ role' = IF st.obj = "role" THEN st.exists ELSE role
    /\ stmt' = stmt + 1
    /\ pc' = IF stmt = 4 THEN "disconnect" ELSE "query"
    /\ UNCHANGED <<mutex, held, destroys, conn, conninfo, libver, hba, copy,
                   open, already, restarted, failed, ioerr, ret>>

\* Mutant: the failed statement is logged but db_setupA goes on
QueryFailContinue ==
    /\ pc = "query" /\ Failures
    /\ conn' \in BOOLEAN
    /\ failed' = TRUE
    /\ stmt' = stmt + 1
    /\ pc' = IF stmt = 4 THEN "disconnect" ELSE "query"
    /\ UNCHANGED <<mutex, held, destroys, conninfo, libver, role, database,
                   hba, copy, open, already, restarted, ioerr, ret>>

\* the statement fails (the retry's reconnect may have dropped the
\* connection): return false
QueryFail ==
    /\ pc = "query" /\ Failures
    /\ conn' \in BOOLEAN
    /\ Fail
    /\ UNCHANGED <<mutex, held, destroys, conninfo, libver, stmt, role,
                   database, hba, copy, open, already, restarted, ioerr>>

\* db_cleanup: PQfinish, free(conninfo), mutex_destroy
Cleanup ==
    /\ conn' = FALSE
    /\ conninfo' = "none"
    /\ mutex' = "destroyed"
    /\ destroys' = destroys + 1

\* db_setupA's db_cleanup(db) after the last statement
Disconnect ==
    /\ pc = "disconnect"
    /\ Cleanup
    /\ pc' = "fold"
    /\ UNCHANGED <<held, libver, stmt, role, database, hba, copy, open,
                   already, restarted, failed, ioerr, ret>>

\* fo = fopen(fold, "r+") succeeds: the file exists in the server's directory
OpenOldOk ==
    /\ pc = "fold"
    /\ DirOf(libver) = ServerDir(libver)
    /\ open' = {"fo"} /\ pc' = "fnew"
    /\ UNCHANGED <<mutex, held, destroys, conn, conninfo, libver, stmt, role,
                   database, hba, copy, already, restarted, failed, ioerr, ret>>

\* fopen(fold) fails: return false
OpenOldFail ==
    /\ pc = "fold" /\ Failures
    /\ Fail
    /\ UNCHANGED <<mutex, held, destroys, conn, conninfo, libver, stmt, role,
                   database, hba, copy, open, already, restarted, ioerr>>

\* fopen(fold) of a file not in the server's directory fails: return false
OpenOldMissing ==
    /\ pc = "fold"
    /\ DirOf(libver) # ServerDir(libver)
    /\ ret' = FALSE /\ pc' = "return"
    /\ UNCHANGED <<mutex, held, destroys, conn, conninfo, libver, stmt, role,
                   database, hba, copy, open, already, restarted, failed,
                   ioerr>>

\* fn = fopen(fnew, "w+") creates the empty copy
OpenNewOk ==
    /\ pc = "fnew"
    /\ open' = open \cup {"fn"} /\ copy' = 0 /\ pc' = "copy"
    /\ UNCHANGED <<mutex, held, destroys, conn, conninfo, libver, stmt, role,
                   database, hba, already, restarted, failed, ioerr, ret>>

\* fopen(fnew) fails: return false, fo still open
OpenNewFail ==
    /\ pc = "fnew" /\ Failures
    /\ Fail
    /\ UNCHANGED <<mutex, held, destroys, conn, conninfo, libver, stmt, role,
                   database, hba, copy, open, already, restarted, ioerr>>

\* the outcomes of a call whose result db_setupA does not look at
Outcomes == IF Failures THEN BOOLEAN ELSE {TRUE}

\* a failed fputs, fgets or fclose: the copy may lack our first line or
\* end early (fewer of the old file's lines, our line perhaps unseen)
CopyLost ==
    /\ Failures
    /\ copy' \in 0..hba + 1
    /\ already' \in BOOLEAN /\ (already' => hba > 0)
    /\ ioerr' = TRUE

\* Mutant: the comparison with our line never matches
CopyHbaNoMatch ==
    /\ pc = "copy"
    /\ \/ copy' = hba + 1 /\ already' = FALSE /\ UNCHANGED ioerr
       \/ CopyLost
    /\ open' = {}
    /\ pc' = "replace"
    /\ UNCHANGED <<mutex, held, destroys, conn, conninfo, libver, stmt, role,
                   database, hba, restarted, failed, ret>>

\* prepend our line, copy the old file noting our line in it, close both;
\* the results of fputs, fgets and fclose are not checked
CopyHba ==
    /\ pc = "copy"
    /\ \/ copy' = hba + 1 /\ already' = (hba > 0) /\ UNCHANGED ioerr
       \/ CopyLost
    /\ open' = {}
    /\ pc' = "replace"
    /\ UNCHANGED <<mutex, held, destroys, conn, conninfo, libver, stmt, role,
                   database, hba, restarted, failed, ret>>

\* unlink the copy when the line was there, else rename it over the old
\* file and restart the service (system() runs whether or not rename
\* worked); none of the three results is checked: return rep == DB_R_OK
ReplaceHba ==
    /\ pc = "replace"
    /\ IF already
       THEN \E unlinked \in Outcomes :
              /\ copy' = IF unlinked THEN -1 ELSE copy
              /\ ioerr' = (ioerr \/ ~unlinked)
              /\ UNCHANGED <<hba, restarted>>
       ELSE \E renamed, restart \in Outcomes :
              /\ hba' = IF renamed THEN copy ELSE hba
              /\ copy' = IF renamed THEN -1 ELSE copy
              /\ restarted' = restart
              /\ ioerr' = (ioerr \/ ~renamed \/ ~restart)
    /\ ret' = TRUE
    /\ pc' = "return"
    /\ UNCHANGED <<mutex, held, destroys, conn, conninfo, libver, stmt, role,
                   database, open, already, failed>>

\* db_setup's db_cleanup(&db) after db_setupA returns
SetupReturn ==
    /\ pc = "return"
    /\ Cleanup
    /\ pc' = "done"
    /\ UNCHANGED <<held, libver, stmt, role, database, hba, copy, open,
                   already, restarted, failed, ioerr, ret>>

Next == \/ ConnectOk \/ ConnectFail \/ Version \/ QueryOk \/ QueryFail
        \/ Disconnect \/ OpenOldOk \/ OpenOldFail \/ OpenOldMissing
        \/ OpenNewOk \/ OpenNewFail \/ CopyHba \/ ReplaceHba \/ SetupReturn

Spec == Init /\ [][Next]_vars

-----------------------------------------------------------------------------
(* Properties.                                                            *)

TypeOK ==
    /\ pc \in {"setupA", "version", "query", "disconnect", "fold", "fnew",
               "copy", "replace", "return", "done"}
    /\ mutex \in {"init", "destroyed"} /\ held \in BOOLEAN
    /\ destroys \in 0..2
    /\ conn \in BOOLEAN /\ conninfo \in {"user", "postgres", "none"}
    /\ libver \in Versions \cup {0} /\ stmt \in 1..5
    /\ role \in BOOLEAN /\ database \in BOOLEAN
    /\ hba \in 0..2 /\ copy \in -1..3 /\ open \subseteq {"fo", "fn"}
    /\ already \in BOOLEAN /\ restarted \in BOOLEAN
    /\ failed \in BOOLEAN /\ ioerr \in BOOLEAN /\ ret \in BOOLEAN

(* db_setup's result: it returns true exactly when no step it checks    *)
(* failed (the server steps and the two fopen calls), and then the role  *)
(* and the database exist; when moreover none of the file calls whose    *)
(* results it ignores failed, pg_hba.conf holds our line exactly once    *)
(* whether or not it held it before, the temporary copy is gone, and the *)
(* service was restarted exactly when the file changed.                  *)
SetupResult ==
    pc = "done" =>
        /\ ret <=> ~failed
        /\ ret => role /\ database
        /\ ret /\ ~ioerr => /\ hba = 1 /\ copy = -1
                            /\ restarted <=> ~already

(* db_setup leaves nothing held: the mutex is unlocked (db_setupA unlocks *)
(* on its connect failure and after reading the version), the connection *)
(* is closed and conninfo freed by db_cleanup.                            *)
ReleasedAtReturn ==
    pc = "done" => ~held /\ ~conn /\ conninfo = "none"

(* mutex_destroy runs at most once on db->mutex: destroying a destroyed   *)
(* pthread mutex is undefined.                                            *)
DestroyedOnce == destroys <= 1

(* Every FILE db_setupA opens is closed before db_setup returns.          *)
FilesClosed == pc = "done" => open = {}

(* pg_hba.conf changes only in db_setupA's rename of the finished copy,  *)
(* after fclose has closed both files, and never when the old file was    *)
(* seen to hold our line; in a step where no ignored file call failed,    *)
(* the change adds our line to a file without it, and the service is      *)
(* restarted in exactly that step.                                        *)
HbaReplacedOnce ==
    [][/\ hba' # hba => open = {} /\ ~already
       /\ ~ioerr' => /\ restarted' # restarted <=> hba' # hba
                     /\ hba' # hba => hba = 0 /\ hba' = 1]_vars

(* db_setupA counts a pg_hba.conf it cannot open as a failure (its two    *)
(* fopen checks return false), so a true result should mean that the     *)
(* file now holds our line: the calls after the fopens must not fail      *)
(* silently.                                                              *)
TrueMeansHbaLine == pc = "done" /\ ret => hba = 1

====
