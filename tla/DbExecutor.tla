------------------------------ MODULE DbExecutor ------------------------------
(***************************************************************************)
(* What the specification (sections 4.3 and 5) promises of one Connection *)
(* shared by several threads: acquiring it for a query blocks until the   *)
(* connection's lock is free, the lock is held from then until the caller *)
(* finishes its Result (or the Executor gives up on an early error), and  *)
(* the scratch buffer holding the query text is only written while its    *)
(* writer holds the lock.  Queries are fully serialised.                  *)
(*                                                                         *)
(* DbConn refines this specification (DbConn!ExecutorRefined).            *)
(***************************************************************************)
CONSTANTS
    Threads,    \* callers of the Executor
    NoOwner     \* the lock is free / the buffer holds no statement

VARIABLES
    phase,      \* per thread: "idle", "waiting" for the lock, or "inquery"
    lock,       \* the thread holding the connection's lock, or NoOwner
    buf         \* whose statement the scratch buffer holds, or NoOwner

vars == <<phase, lock, buf>>

Init ==
    /\ phase = [t \in Threads |-> "idle"]
    /\ lock = NoOwner
    /\ buf = NoOwner

\* a caller asks the Executor for a query and waits for the connection
Request(t) ==
    /\ phase[t] = "idle"
    /\ phase' = [phase EXCEPT ![t] = "waiting"]
    /\ UNCHANGED <<lock, buf>>

\* the lock is free: the caller's query starts
Acquire(t) ==
    /\ phase[t] = "waiting"
    /\ lock = NoOwner
    /\ phase' = [phase EXCEPT ![t] = "inquery"]
    /\ lock' = t
    /\ UNCHANGED buf

\* the lock holder compiles its statement into the buffer (or clears it)
UseBuffer(t) ==
    /\ phase[t] = "inquery"
    /\ lock = t
    /\ buf' \in {t, NoOwner}
    /\ UNCHANGED <<phase, lock>>

\* the query ends (Result finished, or an early error) and the lock is
\* released; the same step may write or clear the buffer
Release(t) ==
    /\ phase[t] = "inquery"
    /\ lock = t
    /\ phase' = [phase EXCEPT ![t] = "idle"]
    /\ lock' = NoOwner
    /\ buf' \in {buf, t, NoOwner}

Next ==
    \E t \in Threads : Request(t) \/ Acquire(t) \/ UseBuffer(t) \/ Release(t)

Spec == Init /\ [][Next]_vars

=============================================================================
