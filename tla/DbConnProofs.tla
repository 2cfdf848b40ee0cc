---------------------------- MODULE DbConnProofs ----------------------------
(***************************************************************************)
(* Proofs about DbConn for every set of threads, every number of calls    *)
(* and every set of templates.                                            *)
(***************************************************************************)
EXTENDS DbConn, TLAPS

(* TypeOK is not inductive by itself: QueryNoResult and QueryResult       *)
(* increment the send-loop counter, which stays in 0..2 only because a    *)
(* thread reaches db_connect or the send with i < 2 (the loop head checks *)
(* it).                                                                   *)
IterBound == \A t \in Threads : pc[t] \in {"connect", "send"} => iter[t] < 2

TypeInv == TypeOK /\ IterBound

(* The inductive invariant behind mutual exclusion (see below).           *)
IInv == TypeInv /\ LockOwnedByHolder

(* The initial state of db_init satisfies the typing invariant.          *)
LEMMA TypeCorrectInit == Init => TypeInv
<1> USE ThreadsAssumption, MaxCallsAssumption, KeepTryingAssumption
<1> USE DEF TypeInv, TypeOK, IterBound, PCs, Rets, MaxTries
<1> SUFFICES ASSUME Init PROVE TypeInv
  OBVIOUS
<1>1. pc \in [Threads -> PCs]
  BY DEF Init
<1>2. mutex \in Threads \cup {NoOwner} /\ q \in Threads \cup {NoOwner}
  BY DEF Init
<1>3. /\ conn \in BOOLEAN /\ conninfo \in BOOLEAN
      /\ keeptrying \in BOOLEAN /\ running \in BOOLEAN
  BY DEF Init
<1>4. res \in [Threads -> {"NULL", "PGresult"}] /\ ret \in [Threads -> Rets]
  BY DEF Init
<1>5. /\ iter \in [Threads -> 0..2] /\ tries \in [Threads -> 0..MaxTries]
      /\ ncalls \in [Threads -> 0..MaxCalls]
  BY DEF Init
<1>6. IterBound
  BY DEF Init
<1>7. QED
  BY <1>1, <1>2, <1>3, <1>4, <1>5, <1>6

LEMMA TypeStep == TypeInv /\ [Next]_vars => TypeInv'
<1> USE ThreadsAssumption, MaxCallsAssumption, KeepTryingAssumption
<1> USE DEF TypeInv, TypeOK, IterBound, PCs, Rets, MaxTries
<1> SUFFICES ASSUME TypeInv, [Next]_vars PROVE TypeInv'
  OBVIOUS
<1>1. ASSUME NEW t \in Threads, StartQuery(t) PROVE TypeInv'
  BY <1>1 DEF StartQuery
<1>2. ASSUME NEW t \in Threads, QueryLock(t) PROVE TypeInv'
  BY <1>2 DEF QueryLock
<1>3. ASSUME NEW t \in Threads, QueryCompile(t) PROVE TypeInv'
  BY <1>3 DEF QueryCompile, UnlockResult
<1>4. ASSUME NEW t \in Threads, QueryLoop(t) PROVE TypeInv'
  BY <1>4 DEF QueryLoop
<1>5. ASSUME NEW t \in Threads, ConnectSucceed(t) PROVE TypeInv'
  BY <1>5 DEF ConnectSucceed
<1>6. ASSUME NEW t \in Threads, ConnectFail(t) PROVE TypeInv'
  <2>1. CASE running
    <3>1. tries' = [tries EXCEPT ![t] = IF @ < MaxTries THEN @ + 1 ELSE @]
      BY <1>6, <2>1 DEF ConnectFail
    <3>2. tries' \in [Threads -> 0..MaxTries]
      BY <3>1
    <3>3. QED
      BY <1>6, <2>1, <3>2 DEF ConnectFail
  <2>2. CASE ~running
    BY <1>6, <2>2 DEF ConnectFail
  <2>3. QED
    BY <2>1, <2>2
<1>7. ASSUME NEW t \in Threads, ConnectGiveUp(t) PROVE TypeInv'
  BY <1>7 DEF ConnectGiveUp
<1>8. ASSUME NEW t \in Threads, QueryNoConnection(t) PROVE TypeInv'
  BY <1>8 DEF QueryNoConnection, UnlockResult
<1>9. ASSUME NEW t \in Threads, QueryNoResult(t) PROVE TypeInv'
  <2>1. iter[t] < 2
    BY <1>9 DEF QueryNoResult
  <2>2. iter' \in [Threads -> 0..2]
    BY <1>9, <2>1 DEF QueryNoResult
  <2>3. QED
    BY <1>9, <2>2 DEF QueryNoResult
<1>10. ASSUME NEW t \in Threads, QueryResult(t) PROVE TypeInv'
  <2>1. iter[t] < 2
    BY <1>10 DEF QueryResult
  <2>2. PICK st \in Statuses, ss \in SqlStates :
              CASE ResultOk(st) ->
                     /\ ret' = [ret EXCEPT ![t] = "ok"]
                     /\ pc' = [pc EXCEPT ![t] = "caller"]
                     /\ UNCHANGED <<conn, iter>>
                [] ~ResultOk(st) /\ Retryable(st, ss) ->
                     /\ conn' = FALSE
                     /\ iter' = [iter EXCEPT ![t] = @ + 1]
                     /\ pc' = [pc EXCEPT ![t] = "loop"]
                     /\ UNCHANGED ret
                [] OTHER ->
                     /\ ret' = [ret EXCEPT ![t] = ErrorKind(ss)]
                     /\ pc' = [pc EXCEPT ![t] = "caller"]
                     /\ UNCHANGED <<conn, iter>>
    BY <1>10 DEF QueryResult
  <2>3. CASE ResultOk(st)
    BY <1>10, <2>2, <2>3 DEF QueryResult
  <2>4. CASE ~ResultOk(st) /\ Retryable(st, ss)
    <3>1. /\ conn' = FALSE
          /\ iter' = [iter EXCEPT ![t] = @ + 1]
          /\ pc' = [pc EXCEPT ![t] = "loop"]
          /\ ret' = ret
      BY <2>2, <2>4
    <3>2. iter' \in [Threads -> 0..2]
      BY <2>1, <3>1
    <3>3. QED
      BY <1>10, <3>1, <3>2 DEF QueryResult
  <2>5. CASE ~ResultOk(st) /\ ~Retryable(st, ss)
    BY <1>10, <2>2, <2>5 DEF QueryResult, ErrorKind
  <2>6. QED
    BY <2>3, <2>4, <2>5
<1>11. ASSUME NEW t \in Threads, CallerFinish(t) PROVE TypeInv'
  BY <1>11 DEF CallerFinish, QueryFinish, UnlockResult
<1>12. ASSUME NEW t \in Threads, CallerSkipFinish(t) PROVE TypeInv'
  BY <1>12 DEF CallerSkipFinish
<1>13. ASSUME NEW t \in Threads, SetKeepTrying(t) PROVE TypeInv'
  BY <1>13 DEF SetKeepTrying
<1>20. ASSUME NEW t \in Threads, CallerRequery(t) PROVE TypeInv'
  BY <1>20 DEF CallerRequery
<1>14. CASE StopRunning
  BY <1>14 DEF StopRunning
<1>15. CASE UNCHANGED vars
  BY <1>15 DEF vars
<1>16. QED
  BY <1>1, <1>2, <1>3, <1>4, <1>5, <1>6, <1>7, <1>8, <1>9, <1>10, <1>11,
     <1>12, <1>13, <1>14, <1>15, <1>20 DEF Next, Thread

(* Type correctness: every reachable state of db_query, db_connect and    *)
(* their callers gives each variable a value of its type; in particular   *)
(* db_query's loop counter never exceeds 2 and db_connect's saturated     *)
(* attempt counter never exceeds max.                                     *)
THEOREM TypeCorrect == Spec => []TypeOK
<1>1. TypeInv => TypeOK
  BY DEF TypeInv
<1>2. QED
  BY TypeCorrectInit, TypeStep, <1>1, PTL DEF Spec

-----------------------------------------------------------------------------
(* Ownership of the mutex.  LockOwnedByHolder says the mutex is owned     *)
(* exactly by the thread that holds the connection; it is inductive when  *)
(* callers finish exactly when db_query kept the mutex.                   *)
LEMMA LockInductive ==
  ASSUME FinishPolicy = "spec", IInv, [Next]_vars
  PROVE  LockOwnedByHolder'
<1> USE ThreadsAssumption DEF IInv, TypeInv, TypeOK, IterBound, PCs, Rets
<1> SUFFICES ASSUME NEW u \in Threads PROVE ((mutex = u) <=> Holding(u))'
  BY DEF LockOwnedByHolder
<1> DEFINE H(v) == Holding(v)
<1>0. \A v \in Threads : (mutex = v) <=> H(v)
  BY DEF LockOwnedByHolder
<1>1. ASSUME NEW t \in Threads, StartQuery(t) PROVE ((mutex = u) <=> H(u))'
  BY <1>0, <1>1 DEF StartQuery, Holding
<1>2. ASSUME NEW t \in Threads, QueryLock(t) PROVE ((mutex = u) <=> H(u))'
  BY <1>0, <1>2 DEF QueryLock, Holding
<1>3. ASSUME NEW t \in Threads, QueryCompile(t) PROVE ((mutex = u) <=> H(u))'
  BY <1>0, <1>3 DEF QueryCompile, Holding, UnlockResult, LockKept
<1>4. ASSUME NEW t \in Threads, QueryLoop(t) PROVE ((mutex = u) <=> H(u))'
  BY <1>0, <1>4 DEF QueryLoop, Holding, LockKept
<1>5. ASSUME NEW t \in Threads, ConnectSucceed(t) PROVE ((mutex = u) <=> H(u))'
  BY <1>0, <1>5 DEF ConnectSucceed, Holding
<1>6. ASSUME NEW t \in Threads, ConnectFail(t) PROVE ((mutex = u) <=> H(u))'
  BY <1>0, <1>6 DEF ConnectFail, Holding
<1>7. ASSUME NEW t \in Threads, ConnectGiveUp(t) PROVE ((mutex = u) <=> H(u))'
  BY <1>0, <1>7 DEF ConnectGiveUp, Holding
<1>8. ASSUME NEW t \in Threads, QueryNoConnection(t)
      PROVE ((mutex = u) <=> H(u))'
  BY <1>0, <1>8 DEF QueryNoConnection, Holding, UnlockResult, LockKept
<1>9. ASSUME NEW t \in Threads, QueryNoResult(t) PROVE ((mutex = u) <=> H(u))'
  BY <1>0, <1>9 DEF QueryNoResult, Holding
<1>10. ASSUME NEW t \in Threads, QueryResult(t) PROVE ((mutex = u) <=> H(u))'
  <2>1. /\ pc[t] = "send" /\ mutex' = mutex
        /\ \A v \in Threads \ {t} : pc'[v] = pc[v] /\ ret'[v] = ret[v]
    BY <1>10 DEF QueryResult
  <2>2. mutex = t
    BY <1>0, <2>1 DEF Holding
  <2>3. \/ pc'[t] = "caller" /\ ret'[t] \in LockKept
        \/ pc'[t] = "loop"
    <3>1. PICK st \in Statuses, ss \in SqlStates :
                CASE ResultOk(st) ->
                       /\ ret' = [ret EXCEPT ![t] = "ok"]
                       /\ pc' = [pc EXCEPT ![t] = "caller"]
                       /\ UNCHANGED <<conn, iter>>
                  [] ~ResultOk(st) /\ Retryable(st, ss) ->
                       /\ conn' = FALSE
                       /\ iter' = [iter EXCEPT ![t] = @ + 1]
                       /\ pc' = [pc EXCEPT ![t] = "loop"]
                       /\ UNCHANGED ret
                  [] OTHER ->
                       /\ ret' = [ret EXCEPT ![t] = ErrorKind(ss)]
                       /\ pc' = [pc EXCEPT ![t] = "caller"]
                       /\ UNCHANGED <<conn, iter>>
      BY <1>10 DEF QueryResult
    <3>2. CASE ResultOk(st)
      BY <3>1, <3>2 DEF LockKept
    <3>3. CASE ~ResultOk(st) /\ Retryable(st, ss)
      BY <3>1, <3>3
    <3>4. CASE ~ResultOk(st) /\ ~Retryable(st, ss)
      BY <3>1, <3>4 DEF LockKept, ErrorKind
    <3>5. QED
      BY <3>2, <3>3, <3>4
  <2>4. CASE u = t
    BY <2>1, <2>2, <2>3, <2>4 DEF Holding
  <2>5. CASE u # t
    BY <1>0, <2>1, <2>2, <2>5 DEF Holding
  <2>6. QED
    BY <2>4, <2>5
<1>11. ASSUME NEW t \in Threads, CallerFinish(t) PROVE ((mutex = u) <=> H(u))'
  BY <1>0, <1>11 DEF CallerFinish, QueryFinish, Holding, UnlockResult
<1>12. ASSUME NEW t \in Threads, CallerSkipFinish(t)
       PROVE ((mutex = u) <=> H(u))'
  BY <1>0, <1>12 DEF CallerSkipFinish, Holding
<1>13. ASSUME NEW t \in Threads, SetKeepTrying(t) PROVE ((mutex = u) <=> H(u))'
  BY <1>0, <1>13 DEF SetKeepTrying, Holding
<1>20. ASSUME NEW t \in Threads, CallerRequery(t) PROVE ((mutex = u) <=> H(u))'
  BY <1>20 DEF CallerRequery
<1>14. CASE StopRunning
  BY <1>0, <1>14 DEF StopRunning, Holding
<1>15. CASE UNCHANGED vars
  BY <1>0, <1>15 DEF vars, Holding
<1>16. QED
  BY <1>1, <1>2, <1>3, <1>4, <1>5, <1>6, <1>7, <1>8, <1>9, <1>10, <1>11,
     <1>12, <1>13, <1>14, <1>15, <1>20 DEF Next, Thread

(* db_init leaves the mutex free and no thread holding the connection.    *)
LEMMA IInvInit == Init => IInv
<1> SUFFICES ASSUME Init PROVE IInv
  OBVIOUS
<1>1. TypeInv
  BY TypeCorrectInit
<1>2. LockOwnedByHolder
  BY ThreadsAssumption DEF Init, LockOwnedByHolder, Holding
<1>3. QED
  BY <1>1, <1>2 DEF IInv

LEMMA IInvStep ==
  ASSUME FinishPolicy = "spec"
  PROVE  IInv /\ [Next]_vars => IInv'
  BY LockInductive, TypeStep DEF IInv

(* The mutex is owned exactly by the thread holding the connection, for  *)
(* callers that follow the specification: every return path of db_query *)
(* either unlocks (compile error, no connection) or leaves the unlock to *)
(* the caller's db_query_finish (OK, duplicate key, query error), and    *)
(* db_query_finish unlocks only the mutex its own thread owns.           *)
THEOREM LockOwnedByHolderHolds ==
  ASSUME FinishPolicy = "spec"
  PROVE  Spec => []LockOwnedByHolder
<1>1. IInv => LockOwnedByHolder
  BY DEF IInv
<1>2. QED
  BY IInvInit, IInvStep, <1>1, PTL DEF Spec

(* Mutual exclusion needs less than LockOwnedByHolder: it is enough that  *)
(* a thread holding the connection owns the mutex.  That weaker invariant *)
(* also survives a caller that calls db_query again with its result       *)
(* unfinished (FinishPolicy "requery"): the caller blocks in mutex_lock on *)
(* the mutex it still owns, so the mutex is owned by a thread that does   *)
(* not hold the connection, which LockOwnedByHolder forbids.              *)
HolderOwnsLock == \A t \in Threads : Holding(t) => mutex = t

OInv == TypeInv /\ HolderOwnsLock

LEMMA HolderInductive ==
  ASSUME FinishPolicy # "always", OInv, [Next]_vars
  PROVE  HolderOwnsLock'
<1> USE ThreadsAssumption DEF OInv, TypeInv, TypeOK, IterBound, PCs, Rets
<1> SUFFICES ASSUME NEW u \in Threads PROVE (Holding(u) => mutex = u)'
  BY DEF HolderOwnsLock
<1> DEFINE H(v) == Holding(v)
<1>0. \A v \in Threads : H(v) => mutex = v
  BY DEF HolderOwnsLock
<1>1. ASSUME NEW t \in Threads, StartQuery(t) PROVE (H(u) => mutex = u)'
  BY <1>0, <1>1 DEF StartQuery, Holding
<1>2. ASSUME NEW t \in Threads, QueryLock(t) PROVE (H(u) => mutex = u)'
  BY <1>0, <1>2 DEF QueryLock, Holding
<1>3. ASSUME NEW t \in Threads, QueryCompile(t) PROVE (H(u) => mutex = u)'
  BY <1>0, <1>3 DEF QueryCompile, Holding, UnlockResult, LockKept
<1>4. ASSUME NEW t \in Threads, QueryLoop(t) PROVE (H(u) => mutex = u)'
  BY <1>0, <1>4 DEF QueryLoop, Holding, LockKept
<1>5. ASSUME NEW t \in Threads, ConnectSucceed(t) PROVE (H(u) => mutex = u)'
  BY <1>0, <1>5 DEF ConnectSucceed, Holding
<1>6. ASSUME NEW t \in Threads, ConnectFail(t) PROVE (H(u) => mutex = u)'
  BY <1>0, <1>6 DEF ConnectFail, Holding
<1>7. ASSUME NEW t \in Threads, ConnectGiveUp(t) PROVE (H(u) => mutex = u)'
  BY <1>0, <1>7 DEF ConnectGiveUp, Holding
<1>8. ASSUME NEW t \in Threads, QueryNoConnection(t)
      PROVE (H(u) => mutex = u)'
  BY <1>0, <1>8 DEF QueryNoConnection, Holding, UnlockResult, LockKept
<1>9. ASSUME NEW t \in Threads, QueryNoResult(t) PROVE (H(u) => mutex = u)'
  BY <1>0, <1>9 DEF QueryNoResult, Holding
<1>10. ASSUME NEW t \in Threads, QueryResult(t) PROVE (H(u) => mutex = u)'
  BY <1>0, <1>10 DEF QueryResult, Holding, LockKept, ErrorKind
<1>11. ASSUME NEW t \in Threads, CallerFinish(t) PROVE (H(u) => mutex = u)'
  <2>1. ret[t] \in LockKept /\ pc[t] = "caller"
    BY <1>11 DEF CallerFinish
  <2>2. mutex = t
    BY <1>0, <2>1 DEF Holding
  <2>3. mutex' = NoOwner /\ pc'[t] = "idle"
    BY <1>11, <2>2 DEF CallerFinish, QueryFinish, UnlockResult
  <2>4. QED
    BY <1>0, <1>11, <2>2, <2>3 DEF CallerFinish, Holding
<1>12. ASSUME NEW t \in Threads, CallerSkipFinish(t)
       PROVE (H(u) => mutex = u)'
  BY <1>0, <1>12 DEF CallerSkipFinish, Holding
<1>13. ASSUME NEW t \in Threads, CallerRequery(t) PROVE (H(u) => mutex = u)'
  BY <1>0, <1>13 DEF CallerRequery, Holding
<1>14. ASSUME NEW t \in Threads, SetKeepTrying(t) PROVE (H(u) => mutex = u)'
  BY <1>0, <1>14 DEF SetKeepTrying, Holding
<1>15. CASE StopRunning
  BY <1>0, <1>15 DEF StopRunning, Holding
<1>16. CASE UNCHANGED vars
  BY <1>0, <1>16 DEF vars, Holding
<1>17. QED
  BY <1>1, <1>2, <1>3, <1>4, <1>5, <1>6, <1>7, <1>8, <1>9, <1>10, <1>11,
     <1>12, <1>13, <1>14, <1>15, <1>16 DEF Next, Thread

(* Mutual exclusion for every caller that does not call db_query_finish  *)
(* after the errors that already released the mutex (FinishPolicy "spec" *)
(* or "requery"): no two threads are ever inside db_query or between its *)
(* return and db_query_finish at once, even when a caller re-enters      *)
(* db_query with its result unfinished (it then blocks for good, see     *)
(* conn_requery_hang).  MC_DbConn_always shows the hypothesis is needed: *)
(* db_create's finish-after-every-query breaks it.                        *)
THEOREM MutualExclusionHolds ==
  ASSUME FinishPolicy # "always"
  PROVE  Spec => []MutualExclusion
<1>1. Init => OInv
  BY TypeCorrectInit, ThreadsAssumption DEF Init, OInv, HolderOwnsLock, Holding
<1>2. OInv /\ [Next]_vars => OInv'
  BY HolderInductive, TypeStep DEF OInv
<1>3. OInv => MutualExclusion
  BY DEF OInv, HolderOwnsLock, MutualExclusion
<1>4. QED
  BY <1>1, <1>2, <1>3, PTL DEF Spec


-----------------------------------------------------------------------------
(* Refinement of the Executor.  The mapping sends a thread that holds the *)
(* connection to "inquery", one blocked in mutex_lock to "waiting", every *)
(* other to "idle"; the lock is db->mutex and the buffer db->q.  A step  *)
(* of thread t changes the image of t only, so each step of DbConn maps   *)
(* to a step of t in DbExecutor or to a stutter.  The proof needs IInv:   *)
(* every release is by the mutex's owner because LockOwnedByHolder holds. *)

(* A step that changes only thread t's pc and ret changes only t's phase. *)
LEMMA PhaseStep ==
  ASSUME NEW t \in Threads, NEW v,
         \A u \in Threads \ {t} : pc'[u] = pc[u] /\ ret'[u] = ret[u],
         ExecPhase'[t] = v
  PROVE  ExecPhase' = [ExecPhase EXCEPT ![t] = v]
BY DEF ExecPhase, Holding

(* A step that changes no thread's phase. *)
LEMMA PhaseSame ==
  ASSUME NEW t \in Threads,
         \A u \in Threads \ {t} : pc'[u] = pc[u] /\ ret'[u] = ret[u],
         ExecPhase'[t] = ExecPhase[t]
  PROVE  ExecPhase' = ExecPhase
<1>1. ExecPhase' = [ExecPhase EXCEPT ![t] = ExecPhase[t]]
  BY PhaseStep
<1>2. QED
  BY <1>1 DEF ExecPhase

(* db_init is the Executor's initial state. *)
LEMMA ExecInit == Init => Exec!Init
BY ThreadsAssumption DEF Init, Exec!Init, ExecPhase, Holding


(* Every step of DbConn, for callers that follow the specification, is a *)
(* step of the Executor or leaves its image unchanged.                    *)
LEMMA ExecStep ==
  ASSUME FinishPolicy = "spec", IInv, [Next]_vars
  PROVE  [Exec!Next]_Exec!vars
<1> USE ThreadsAssumption DEF IInv, TypeInv, TypeOK, PCs, Rets
<1>0. \A v \in Threads : (mutex = v) <=> Holding(v)
  BY DEF LockOwnedByHolder
<1> DEFINE Stutter == UNCHANGED <<ExecPhase, mutex, q>>
<1> HIDE DEF ExecPhase
<1>1. ASSUME NEW t \in Threads, StartQuery(t) PROVE [Exec!Next]_Exec!vars
  <2>1. ExecPhase[t] = "idle" /\ ExecPhase'[t] = "waiting"
    BY <1>1 DEF StartQuery, ExecPhase, Holding
  <2>2. ExecPhase' = [ExecPhase EXCEPT ![t] = "waiting"]
    BY <1>1, <2>1, PhaseStep DEF StartQuery
  <2>3. Exec!Request(t)
    BY <1>1, <2>1, <2>2 DEF StartQuery, Exec!Request
  <2>4. QED
    BY <2>3 DEF Exec!Next
<1>2. ASSUME NEW t \in Threads, QueryLock(t) PROVE [Exec!Next]_Exec!vars
  <2>1. ExecPhase[t] = "waiting" /\ ExecPhase'[t] = "inquery"
    BY <1>2 DEF QueryLock, ExecPhase, Holding
  <2>2. ExecPhase' = [ExecPhase EXCEPT ![t] = "inquery"]
    BY <1>2, <2>1, PhaseStep DEF QueryLock
  <2>3. Exec!Acquire(t)
    BY <1>2, <2>1, <2>2 DEF QueryLock, Exec!Acquire
  <2>4. QED
    BY <2>3 DEF Exec!Next
<1>3. ASSUME NEW t \in Threads, QueryCompile(t) PROVE [Exec!Next]_Exec!vars
  <2>0. mutex = t /\ ExecPhase[t] = "inquery"
    BY <1>0, <1>3 DEF QueryCompile, ExecPhase, Holding
  <2>1. PICK tpl \in Templates :
          IF Compiles(tpl)
          THEN /\ pc' = [pc EXCEPT ![t] = "loop"]
               /\ iter' = [iter EXCEPT ![t] = 0]
               /\ UNCHANGED <<mutex, ret>>
          ELSE /\ mutex' \in UnlockResult(t)
               /\ ret' = [ret EXCEPT ![t] = "compileerr"]
               /\ pc' = [pc EXCEPT ![t] = "caller"]
               /\ UNCHANGED iter
    BY <1>3 DEF QueryCompile
  <2>2. CASE Compiles(tpl)
    <3>1. ExecPhase' = ExecPhase
      BY <1>3, <2>1, <2>2, PhaseSame DEF QueryCompile, ExecPhase, Holding
    <3>2. Exec!UseBuffer(t)
      BY <1>3, <2>0, <2>1, <2>2, <3>1 DEF QueryCompile, Exec!UseBuffer
    <3>3. QED
      BY <3>2 DEF Exec!Next
  <2>3. CASE ~Compiles(tpl)
    <3>1. ExecPhase'[t] = "idle"
      BY <1>3, <2>1, <2>3 DEF QueryCompile, ExecPhase, Holding, LockKept
    <3>2. ExecPhase' = [ExecPhase EXCEPT ![t] = "idle"]
      BY <2>1, <2>3, <3>1, PhaseStep
    <3>3. mutex' = NoOwner
      BY <2>0, <2>1, <2>3 DEF UnlockResult
    <3>4. Exec!Release(t)
      BY <1>3, <2>0, <3>2, <3>3 DEF QueryCompile, Exec!Release
    <3>5. QED
      BY <3>4 DEF Exec!Next
  <2>4. QED
    BY <2>2, <2>3
<1>4. ASSUME NEW t \in Threads, QueryLoop(t) PROVE [Exec!Next]_Exec!vars
  <2>1. ExecPhase' = ExecPhase
    BY <1>4, PhaseSame DEF QueryLoop, ExecPhase, Holding, LockKept
  <2>2. QED
    BY <1>4, <2>1 DEF QueryLoop, Exec!vars
<1>5. ASSUME NEW t \in Threads, ConnectSucceed(t) PROVE [Exec!Next]_Exec!vars
  <2>1. ExecPhase' = ExecPhase
    BY <1>5, PhaseSame DEF ConnectSucceed, ExecPhase, Holding
  <2>2. QED
    BY <1>5, <2>1 DEF ConnectSucceed, Exec!vars
<1>6. ASSUME NEW t \in Threads, ConnectFail(t) PROVE [Exec!Next]_Exec!vars
  <2>1. ExecPhase' = ExecPhase
    BY <1>6, PhaseSame DEF ConnectFail, ExecPhase, Holding
  <2>2. QED
    BY <1>6, <2>1 DEF ConnectFail, Exec!vars
<1>7. ASSUME NEW t \in Threads, ConnectGiveUp(t) PROVE [Exec!Next]_Exec!vars
  <2>1. ExecPhase' = ExecPhase
    BY <1>7, PhaseSame DEF ConnectGiveUp, ExecPhase, Holding
  <2>2. QED
    BY <1>7, <2>1 DEF ConnectGiveUp, Exec!vars
<1>8. ASSUME NEW t \in Threads, QueryNoConnection(t)
      PROVE [Exec!Next]_Exec!vars
  <2>0. mutex = t /\ ExecPhase[t] = "inquery"
    BY <1>0, <1>8 DEF QueryNoConnection, ExecPhase, Holding
  <2>1. ExecPhase'[t] = "idle"
    BY <1>8 DEF QueryNoConnection, ExecPhase, Holding, LockKept
  <2>2. ExecPhase' = [ExecPhase EXCEPT ![t] = "idle"]
    BY <1>8, <2>1, PhaseStep DEF QueryNoConnection
  <2>3. mutex' = NoOwner
    BY <1>8, <2>0 DEF QueryNoConnection, UnlockResult
  <2>4. Exec!Release(t)
    BY <1>8, <2>0, <2>2, <2>3 DEF QueryNoConnection, Exec!Release
  <2>5. QED
    BY <2>4 DEF Exec!Next
<1>9. ASSUME NEW t \in Threads, QueryNoResult(t) PROVE [Exec!Next]_Exec!vars
  <2>1. ExecPhase' = ExecPhase
    BY <1>9, PhaseSame DEF QueryNoResult, ExecPhase, Holding
  <2>2. QED
    BY <1>9, <2>1 DEF QueryNoResult, Exec!vars
<1>10. ASSUME NEW t \in Threads, QueryResult(t) PROVE [Exec!Next]_Exec!vars
  <2>1. ExecPhase' = ExecPhase
    BY <1>10, PhaseSame DEF QueryResult, ExecPhase, Holding, LockKept,
       ErrorKind
  <2>2. QED
    BY <1>10, <2>1 DEF QueryResult, Exec!vars
<1>11. ASSUME NEW t \in Threads, CallerFinish(t) PROVE [Exec!Next]_Exec!vars
  <2>0. mutex = t /\ ExecPhase[t] = "inquery"
    BY <1>0, <1>11 DEF CallerFinish, ExecPhase, Holding
  <2>1. ExecPhase'[t] = "idle"
    BY <1>11 DEF CallerFinish, ExecPhase, Holding
  <2>2. ExecPhase' = [ExecPhase EXCEPT ![t] = "idle"]
    BY <1>11, <2>1, PhaseStep DEF CallerFinish
  <2>3. mutex' = NoOwner /\ q' \in {q, NoOwner}
    BY <1>11, <2>0 DEF CallerFinish, QueryFinish, UnlockResult
  <2>4. Exec!Release(t)
    BY <1>11, <2>0, <2>2, <2>3 DEF Exec!Release
  <2>5. QED
    BY <2>4 DEF Exec!Next
<1>12. ASSUME NEW t \in Threads, CallerSkipFinish(t)
       PROVE [Exec!Next]_Exec!vars
  <2>1. ExecPhase' = ExecPhase
    BY <1>12, PhaseSame DEF CallerSkipFinish, ExecPhase, Holding
  <2>2. QED
    BY <1>12, <2>1 DEF CallerSkipFinish, Exec!vars
<1>13. ASSUME NEW t \in Threads, SetKeepTrying(t) PROVE [Exec!Next]_Exec!vars
  <2>1. ExecPhase' = ExecPhase
    BY <1>13, PhaseSame DEF SetKeepTrying, ExecPhase, Holding
  <2>2. QED
    BY <1>13, <2>1 DEF SetKeepTrying, Exec!vars
<1>14. ASSUME NEW t \in Threads, CallerRequery(t) PROVE [Exec!Next]_Exec!vars
  BY <1>14 DEF CallerRequery
<1>15. CASE StopRunning
  BY <1>15 DEF StopRunning, Exec!vars, ExecPhase, Holding
<1>16. CASE UNCHANGED vars
  BY <1>16 DEF vars, Exec!vars, ExecPhase, Holding
<1>17. QED
  BY <1>1, <1>2, <1>3, <1>4, <1>5, <1>6, <1>7, <1>8, <1>9, <1>10, <1>11,
     <1>12, <1>13, <1>14, <1>15, <1>16 DEF Next, Thread

(* Sections 4.3 and 5: for callers that follow the specification, the   *)
(* connection of db_psql.c behaves as the specification's Executor, for  *)
(* any number of threads: db_query takes db->mutex only when it is free, *)
(* only the thread holding it writes db->q, and the mutex is released,   *)
(* by its owner, exactly when that thread's query ends.                   *)
THEOREM ExecutorRefinedHolds ==
  ASSUME FinishPolicy = "spec"
  PROVE  Spec => ExecutorRefined
<1>1. IInv /\ [Next]_vars => [Exec!Next]_Exec!vars
  BY ExecStep
<1>2. QED
  BY <1>1, ExecInit, IInvInit, IInvStep, PTL DEF Spec, ExecutorRefined, Exec!Spec

=============================================================================
