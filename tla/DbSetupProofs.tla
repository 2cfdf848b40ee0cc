---------------------------- MODULE DbSetupProofs ----------------------------
(***************************************************************************)
(* Proofs about db_setup (DbSetup) for every set of server versions and   *)
(* whether or not the environment fails.                                  *)
(***************************************************************************)
EXTENDS DbSetup, TLAPS

(* The servers db_setupA's path arithmetic was written for: before        *)
(* version 10 and with a minor number below 10 (every 8.x and 9.x).       *)
OldServers == \A v \in Versions : v < 100000 /\ v % 10000 < 1000

(* For such a server, the directory db_setupA builds from libver is the   *)
(* one the server's pg_hba.conf is in.                                    *)
LEMMA DirOfOldServer ==
    ASSUME NEW v \in Nat, v < 100000, v % 10000 < 1000
    PROVE  DirOf(v) = ServerDir(v)
<1>1. v % 1000 = v % 10000
  OBVIOUS
<1>2. QED
  BY <1>1 DEF DirOf, ServerDir

Before(p) == pc \in p

(* TypeOK in two parts: the provers' SMT encoding cannot prove that a    *)
(* variable assigned FALSE is in BOOLEAN next to an interval membership,  *)
(* so the flags are proved apart from the rest.                           *)
TypeFlags ==
    /\ held \in BOOLEAN /\ conn \in BOOLEAN /\ role \in BOOLEAN
    /\ database \in BOOLEAN /\ already \in BOOLEAN /\ restarted \in BOOLEAN
    /\ failed \in BOOLEAN /\ ioerr \in BOOLEAN /\ ret \in BOOLEAN

TypeData ==
    /\ pc \in {"setupA", "version", "query", "disconnect", "fold", "fnew",
               "copy", "replace", "return", "done"}
    /\ mutex \in {"init", "destroyed"} /\ conninfo \in {"user", "postgres", "none"}
    /\ destroys \in 0..2 /\ libver \in Versions \cup {0} /\ stmt \in 1..5
    /\ hba \in 0..2 /\ copy \in -1..3 /\ open \subseteq {"fo", "fn"}

(* What db_setup holds at each step, whatever the server: the lock only  *)
(* between db_tryconnect and reading the version; the statements in      *)
(* order; the mutex destroyed only from the disconnect on; pg_hba.conf    *)
(* with our line at most once until the rename; the copy, closed, with at *)
(* most one more, and exactly one more when no ignored file call failed.  *)
StepFacts ==
    /\ held <=> pc = "version"
    /\ Before({"setupA", "version"}) => stmt = 1
    /\ pc = "query" => stmt \in 1..4
    /\ pc = "done" => ~conn /\ conninfo = "none"
    /\ Before({"setupA", "version", "query", "disconnect"}) => destroys = 0
    /\ Before({"fold", "fnew", "copy", "replace", "return"}) => destroys <= 1
    /\ Before({"setupA", "version", "query", "disconnect", "fold", "fnew",
               "copy", "replace"}) => hba \in {0, 1}
    /\ Before({"setupA", "version", "query", "disconnect", "fold", "fnew",
               "copy"}) => ~ioerr
    /\ pc = "copy" => copy = 0
    /\ pc = "replace" => copy \in 0..hba + 1 /\ open = {}
    /\ pc = "replace" /\ ~ioerr => copy = hba + 1 /\ (already <=> hba > 0)
    /\ restarted => pc \in {"return", "done"}

ReleaseInv == TypeOK /\ StepFacts

(* What db_setup has achieved at each step: a result other than "no      *)
(* failure" is decided only on return; the role and the database exist  *)
(* once the four statements ran; the restart waits for the replacement.  *)
ResultInv ==
    /\ Before({"setupA", "version", "query", "disconnect", "fold", "fnew",
               "copy", "replace"}) => ~failed /\ ~ret /\ ~restarted
    /\ Before({"query", "disconnect", "fold"}) => libver \in Versions
    /\ pc = "query" /\ stmt = 4 => role
    /\ Before({"disconnect", "fold", "fnew", "copy", "replace"}) => role /\ database
    /\ Before({"return", "done"}) =>
         /\ ret <=> ~failed
         /\ ret => role /\ database
         /\ ret /\ ~ioerr => /\ hba = 1 /\ copy = -1
                             /\ restarted <=> ~already

IInv == ReleaseInv /\ ResultInv

(* db_setup's initial state satisfies both.                               *)
LEMMA IInvInit == Init => IInv
<1> SUFFICES ASSUME Init PROVE IInv
  OBVIOUS
<1>1. TypeOK
  <2>1. /\ held \in BOOLEAN /\ conn \in BOOLEAN /\ role \in BOOLEAN
        /\ database \in BOOLEAN /\ already \in BOOLEAN
        /\ restarted \in BOOLEAN /\ failed \in BOOLEAN /\ ret \in BOOLEAN
        /\ ioerr \in BOOLEAN
    BY Zenon DEF Init
  <2>2. /\ destroys \in 0..2 /\ libver \in Versions \cup {0} /\ stmt \in 1..5
        /\ hba \in 0..2 /\ copy \in -1..3
    BY DEF Init
  <2>3. QED
    BY <2>1, <2>2 DEF Init, TypeOK
<1>2. ReleaseInv
  BY <1>1 DEF Init, ReleaseInv, StepFacts, Before
<1>3. ResultInv
  BY DEF Init, ResultInv, Before
<1>4. QED
  BY <1>2, <1>3 DEF IInv

(* TypeOK in two parts: the provers' SMT encoding cannot prove that a    *)
(* variable assigned FALSE is in BOOLEAN next to an interval membership,  *)
(* so the flags are proved apart (by Zenon) from the rest.                *)
(* Every step keeps the flags Boolean.                                    *)
LEMMA FlagsStep == TypeFlags /\ TypeData /\ StepFacts /\ [Next]_vars => TypeFlags'
<1> SUFFICES ASSUME TypeFlags, TypeData, StepFacts, [Next]_vars PROVE TypeFlags'
  OBVIOUS
<1> USE DEF TypeFlags, TypeData, StepFacts, Before, Fail
<1>1. CASE ConnectOk
  BY <1>1 DEF ConnectOk
<1>2. CASE ConnectFail
  BY <1>2 DEF ConnectFail
<1>3. CASE Version
  BY <1>3 DEF Version
<1>4. CASE QueryOk
  <2>1. stmt \in 1..4
    BY <1>4 DEF QueryOk
  <2>2. Statements[stmt].exists = TRUE \/ Statements[stmt].exists = FALSE
    BY <2>1 DEF Statements
  <2>3. role' \in BOOLEAN /\ database' \in BOOLEAN
    BY <1>4, <2>2, Zenon DEF QueryOk
  <2>4. QED
    BY <1>4, <2>3 DEF QueryOk
<1>5. CASE QueryFail
  BY <1>5 DEF QueryFail
<1>6. CASE Disconnect
  BY <1>6 DEF Disconnect, Cleanup
<1>7. CASE OpenOldOk
  BY <1>7 DEF OpenOldOk
<1>8. CASE OpenOldFail
  BY <1>8 DEF OpenOldFail
<1>9. CASE OpenOldMissing
  BY <1>9 DEF OpenOldMissing
<1>10. CASE OpenNewOk
  BY <1>10 DEF OpenNewOk
<1>11. CASE OpenNewFail
  BY <1>11 DEF OpenNewFail
<1>12. CASE CopyHba
  <2>1. /\ held' = held /\ conn' = conn /\ role' = role
        /\ database' = database /\ restarted' = restarted
        /\ failed' = failed /\ ret' = ret
    BY <1>12 DEF CopyHba
  <2>2. already' \in BOOLEAN /\ ioerr' \in BOOLEAN
    <3>1. CASE copy' = hba + 1 /\ already' = (hba > 0) /\ UNCHANGED ioerr
      BY <3>1
    <3>2. CASE CopyLost
      BY <3>2, Zenon DEF CopyLost
    <3>3. QED
      BY <1>12, <3>1, <3>2 DEF CopyHba
  <2>3. QED
    BY <2>1, <2>2, Zenon
<1>13. CASE ReplaceHba
  <2>1. /\ held' = held /\ conn' = conn /\ role' = role
        /\ database' = database /\ already' = already
        /\ failed' = failed /\ ret' = TRUE
    BY <1>13 DEF ReplaceHba
  <2>2. restarted' \in BOOLEAN /\ ioerr' \in BOOLEAN
    <3>1. CASE already
      BY <1>13, <3>1 DEF ReplaceHba
    <3>2. CASE ~already
      <4>1. PICK renamed, restart \in Outcomes :
              /\ restarted' = restart
              /\ ioerr' = (ioerr \/ ~renamed \/ ~restart)
        BY <1>13, <3>2 DEF ReplaceHba
      <4>2. restart \in BOOLEAN
        BY DEF Outcomes
      <4>3. QED
        BY <4>1, <4>2
    <3>3. QED
      BY <3>1, <3>2
  <2>3. QED
    BY <2>1, <2>2, Zenon
<1>14. CASE SetupReturn
  BY <1>14 DEF SetupReturn, Cleanup
<1>15. CASE UNCHANGED vars
  BY <1>15 DEF vars
<1>16. QED
  BY <1>1, <1>2, <1>3, <1>4, <1>5, <1>6, <1>7, <1>8, <1>9, <1>10, <1>11, <1>12, <1>13, <1>14, <1>15
     DEF Next

(* The copy of pg_hba.conf has at most one more of our lines than the   *)
(* file, and exactly one more when no write, read or fclose failed.       *)
LEMMA CopyHbaStep ==
    TypeData /\ StepFacts /\ CopyHba => TypeData' /\ StepFacts'
<1> SUFFICES ASSUME TypeData, StepFacts, CopyHba PROVE TypeData' /\ StepFacts'
  OBVIOUS
<1>1. /\ pc = "copy" /\ pc' = "replace" /\ hba' = hba /\ hba \in {0, 1}
      /\ ~ioerr /\ open' = {}
  BY DEF StepFacts, CopyHba, Before
<1>2. copy' \in 0..hba' + 1
  <2>1. CASE copy' = hba + 1 /\ already' = (hba > 0) /\ UNCHANGED ioerr
    BY <1>1, <2>1
  <2>2. CASE CopyLost
    BY <1>1, <2>2 DEF CopyLost
  <2>3. QED
    BY <2>1, <2>2 DEF CopyHba
<1>3. ~ioerr' => copy' = hba' + 1 /\ (already' <=> hba' > 0)
  <2>1. CASE copy' = hba + 1 /\ already' = (hba > 0) /\ UNCHANGED ioerr
    BY <1>1, <2>1
  <2>2. CASE CopyLost
    BY <2>2 DEF CopyLost
  <2>3. QED
    BY <2>1, <2>2 DEF CopyHba
<1>4. TypeData'
  BY <1>1, <1>2 DEF TypeData, CopyHba
<1>5. /\ held' <=> pc' = "version"
      /\ destroys' = destroys /\ destroys <= 1
  BY <1>1 DEF StepFacts, CopyHba, Before
<1>6. ~restarted'
  <2>1. ~restarted
    BY <1>1, Zenon DEF StepFacts
  <2>2. QED
    BY <2>1, Zenon DEF CopyHba
<1>7. QED
  BY <1>1, <1>2, <1>3, <1>4, <1>5, <1>6 DEF StepFacts, Before

(* Replacing pg_hba.conf, with or without a failed unlink, rename or      *)
(* system(), ends db_setupA.                                              *)
LEMMA ReplaceHbaStep ==
    TypeData /\ StepFacts /\ ReplaceHba => TypeData' /\ StepFacts'
<1> SUFFICES ASSUME TypeData, StepFacts, ReplaceHba PROVE TypeData' /\ StepFacts'
  OBVIOUS
<1>1. /\ pc = "replace" /\ pc' = "return" /\ hba \in {0, 1}
      /\ copy \in 0..hba + 1
  BY DEF StepFacts, ReplaceHba, Before
<1>2. hba' \in 0..2 /\ copy' \in -1..3
  <2>1. CASE already
    BY <1>1, <2>1 DEF ReplaceHba
  <2>2. CASE ~already
    <3>1. PICK renamed, restart \in Outcomes :
            /\ hba' = IF renamed THEN copy ELSE hba
            /\ copy' = IF renamed THEN -1 ELSE copy
      BY <2>2 DEF ReplaceHba
    <3>2. QED
      BY <1>1, <3>1
  <2>3. QED
    BY <2>1, <2>2
<1>3. QED
  BY <1>1, <1>2 DEF TypeData, StepFacts, ReplaceHba, Before

(* Every step keeps the lock, connection and mutex facts, whatever the    *)
(* server version.                                                        *)
LEMMA ReleaseStep == ReleaseInv /\ [Next]_vars => ReleaseInv'
<1> SUFFICES ASSUME TypeFlags, TypeData, StepFacts, [Next]_vars
             PROVE  TypeFlags' /\ TypeData' /\ StepFacts'
  BY Zenon DEF ReleaseInv, TypeOK, TypeFlags, TypeData
<1>1. TypeFlags'
  BY FlagsStep
<1>2. TypeData' /\ StepFacts'
  <2> USE VersionsAssumption DEF TypeData, StepFacts, Before, Fail
  <2>1. CASE ConnectOk
    BY <2>1 DEF ConnectOk
  <2>2. CASE ConnectFail
    BY <2>2 DEF ConnectFail
  <2>3. CASE Version
    BY <2>3 DEF Version
  <2>4. CASE QueryOk
    BY <2>4 DEF QueryOk, Statements
  <2>5. CASE QueryFail
    BY <2>5 DEF QueryFail
  <2>6. CASE Disconnect
    BY <2>6 DEF Disconnect, Cleanup
  <2>7. CASE OpenOldOk
    BY <2>7 DEF OpenOldOk
  <2>8. CASE OpenOldFail
    BY <2>8 DEF OpenOldFail
  <2>9. CASE OpenOldMissing
    BY <2>9 DEF OpenOldMissing
  <2>10. CASE OpenNewOk
    BY <2>10 DEF OpenNewOk
  <2>11. CASE OpenNewFail
    BY <2>11 DEF OpenNewFail
  <2>12. CASE CopyHba
    BY <2>12, CopyHbaStep
  <2>13. CASE ReplaceHba
    BY <2>13, ReplaceHbaStep
  <2>14. CASE SetupReturn
    BY <2>14 DEF SetupReturn, Cleanup
  <2>15. CASE UNCHANGED vars
    BY <2>15 DEF vars
  <2>16. QED
    BY <2>1, <2>2, <2>3, <2>4, <2>5, <2>6, <2>7, <2>8, <2>9, <2>10, <2>11, <2>12, <2>13, <2>14, <2>15
       DEF Next
<1>3. QED
  BY <1>1, <1>2

(* Against an old server every step keeps the result facts: the one step *)
(* that could return false without a failure, fopen of a pg_hba.conf in  *)
(* the wrong directory, cannot happen (DirOfOldServer).                   *)
LEMMA ResultStep ==
    ASSUME OldServers
    PROVE  IInv /\ [Next]_vars => ResultInv'
<1> SUFFICES ASSUME IInv, [Next]_vars PROVE ResultInv'
  OBVIOUS
<1> USE VersionsAssumption DEF IInv, ReleaseInv, StepFacts, ResultInv, TypeOK,
                                Before, Fail
<1>1. CASE ConnectOk \/ ConnectFail
  BY <1>1 DEF ConnectOk, ConnectFail
<1>2. CASE Version
  BY <1>2 DEF Version
<1>3. CASE QueryOk
  BY <1>3 DEF QueryOk, Statements
<1>4. CASE QueryFail
  BY <1>4 DEF QueryFail
<1>5. CASE Disconnect \/ SetupReturn
  BY <1>5 DEF Disconnect, SetupReturn, Cleanup
<1>6. CASE OpenOldMissing
  <2>1. libver \in Nat /\ libver < 100000 /\ libver % 10000 < 1000
    BY <1>6 DEF OldServers, OpenOldMissing
  <2>2. QED
    BY <1>6, <2>1, DirOfOldServer DEF OpenOldMissing
<1>7. CASE OpenOldOk \/ OpenOldFail \/ OpenNewOk \/ OpenNewFail
  BY <1>7 DEF OpenOldOk, OpenOldFail, OpenNewOk, OpenNewFail
<1>8. CASE CopyHba
  BY <1>8 DEF CopyHba
<1>9. CASE ReplaceHba
  <2>1. /\ pc = "replace" /\ pc' = "return" /\ ret' /\ ~failed'
        /\ role' /\ database' /\ already' = already
    BY <1>9 DEF ReplaceHba
  <2>2. ASSUME ~ioerr'
        PROVE  hba' = 1 /\ copy' = -1 /\ (restarted' <=> ~already')
    <3>1. /\ copy \in 0..hba + 1 /\ hba \in {0, 1} /\ ~restarted
          /\ ~ioerr => copy = hba + 1 /\ (already <=> hba > 0)
      BY <2>1
    <3>2. CASE already
      <4>1. PICK unlinked \in Outcomes :
              /\ copy' = IF unlinked THEN -1 ELSE copy
              /\ ioerr' = (ioerr \/ ~unlinked)
              /\ hba' = hba /\ restarted' = restarted
        BY <1>9, <3>2 DEF ReplaceHba
      <4>2. ~ioerr /\ unlinked
        BY <2>2, <4>1
      <4>3. QED
        BY <2>1, <3>1, <3>2, <4>1, <4>2
    <3>3. CASE ~already
      <4>1. PICK renamed, restart \in Outcomes :
              /\ hba' = IF renamed THEN copy ELSE hba
              /\ copy' = IF renamed THEN -1 ELSE copy
              /\ restarted' = restart
              /\ ioerr' = (ioerr \/ ~renamed \/ ~restart)
        BY <1>9, <3>3 DEF ReplaceHba
      <4>2. ~ioerr /\ renamed /\ restart
        BY <2>2, <4>1
      <4>3. QED
        BY <2>1, <3>1, <3>3, <4>1, <4>2
    <3>4. QED
      BY <3>2, <3>3
  <2>3. QED
    BY <2>1, <2>2
<1>10. CASE UNCHANGED vars
  BY <1>10 DEF vars
<1>11. QED
  BY <1>1, <1>2, <1>3, <1>4, <1>5, <1>6, <1>7, <1>8, <1>9, <1>10 DEF Next

(* db_setup, against any server, returns with the mutex unlocked, the     *)
(* connection closed and conninfo freed (ReleasedAtReturn, checked by the *)
(* setup_release run).                                                    *)
THEOREM ReleasedAtReturnHolds == Spec => []ReleasedAtReturn
<1>1. Init => ReleaseInv
  BY IInvInit DEF IInv
<1>2. ReleaseInv => ReleasedAtReturn
  BY DEF ReleaseInv, StepFacts, ReleasedAtReturn
<1>3. QED
  BY <1>1, <1>2, ReleaseStep, PTL DEF Spec

(* db_setup against a server of the kind it was written for returns true *)
(* exactly when no step it checks (the server steps and the two fopen     *)
(* calls) failed, and then has created the role and the database; when   *)
(* moreover none of the file calls whose results it ignores failed, it   *)
(* has left pg_hba.conf with our line once and restarted the service     *)
(* exactly when the file changed (SetupResult, checked by the            *)
(* setup_result run).                                                     *)
THEOREM SetupResultHolds ==
    ASSUME OldServers
    PROVE  Spec => []SetupResult
<1>1. IInv /\ [Next]_vars => IInv'
  BY ReleaseStep, ResultStep DEF IInv
<1>2. IInv => SetupResult
  BY DEF IInv, ResultInv, SetupResult, Before
<1>3. QED
  BY <1>1, <1>2, IInvInit, PTL DEF Spec

(* Every step of db_setup, from a state of ReleaseInv, is one that        *)
(* HbaReplacedOnce allows: only ReplaceHba touches pg_hba.conf or the     *)
(* restart, it finds the copy closed, and it renames only when the old    *)
(* file was not seen to hold our line; when none of its calls and none of *)
(* the copy's writes failed, the copy has our line once more than a file  *)
(* that lacked it, and the restart, not yet requested, follows.           *)
LEMMA HbaStep ==
    ASSUME ReleaseInv, [Next]_vars
    PROVE  /\ hba' # hba => open = {} /\ ~already
           /\ ~ioerr' => /\ restarted' # restarted <=> hba' # hba
                         /\ hba' # hba => hba = 0 /\ hba' = 1
<1>1. CASE ReplaceHba
  <2>1. /\ copy \in 0..hba + 1 /\ hba \in {0, 1} /\ open = {} /\ ~restarted
        /\ ~ioerr => copy = hba + 1 /\ (already <=> hba > 0)
    BY <1>1 DEF ReleaseInv, StepFacts, ReplaceHba, Before
  <2>2. CASE already
    <3>1. hba' = hba /\ restarted' = restarted
      BY <1>1, <2>2 DEF ReplaceHba
    <3>2. QED
      BY <3>1
  <2>3. CASE ~already
    <3>1. PICK renamed, restart \in Outcomes :
            /\ hba' = IF renamed THEN copy ELSE hba
            /\ restarted' = restart
            /\ ioerr' = (ioerr \/ ~renamed \/ ~restart)
      BY <1>1, <2>3 DEF ReplaceHba
    <3>2. hba' # hba => open = {} /\ ~already
      BY <2>1, <2>3
    <3>3. ASSUME ~ioerr'
          PROVE  /\ restarted' # restarted <=> hba' # hba
                 /\ hba' # hba => hba = 0 /\ hba' = 1
      <4>1. ~ioerr /\ renamed /\ restart
        BY <3>1, <3>3
      <4>2. hba = 0 /\ hba' = 1
        BY <2>1, <2>3, <3>1, <4>1
      <4>3. restarted' # restarted
        BY <2>1, <3>1, <4>1
      <4>4. QED
        BY <4>2, <4>3
    <3>4. QED
      BY <3>2, <3>3
  <2>4. QED
    BY <2>2, <2>3
<1>2. CASE ~ReplaceHba
  <2>1. hba' = hba /\ restarted' = restarted
    BY <1>2 DEF Next, vars, ConnectOk, ConnectFail, Version, QueryOk, QueryFail,
       Fail, Disconnect, Cleanup, OpenOldOk, OpenOldFail, OpenOldMissing,
       OpenNewOk, OpenNewFail, CopyHba, SetupReturn
  <2>2. QED
    BY <2>1
<1>3. QED
  BY <1>1, <1>2

(* db_setup, against any server and whether or not the environment       *)
(* fails, changes pg_hba.conf only by renaming over it a closed copy,    *)
(* never when the old file was seen to hold our line; in a step where no *)
(* ignored file call failed, that change adds our line to a file without *)
(* it and the service restart comes in that step and no other            *)
(* (HbaReplacedOnce, checked by the setup_result run).                   *)
THEOREM HbaReplacedOnceHolds == Spec => HbaReplacedOnce
<1>1. Init => ReleaseInv
  BY IInvInit DEF IInv
<1>2. ReleaseInv /\ [Next]_vars =>
        [/\ hba' # hba => open = {} /\ ~already
         /\ ~ioerr' => /\ restarted' # restarted <=> hba' # hba
                       /\ hba' # hba => hba = 0 /\ hba' = 1]_vars
  BY HbaStep
<1>3. QED
  BY <1>1, <1>2, ReleaseStep, PTL DEF Spec, HbaReplacedOnce

====
