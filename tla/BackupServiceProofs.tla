------------------------ MODULE BackupServiceProofs ------------------------
(***************************************************************************)
(* Proofs about BackupService, for every number of backups, callers,       *)
(* schedules, slots, crashes and database errors.                          *)
(***************************************************************************)
EXTENDS BackupService, FiniteSetTheorems, TLAPS

-----------------------------------------------------------------------------
(* Types of the rows the operations write. *)

LEMMA NewRowType ==
    \A s \in Schedules \cup {NoSchedule}, k \in {"full", "incremental"}, p \in BOOLEAN :
        NewRow(s, k, p) \in Row
BY DEF NewRow, Row, Status, Path, Sum

LEMMA NoCopyType == NoCopy \in Row
BY NewRowType DEF NoCopy

LEMMA CompletedType ==
    ASSUME StoreTypes, NEW b \in Backups PROVE Completed(b) \in Row
<1>1. row[b] \in Row
  BY DEF StoreTypes
<1> QED BY <1>1 DEF Completed, Row, Status, Path, Sum

LEMMA FailedType ==
    ASSUME StoreTypes, NEW b \in Backups PROVE Failed(b) \in Row
<1>1. row[b] \in Row
  BY DEF StoreTypes
<1> QED BY <1>1 DEF Failed, Row, Status, Path, Sum

LEMMA MarkedType ==
    ASSUME CallerTypes, NEW c \in Callers
    PROVE  Marked(c) \in Row /\ Passed(c) \in Row /\ Rejected(c) \in Row
<1>1. seen[c] \in Row
  BY DEF CallerTypes
<1> QED BY <1>1 DEF Marked, Passed, Rejected, Row, Status, Sum

\* What an UPDATE leaves behind: all of the caller's copy but schedule and type.
LEMMA WrittenRow ==
    ASSUME StoreTypes, NEW b \in Backups, NEW r \in Row
    PROVE  /\ Written(b, r) \in Row
           /\ Written(b, r).sched = row[b].sched /\ Written(b, r).kind = row[b].kind
           /\ Written(b, r).status = r.status /\ Written(b, r).verify = r.verify
           /\ Written(b, r).path = r.path
<1>1. row[b] \in Row
  BY DEF StoreTypes
<1> QED BY <1>1 DEF Written, Row

LEMMA ReturnType ==
    ASSUME NEW c \in Callers, CallerTypes, Return(c) PROVE CallerTypes'
BY NoCopyType DEF CallerTypes, Return, CallerPc, Role, Plan, NoPlan

LEMMA ReadType ==
    ASSUME NEW c \in Callers, NEW b \in Backups, NEW next \in CallerPc,
           CallerTypes, StoreTypes, Read(c, b, next)
    PROVE  CallerTypes'
BY DEF CallerTypes, StoreTypes, Read

LEMMA BackupsFinite ==
    ASSUME NEW S \in SUBSET Backups PROVE IsFiniteSet(S) /\ Cardinality(S) \in Nat
<1>1. IsFiniteSet(Backups)
  BY FS_Interval, BoundsAssumption DEF Backups
<1> QED BY <1>1, FS_Subset, FS_CardinalityType

\* A worker about to release its slot holds one.
LEMMA HeldSlot ==
    ASSUME WorkerTypes, SlotAccounting, NEW b \in Backups, work[b] \in Holding
    PROVE  sem >= 1
<1> DEFINE H == {x \in Backups : work[x] \in Holding}
<1>1. IsFiniteSet(H) /\ H # {} /\ Cardinality(H) \in Nat
  BY BackupsFinite
<1>2. Cardinality(H) # 0
  BY <1>1, FS_EmptySet
<1> QED BY <1>1, <1>2 DEF SlotAccounting

-----------------------------------------------------------------------------
(* Each action preserves the types. *)

LEMMA TypeStep == IInv /\ [Next]_vars => TypeOK'
<1> SUFFICES ASSUME IInv, [Next]_vars PROVE TypeOK'
  OBVIOUS
<1> USE BoundsAssumption, RetentionAssumption, DomainAssumption
<1>a. StoreTypes /\ WorkerTypes /\ CallerTypes /\ CallerInv /\ SlotAccounting
  BY DEF IInv, TypeOK
<1>1. ASSUME NEW s \in ManualSchedules, NEW k \in Kinds, NEW p \in Providers, StartBackup(s, k, p) PROVE TypeOK'
  <2>1. StoreTypes' BY <1>1, <1>a, NewRowType DEF StoreTypes, rowsVars, Backups, StartBackup, CreateBackup
  <2>2. WorkerTypes' BY <1>1, <1>a DEF WorkerTypes, workerVars, StartBackup, CreateBackup, Work
  <2>3. CallerTypes' BY <1>1, <1>a DEF CallerTypes, callerVars, StartBackup
  <2> QED BY <2>1, <2>2, <2>3 DEF TypeOK
<1>2. ASSUME NEW b \in Backups, AcquireSlot(b) PROVE TypeOK'
  <2>1. StoreTypes' BY <1>2, <1>a DEF StoreTypes, rowsVars, Backups, AcquireSlot
  <2>2. WorkerTypes' BY <1>2, <1>a DEF WorkerTypes, workerVars, AcquireSlot, Work
  <2>3. CallerTypes' BY <1>2, <1>a DEF CallerTypes, callerVars, AcquireSlot
  <2> QED BY <2>1, <2>2, <2>3 DEF TypeOK
<1>3. ASSUME NEW b \in Backups, Upload(b) PROVE TypeOK'
  <2>1. StoreTypes' BY <1>3, <1>a DEF StoreTypes, rowsVars, Backups, Upload
  <2>2. WorkerTypes' BY <1>3, <1>a DEF WorkerTypes, workerVars, Upload, Work
  <2>3. CallerTypes' BY <1>3, <1>a DEF CallerTypes, callerVars, Upload
  <2> QED BY <2>1, <2>2, <2>3 DEF TypeOK
<1>4. ASSUME NEW b \in Backups, FailEarly(b) PROVE TypeOK'
  <2>1. StoreTypes' BY <1>4, <1>a DEF StoreTypes, rowsVars, Backups, FailEarly
  <2>2. WorkerTypes' BY <1>4, <1>a DEF WorkerTypes, workerVars, FailEarly, Work
  <2>3. CallerTypes' BY <1>4, <1>a DEF CallerTypes, callerVars, FailEarly
  <2> QED BY <2>1, <2>2, <2>3 DEF TypeOK
<1>5. ASSUME NEW b \in Backups, FailLate(b) PROVE TypeOK'
  <2>1. StoreTypes' BY <1>5, <1>a DEF StoreTypes, rowsVars, Backups, FailLate
  <2>2. WorkerTypes' BY <1>5, <1>a DEF WorkerTypes, workerVars, FailLate, Work
  <2>3. CallerTypes' BY <1>5, <1>a DEF CallerTypes, callerVars, FailLate
  <2> QED BY <2>1, <2>2, <2>3 DEF TypeOK
<1>6. ASSUME NEW b \in Backups, completeBackup(b) PROVE TypeOK'
  <2>1. StoreTypes' BY <1>6, <1>a, CompletedType, WrittenRow DEF StoreTypes, rowsVars, Backups, completeBackup, UpdateOk, UpdateErr
  <2>2. WorkerTypes' BY <1>6, <1>a DEF WorkerTypes, workerVars, completeBackup, Work
  <2>3. CallerTypes' BY <1>6, <1>a DEF CallerTypes, callerVars, completeBackup
  <2> QED BY <2>1, <2>2, <2>3 DEF TypeOK
<1>7. ASSUME NEW b \in Backups, failBackup(b) PROVE TypeOK'
  <2>1. StoreTypes' BY <1>7, <1>a, FailedType, WrittenRow DEF StoreTypes, rowsVars, Backups, failBackup, UpdateOk, UpdateErr
  <2>2. WorkerTypes' BY <1>7, <1>a DEF WorkerTypes, workerVars, failBackup, Work
  <2>3. CallerTypes' BY <1>7, <1>a DEF CallerTypes, callerVars, failBackup
  <2> QED BY <2>1, <2>2, <2>3 DEF TypeOK
<1>8. ASSUME NEW b \in Backups, NotifyAndRelease(b) PROVE TypeOK'
  <2>1. StoreTypes' BY <1>8, <1>a DEF StoreTypes, rowsVars, Backups, NotifyAndRelease
  <2>2. WorkerTypes' BY <1>8, <1>a, HeldSlot DEF WorkerTypes, workerVars, Holding, NotifyAndRelease, Work
  <2>3. CallerTypes' BY <1>8, <1>a DEF CallerTypes, callerVars, NotifyAndRelease
  <2> QED BY <2>1, <2>2, <2>3 DEF TypeOK
<1>9. ASSUME NEW c \in Callers, NEW b \in Backups, UserDelete(c, b) PROVE TypeOK'
  <2>1. StoreTypes' BY <1>9, <1>a DEF StoreTypes, rowsVars, Backups, UserDelete
  <2>2. WorkerTypes' BY <1>9, <1>a DEF WorkerTypes, workerVars, UserDelete
  <2>3. CallerTypes' BY <1>9, <1>a, ReadType DEF CallerTypes, callerVars, UserDelete, CallerPc
  <2> QED BY <2>1, <2>2, <2>3 DEF TypeOK
<1>10. ASSUME NEW c \in Callers, Purge(c) PROVE TypeOK'
  <2>1. StoreTypes' BY <1>10, <1>a DEF StoreTypes, rowsVars, Backups, Purge
  <2>2. WorkerTypes' BY <1>10, <1>a DEF WorkerTypes, workerVars, Purge
  <2>3. CallerTypes' BY <1>10, <1>a DEF CallerTypes, callerVars, Purge, Goto, CallerPc
  <2> QED BY <2>1, <2>2, <2>3 DEF TypeOK
<1>11. ASSUME NEW c \in Callers, Drop(c) PROVE TypeOK'
  <2>1a. cur[c] \in 1 .. last BY <1>11, <1>a DEF Drop, CallerInv, CallerOk
  <2>1. StoreTypes' BY <1>11, <1>a, <2>1a DEF StoreTypes, rowsVars, Backups, Drop
  <2>2. WorkerTypes' BY <1>11, <1>a DEF WorkerTypes, workerVars, Drop
  <2>3. CallerTypes' BY <1>11, <1>a, ReturnType, NoCopyType DEF CallerTypes, callerVars, Drop, Deleted, CallerPc
  <2> QED BY <2>1, <2>2, <2>3 DEF TypeOK
<1>12. ASSUME NEW c \in Callers, NEW s \in Schedules, ExecuteBackup(c, s) PROVE TypeOK'
  <2>1a. ASSUME \E k \in Kinds, p \in Providers : CreateBackup(s, k, p) PROVE StoreTypes'
    <3>1. PICK k \in Kinds, p \in Providers : CreateBackup(s, k, p) BY <2>1a
    <3>2. NewRow(s, k, p) \in Row BY NewRowType
    <3> QED BY <1>12, <1>a, <3>1, <3>2 DEF StoreTypes, Backups, ExecuteBackup, CreateBackup
  <2>1b. ASSUME UNCHANGED <<last, table, row, work>> PROVE StoreTypes'
    BY <1>12, <1>a, <2>1b DEF StoreTypes, ExecuteBackup
  <2>1. StoreTypes' BY <1>12, <2>1a, <2>1b DEF ExecuteBackup
  <2>2. WorkerTypes' BY <1>12, <1>a DEF WorkerTypes, workerVars, ExecuteBackup, CreateBackup, Work
  <2>3. CallerTypes' BY <1>12, <1>a DEF CallerTypes, callerVars, ExecuteBackup, CallerPc, Role, Plan
  <2> QED BY <2>1, <2>2, <2>3 DEF TypeOK
<1>13. ASSUME NEW c \in Callers, ListOld(c) PROVE TypeOK'
  <2>1. StoreTypes' BY <1>13, <1>a DEF StoreTypes, rowsVars, Backups, ListOld
  <2>2. WorkerTypes' BY <1>13, <1>a DEF WorkerTypes, workerVars, ListOld
  <2>3a. ListOldestByBackupType(plan[c].sched, role[c], plan[c][role[c]]) \subseteq Backups
    <3>1. table \subseteq Backups BY <1>a DEF StoreTypes, Backups
    <3> QED BY <3>1 DEF ListOldestByBackupType, Successes
  <2>3. CallerTypes' BY <1>13, <1>a, <2>3a DEF CallerTypes, callerVars, ListOld, CallerPc
  <2> QED BY <2>1, <2>2, <2>3 DEF TypeOK
<1>14. ASSUME NEW c \in Callers, Sweep(c) PROVE TypeOK'
  <2>1. StoreTypes' BY <1>14, <1>a DEF StoreTypes, rowsVars, Backups, Sweep
  <2>2. WorkerTypes' BY <1>14, <1>a DEF WorkerTypes, workerVars, Sweep
  <2>3. CallerTypes' BY <1>14, <1>a, ReadType DEF CallerTypes, callerVars, Sweep, CallerPc
  <2> QED BY <2>1, <2>2, <2>3 DEF TypeOK
<1>15. ASSUME NEW c \in Callers, Swept(c) PROVE TypeOK'
  <2>1. StoreTypes' BY <1>15, <1>a DEF StoreTypes, rowsVars, Backups, Swept
  <2>2. WorkerTypes' BY <1>15, <1>a DEF WorkerTypes, workerVars, Swept
  <2>3. CallerTypes' BY <1>15, <1>a, ReturnType DEF CallerTypes, callerVars, Swept, CallerPc, Role
  <2> QED BY <2>1, <2>2, <2>3 DEF TypeOK
<1>16. ASSUME NEW c \in Callers, NEW b \in Backups, StartVerification(c, b) PROVE TypeOK'
  <2>1. StoreTypes' BY <1>16, <1>a DEF StoreTypes, rowsVars, Backups, StartVerification
  <2>2. WorkerTypes' BY <1>16, <1>a DEF WorkerTypes, workerVars, StartVerification
  <2>3. CallerTypes' BY <1>16, <1>a, ReadType DEF CallerTypes, callerVars, StartVerification, CallerPc
  <2> QED BY <2>1, <2>2, <2>3 DEF TypeOK
<1>17. ASSUME NEW c \in Callers, MarkVerifying(c) PROVE TypeOK'
  <2>1a. cur[c] \in Backups
    BY <1>17, <1>a DEF MarkVerifying, CallerInv, CallerOk, StoreTypes, Backups
  <2>1. StoreTypes' BY <1>17, <1>a, <2>1a, MarkedType, WrittenRow DEF StoreTypes, rowsVars, Backups, MarkVerifying, UpdateOk, UpdateErr
  <2>2. WorkerTypes' BY <1>17, <1>a DEF WorkerTypes, workerVars, MarkVerifying
  <2>3. CallerTypes' BY <1>17, <1>a, ReturnType, MarkedType DEF CallerTypes, callerVars, MarkVerifying, CallerPc
  <2> QED BY <2>1, <2>2, <2>3 DEF TypeOK
<1>18. ASSUME NEW c \in Callers, runVerification(c) PROVE TypeOK'
  <2>1. StoreTypes' BY <1>18, <1>a DEF StoreTypes, rowsVars, Backups, runVerification
  <2>2. WorkerTypes' BY <1>18, <1>a DEF WorkerTypes, workerVars, runVerification
  <2>3. CallerTypes' BY <1>18, <1>a, MarkedType DEF CallerTypes, runVerification, CallerPc
  <2> QED BY <2>1, <2>2, <2>3 DEF TypeOK
<1>19. ASSUME NEW c \in Callers, ConcludeVerification(c) PROVE TypeOK'
  <2>1a. cur[c] \in 1 .. last BY <1>19, <1>a DEF ConcludeVerification, CallerInv, CallerOk
  <2>1b. seen[c] \in Row BY <1>a DEF CallerTypes
  <2>1c. row' \in [Backups -> Row]
    <3>1. cur[c] \in Backups /\ row \in [Backups -> Row]
      BY <1>a, <2>1a DEF StoreTypes, Backups
    <3>2. Written(cur[c], seen[c]) \in Row
      BY <1>a, <2>1b, <3>1, WrittenRow
    <3> QED BY <1>19, <3>1, <3>2 DEF ConcludeVerification, UpdateOk, UpdateErr
  <2>1d. faults' \in 0 .. MaxFaults
    BY <1>19, <1>a DEF StoreTypes, ConcludeVerification, UpdateOk, UpdateErr
  <2>1. StoreTypes' BY <1>19, <1>a, <2>1a, <2>1c, <2>1d DEF StoreTypes, ConcludeVerification
  <2>2. WorkerTypes' BY <1>19, <1>a DEF WorkerTypes, workerVars, ConcludeVerification
  <2>3. CallerTypes' BY <1>19, <1>a, ReturnType DEF CallerTypes, callerVars, ConcludeVerification
  <2> QED BY <2>1, <2>2, <2>3 DEF TypeOK
<1>20. ASSUME NEW c \in Callers, NEW b \in Backups, StartRestore(c, b) PROVE TypeOK'
  <2>1. StoreTypes' BY <1>20, <1>a DEF StoreTypes, rowsVars, Backups, StartRestore
  <2>2. WorkerTypes' BY <1>20, <1>a DEF WorkerTypes, workerVars, StartRestore
  <2>3. CallerTypes' BY <1>20, <1>a, ReadType DEF CallerTypes, callerVars, StartRestore, CallerPc
  <2> QED BY <2>1, <2>2, <2>3 DEF TypeOK
<1>21. ASSUME NEW c \in Callers, CreateRestore(c) PROVE TypeOK'
  <2>1a. cur[c] \in 1 .. last BY <1>21, <1>a DEF CreateRestore, CallerInv, CallerOk
  <2>1. StoreTypes' BY <1>21, <1>a, <2>1a DEF StoreTypes, rowsVars, Backups, CreateRestore
  <2>2. WorkerTypes' BY <1>21, <1>a DEF WorkerTypes, workerVars, CreateRestore
  <2>3. CallerTypes' BY <1>21, <1>a, ReturnType DEF CallerTypes, callerVars, CreateRestore
  <2> QED BY <2>1, <2>2, <2>3 DEF TypeOK
<1>22. CASE Crash
  <2>1. StoreTypes' BY <1>22, <1>a DEF StoreTypes, rowsVars, Crash
  <2>2. WorkerTypes' BY <1>22, <1>a DEF WorkerTypes, Crash, Work
  <2>3. CallerTypes' BY <1>22, <1>a, NoCopyType DEF CallerTypes, Crash, CallerPc, Role, Plan, NoPlan
  <2> QED BY <2>1, <2>2, <2>3 DEF TypeOK
<1>23. CASE UNCHANGED vars
  BY <1>23, <1>a DEF vars, rowsVars, workerVars, callerVars, TypeOK, StoreTypes, WorkerTypes, CallerTypes
<1> QED
  BY <1>1, <1>2, <1>3, <1>4, <1>5, <1>6, <1>7, <1>8, <1>9, <1>10, <1>11, <1>12, <1>13, <1>14,
     <1>15, <1>16, <1>17, <1>18, <1>19, <1>20, <1>21, <1>22, <1>23
  DEF Next, Request, WorkerStep, Pipeline, CallerStep, DeleteStep, RetentionStep, VerifyStep, Waiting
-----------------------------------------------------------------------------
(* The semaphore counts the workers that hold a slot. *)

\* Handlers, sweeps and verifications leave the workers alone.
LEMMA CallerLeavesWorkers ==
    ASSUME NEW c \in Callers,
           \/ CallerStep(c)
           \/ \E b \in Backups : UserDelete(c, b) \/ StartVerification(c, b) \/ StartRestore(c, b)
    PROVE  UNCHANGED <<work, sem, notified, last>>
<1> USE DEF workerVars, rowsVars
<1>1. CASE DeleteStep(c)
  BY <1>1 DEF DeleteStep, Purge, Drop
<1>2. CASE RetentionStep(c)
  BY <1>2 DEF RetentionStep, ListOld, Sweep, Swept
<1>3. CASE VerifyStep(c)
  BY <1>3 DEF VerifyStep, MarkVerifying, runVerification, ConcludeVerification
<1>4. CASE CreateRestore(c)
  BY <1>4 DEF CreateRestore
<1>5. ASSUME NEW b \in Backups, UserDelete(c, b) \/ StartVerification(c, b) \/ StartRestore(c, b)
      PROVE  UNCHANGED <<work, sem, notified, last>>
  BY <1>5 DEF UserDelete, StartVerification, StartRestore
<1> QED BY <1>1, <1>2, <1>3, <1>4, <1>5 DEF CallerStep

Held == {b \in Backups : work[b] \in Holding}

LEMMA SlotFrame ==
    ASSUME SlotAccounting, sem' = sem,
           \A b \in Backups : work'[b] \in Holding <=> work[b] \in Holding
    PROVE  SlotAccounting'
<1>1. Held' = Held
  BY DEF Held
<1> QED BY <1>1 DEF SlotAccounting, Held

\* A created backup is queued, and had no worker before.
LEMMA SlotCreate ==
    ASSUME StoreTypes, WorkerTypes, WorkerInv, SlotAccounting, sem' = sem,
           NEW s, NEW k, NEW p, CreateBackup(s, k, p)
    PROVE  SlotAccounting'
<1>1. last + 1 \in Backups /\ work[last + 1] = "none"
  BY BoundsAssumption DEF CreateBackup, StoreTypes, Backups, WorkerInv
<1>2. \A b \in Backups : work'[b] \in Holding <=> work[b] \in Holding
  BY <1>1 DEF CreateBackup, WorkerTypes, Holding
<1> QED BY <1>2, SlotFrame

LEMMA SlotStep == IInv /\ [Next]_vars => SlotAccounting'
<1> SUFFICES ASSUME IInv, [Next]_vars PROVE SlotAccounting'
  OBVIOUS
<1> USE BoundsAssumption
<1>a. StoreTypes /\ WorkerTypes /\ WorkerInv /\ SlotAccounting
  BY DEF IInv, TypeOK
<1>b. IsFiniteSet(Held) /\ sem = Cardinality(Held) /\ sem <= MaxConcurrent /\ sem \in Nat
  BY <1>a, BackupsFinite DEF SlotAccounting, Held
<1>1. ASSUME NEW s \in ManualSchedules, NEW k \in Kinds, NEW p \in Providers, StartBackup(s, k, p)
      PROVE  SlotAccounting'
  BY <1>1, <1>a, SlotCreate DEF StartBackup
<1>2. ASSUME NEW b \in Backups, AcquireSlot(b) PROVE SlotAccounting'
  <2>1. b \notin Held /\ Held' = Held \cup {b}
    BY <1>2, <1>a DEF AcquireSlot, Held, Holding, WorkerTypes
  <2>2. Cardinality(Held') = Cardinality(Held) + 1
    BY <2>1, <1>b, FS_AddElement
  <2> QED BY <1>2, <1>b, <2>2 DEF AcquireSlot, SlotAccounting, Held
<1>3. ASSUME NEW b \in Backups, Pipeline(b) \/ completeBackup(b) \/ failBackup(b)
      PROVE  SlotAccounting'
  <2>1. sem' = sem /\ \A x \in Backups : work'[x] \in Holding <=> work[x] \in Holding
    BY <1>3, <1>a DEF Pipeline, Upload, FailEarly, FailLate, completeBackup, failBackup, Holding, WorkerTypes
  <2> QED BY <2>1, <1>a, SlotFrame
<1>4. ASSUME NEW b \in Backups, NotifyAndRelease(b) PROVE SlotAccounting'
  <2>1. b \in Held /\ Held' = Held \ {b}
    BY <1>4, <1>a DEF NotifyAndRelease, Held, Holding, WorkerTypes
  <2>2. Cardinality(Held') = Cardinality(Held) - 1
    BY <2>1, <1>b, FS_RemoveElement
  <2> QED BY <1>4, <1>b, <2>2 DEF NotifyAndRelease, SlotAccounting, Held
<1>5. ASSUME NEW c \in Callers, NEW s \in Schedules, ExecuteBackup(c, s) PROVE SlotAccounting'
  <2>1. sem' = sem
    BY <1>5 DEF ExecuteBackup
  <2>2. ASSUME NEW k \in Kinds, NEW p \in Providers, CreateBackup(s, k, p) PROVE SlotAccounting'
    BY <2>1, <2>2, <1>a, SlotCreate
  <2>3. ASSUME UNCHANGED <<last, table, row, work>> PROVE SlotAccounting'
    BY <2>1, <2>3, <1>a DEF SlotAccounting
  <2> QED BY <1>5, <2>2, <2>3 DEF ExecuteBackup
<1>6. ASSUME UNCHANGED <<work, sem>> PROVE SlotAccounting'
  BY <1>6, <1>a DEF SlotAccounting
<1>7. CASE Crash
  <2>1. Held' = {} /\ sem' = 0
    BY <1>7 DEF Crash, Held, Holding
  <2> QED BY <2>1, FS_EmptySet DEF SlotAccounting, Held
<1>8. CASE UNCHANGED vars
  BY <1>8, <1>6 DEF vars, workerVars
<1> QED
  BY <1>1, <1>2, <1>3, <1>4, <1>5, <1>6, <1>7, <1>8, CallerLeavesWorkers
  DEF Next, Request, WorkerStep, Waiting
-----------------------------------------------------------------------------
(* What any step does to the rows of the backups created so far: they stay  *)
(* out of the table once deleted, keep their schedule and type, and never   *)
(* go back to "running".                                                    *)

StoreMono ==
    /\ last' \in Nat /\ last' >= last
    /\ \A x \in 1 .. last :
        /\ x \in table' => x \in table
        /\ row'[x].sched = row[x].sched /\ row'[x].kind = row[x].kind
        /\ x \in table' /\ row[x].status # "running" => row'[x].status # "running"

LEMMA MonoSame ==
    ASSUME StoreTypes, last' = last, table' \subseteq table, row' = row PROVE StoreMono
BY BoundsAssumption DEF StoreTypes, StoreMono

LEMMA MonoCreate ==
    ASSUME StoreTypes, NEW s, NEW k, NEW p, CreateBackup(s, k, p) PROVE StoreMono
BY BoundsAssumption DEF StoreTypes, StoreMono, CreateBackup, Backups

LEMMA MonoUpdate ==
    ASSUME StoreTypes, last' = last, table' = table, NEW b \in Backups, NEW r \in Row,
           r.status # "running", UpdateOk(b, r) \/ UpdateErr(b, r)
    PROVE  StoreMono
BY BoundsAssumption, WrittenRow DEF StoreTypes, StoreMono, UpdateOk, UpdateErr, Backups

LEMMA MonoStep == IInv /\ [Next]_vars => StoreMono
<1> SUFFICES ASSUME IInv, [Next]_vars PROVE StoreMono
  OBVIOUS
<1> USE DEF rowsVars
<1>a. StoreTypes /\ CallerTypes /\ CallerInv
  BY DEF IInv, TypeOK
<1>b. \A b \in Backups : row[b] \in Row
  BY <1>a DEF StoreTypes
<1>1. ASSUME NEW s \in ManualSchedules, NEW k \in Kinds, NEW p \in Providers, StartBackup(s, k, p)
      PROVE  StoreMono
  BY <1>1, <1>a, MonoCreate DEF StartBackup
<1>2. ASSUME NEW c \in Callers, NEW s \in Schedules, ExecuteBackup(c, s) PROVE StoreMono
  BY <1>2, <1>a, MonoCreate, MonoSame DEF ExecuteBackup
<1>3. ASSUME NEW b \in Backups, completeBackup(b) PROVE StoreMono
  <2>1. Completed(b) \in Row
    BY <1>a, CompletedType
  <2>2. Completed(b).status # "running"
    BY <1>b DEF Completed, Row
  <2> QED BY <1>3, <2>1, <2>2, <1>a, MonoUpdate DEF completeBackup
<1>4. ASSUME NEW b \in Backups, failBackup(b) PROVE StoreMono
  <2>1. Failed(b) \in Row
    BY <1>a, FailedType
  <2>2. Failed(b).status # "running"
    BY <1>b DEF Failed, Row
  <2> QED BY <1>4, <2>1, <2>2, <1>a, MonoUpdate DEF failBackup
<1>5. ASSUME NEW c \in Callers, MarkVerifying(c) PROVE StoreMono
  <2>1. cur[c] \in Backups /\ seen[c] \in Row
    BY <1>5, <1>a, BoundsAssumption DEF MarkVerifying, CallerInv, CallerOk, CallerTypes, StoreTypes, Backups
  <2>2. Marked(c) \in Row /\ Marked(c).status # "running"
    BY <1>a, <2>1, MarkedType DEF Marked, Row
  <2> QED BY <1>5, <2>1, <2>2, <1>a, MonoUpdate DEF MarkVerifying
<1>6. ASSUME NEW c \in Callers, ConcludeVerification(c) PROVE StoreMono
  <2>1. cur[c] \in Backups /\ seen[c] \in Row /\ seen[c].status # "running"
    BY <1>6, <1>a, BoundsAssumption
       DEF ConcludeVerification, CallerInv, CallerOk, CallerTypes, StoreTypes, Backups
  <2> QED BY <1>6, <2>1, <1>a, MonoUpdate DEF ConcludeVerification
<1>7. ASSUME last' = last, table' \subseteq table, row' = row PROVE StoreMono
  BY <1>7, <1>a, MonoSame
<1>8. ASSUME NEW b \in Backups, AcquireSlot(b) \/ Pipeline(b) \/ NotifyAndRelease(b) PROVE StoreMono
  BY <1>8, <1>7 DEF AcquireSlot, Pipeline, Upload, FailEarly, FailLate, NotifyAndRelease
<1>9. ASSUME NEW c \in Callers, NEW b \in Backups,
             UserDelete(c, b) \/ StartVerification(c, b) \/ StartRestore(c, b)
      PROVE  StoreMono
  BY <1>9, <1>7 DEF UserDelete, StartVerification, StartRestore
<1>10. ASSUME NEW c \in Callers,
              \/ DeleteStep(c) \/ RetentionStep(c) \/ runVerification(c) \/ CreateRestore(c)
       PROVE  StoreMono
  BY <1>10, <1>7 DEF DeleteStep, Purge, Drop, RetentionStep, ListOld, Sweep, Swept, runVerification,
     CreateRestore
<1>11. CASE Crash
  BY <1>11, <1>7 DEF Crash
<1>12. CASE UNCHANGED vars
  BY <1>12, <1>7 DEF vars
<1> QED
  BY <1>1, <1>2, <1>3, <1>4, <1>5, <1>6, <1>8, <1>9, <1>10, <1>11, <1>12
  DEF Next, Request, WorkerStep, CallerStep, VerifyStep, Waiting
-----------------------------------------------------------------------------
(* Workers find their row as they left it. *)

LEMMA WorkerFrame ==
    ASSUME WorkerInv, last' = last, work' = work, table' \subseteq table,
           \A x \in table' : row[x].status = "running" => row'[x].status = "running"
    PROVE  WorkerInv'
BY DEF WorkerInv

LEMMA WorkerCreate ==
    ASSUME StoreTypes, WorkerTypes, WorkerInv, NEW s, NEW k, NEW p, CreateBackup(s, k, p)
    PROVE  WorkerInv'
<1>1. last \in Nat /\ last + 1 \in Backups /\ last + 1 \notin table
  BY BoundsAssumption DEF CreateBackup, StoreTypes, Backups
<1>2. ASSUME NEW b \in Backups, b # last + 1
      PROVE  /\ work'[b] = work[b] /\ row'[b] = row[b]
             /\ b \in table' <=> b \in table
             /\ b > last' => b > last
  BY <1>1, <1>2 DEF CreateBackup, StoreTypes, WorkerTypes, Backups
<1>3. row'[last + 1].status = "running" /\ ~(last + 1 > last')
  <2>1. row'[last + 1] = NewRow(s, k, p) /\ last' = last + 1
    BY <1>1 DEF CreateBackup, StoreTypes
  <2>2. NewRow(s, k, p).status = "running"
    BY DEF NewRow
  <2>3. ~(last + 1 > last')
    BY <1>1, <2>1
  <2> QED BY <2>1, <2>2, <2>3
<1> QED BY <1>2, <1>3 DEF WorkerInv

LEMMA WorkerInvStep == IInv /\ [Next]_vars => WorkerInv'
<1> SUFFICES ASSUME IInv, [Next]_vars PROVE WorkerInv'
  OBVIOUS
<1> USE DEF rowsVars
<1>a. StoreTypes /\ WorkerTypes /\ CallerInv /\ WorkerInv
  BY DEF IInv, TypeOK
<1>1. ASSUME NEW s \in ManualSchedules, NEW k \in Kinds, NEW p \in Providers, StartBackup(s, k, p)
      PROVE  WorkerInv'
  BY <1>1, <1>a, WorkerCreate DEF StartBackup
<1>2. ASSUME NEW c \in Callers, NEW s \in Schedules, ExecuteBackup(c, s) PROVE WorkerInv'
  BY <1>2, <1>a, WorkerCreate, WorkerFrame DEF ExecuteBackup
<1>3. ASSUME NEW b \in Backups, AcquireSlot(b) \/ Pipeline(b) PROVE WorkerInv'
  BY <1>3, <1>a DEF WorkerInv, WorkerTypes, AcquireSlot, Pipeline, Upload, FailEarly, FailLate
<1>4. ASSUME NEW b \in Backups, completeBackup(b) \/ failBackup(b) PROVE WorkerInv'
  BY <1>4, <1>a DEF WorkerInv, WorkerTypes, StoreTypes, completeBackup, failBackup, UpdateOk, UpdateErr
<1>5. ASSUME NEW b \in Backups, NotifyAndRelease(b) PROVE WorkerInv'
  BY <1>5, <1>a DEF WorkerInv, WorkerTypes, NotifyAndRelease
<1>6. ASSUME NEW c \in Callers, MarkVerifying(c) \/ ConcludeVerification(c) PROVE WorkerInv'
  <2>1. cur[c] \in table => row[cur[c]].status # "running"
    BY <1>6, <1>a DEF CallerInv, CallerOk, MarkVerifying, ConcludeVerification
  <2>2. \A x \in table' : row[x].status = "running" => row'[x].status = "running"
    <3>1. table' = table /\ (row' = row \/ \E r : row' = [row EXCEPT ![cur[c]] = r])
      BY <1>6 DEF MarkVerifying, ConcludeVerification, UpdateOk, UpdateErr
    <3>2. \A x \in table : x # cur[c] => row'[x] = row[x]
      <4>1. table \subseteq Backups /\ row \in [Backups -> Row]
        BY <1>a, BoundsAssumption DEF StoreTypes, Backups
      <4> QED BY <3>1, <4>1
    <3> QED BY <2>1, <3>1, <3>2
  <2> QED BY <1>6, <2>2, <1>a, WorkerFrame DEF MarkVerifying, ConcludeVerification, workerVars
<1>7. ASSUME last' = last, work' = work, table' \subseteq table, row' = row PROVE WorkerInv'
  BY <1>7, <1>a, WorkerFrame
<1>8. ASSUME NEW c \in Callers, NEW b \in Backups,
             UserDelete(c, b) \/ StartVerification(c, b) \/ StartRestore(c, b)
      PROVE  WorkerInv'
  BY <1>8, <1>7 DEF UserDelete, StartVerification, StartRestore, workerVars
<1>9. ASSUME NEW c \in Callers,
             \/ DeleteStep(c) \/ RetentionStep(c) \/ runVerification(c) \/ CreateRestore(c)
      PROVE  WorkerInv'
  BY <1>9, <1>7 DEF DeleteStep, Purge, Drop, RetentionStep, ListOld, Sweep, Swept, runVerification,
     CreateRestore, workerVars
<1>10. CASE Crash
  BY <1>10, <1>a DEF WorkerInv, Crash
<1>11. CASE UNCHANGED vars
  BY <1>11, <1>7 DEF vars, workerVars
<1> QED
  BY <1>1, <1>2, <1>3, <1>4, <1>5, <1>6, <1>8, <1>9, <1>10, <1>11
  DEF Next, Request, WorkerStep, CallerStep, VerifyStep, Waiting

-----------------------------------------------------------------------------
(* Callers. *)

\* A caller that takes no step is not disturbed by what others do to rows.
LEMMA CallerFrame ==
    ASSUME StoreTypes, StoreMono, NEW c \in Callers, CallerOk(c),
           pc'[c] = pc[c], role'[c] = role[c], cur'[c] = cur[c], todo'[c] = todo[c],
           seen'[c] = seen[c]
    PROVE  CallerOk(c)'
<1>1. 1 .. last \subseteq 1 .. last'
  BY BoundsAssumption DEF StoreTypes, StoreMono
<1> QED BY <1>1 DEF CallerOk, StoreMono

\* A caller that returns has nothing left.
LEMMA CallerReturn ==
    ASSUME CallerTypes, NEW c \in Callers, Return(c) PROVE CallerOk(c)'
BY DEF CallerTypes, Return, CallerOk

\* Each request and each step of a caller leaves the other callers alone.
CallerAction(c) ==
    \/ CallerStep(c)
    \/ \E b \in Backups : UserDelete(c, b) \/ StartVerification(c, b) \/ StartRestore(c, b)
    \/ \E s \in Schedules : ExecuteBackup(c, s)

Untouched(d) ==
    /\ pc'[d] = pc[d] /\ role'[d] = role[d] /\ cur'[d] = cur[d]
    /\ todo'[d] = todo[d] /\ seen'[d] = seen[d]

LEMMA OthersUntouched ==
    ASSUME CallerTypes, NEW c \in Callers, NEW d \in Callers, d # c, CallerAction(c)
    PROVE  Untouched(d)
<1> USE DEF CallerTypes, Untouched
<1>1. CASE DeleteStep(c)
  BY <1>1 DEF DeleteStep, Purge, Goto, Drop, Deleted, Return
<1>2. CASE RetentionStep(c)
  BY <1>2 DEF RetentionStep, ListOld, Sweep, Read, Swept, Return
<1>3. CASE VerifyStep(c)
  BY <1>3 DEF VerifyStep, MarkVerifying, runVerification, ConcludeVerification, Return
<1>4. CASE CreateRestore(c)
  BY <1>4 DEF CreateRestore, Return
<1>5. ASSUME NEW b \in Backups, UserDelete(c, b) \/ StartVerification(c, b) \/ StartRestore(c, b)
      PROVE  Untouched(d)
  BY <1>5 DEF UserDelete, StartVerification, StartRestore, Read
<1>6. ASSUME NEW s \in Schedules, ExecuteBackup(c, s) PROVE Untouched(d)
  BY <1>6 DEF ExecuteBackup
<1> QED BY <1>1, <1>2, <1>3, <1>4, <1>5, <1>6 DEF CallerAction, CallerStep

\* A request begins with a read of an existing row, whose copy is exact.
LEMMA CallerReads ==
    ASSUME StoreTypes, CallerTypes, NEW c \in Callers, NEW b \in table,
           NEW next \in {"purge", "mark", "pin"}, Read(c, b, next),
           UNCHANGED <<last, table, row>>, todo[c] \subseteq 1 .. last,
           next = "purge" /\ role[c] # "user" => b \in todo[c],
           next = "mark" => row[b].status = "success"
    PROVE  CallerOk(c)'
BY DEF StoreTypes, CallerTypes, Read, CallerOk

\* The steps of a caller that runs.
LEMMA CallerActs ==
    ASSUME StoreTypes, CallerTypes, StoreMono, NEW c \in Callers, CallerOk(c), CallerAction(c)
    PROVE  CallerOk(c)'
<1> USE DEF rowsVars
<1>1. ASSUME NEW b \in Backups, UserDelete(c, b) PROVE CallerOk(c)'
  BY <1>1, CallerReads DEF UserDelete, CallerOk
<1>2. ASSUME NEW b \in Backups, StartVerification(c, b) PROVE CallerOk(c)'
  BY <1>2, CallerReads DEF StartVerification, CallerOk
<1>3. ASSUME NEW b \in Backups, StartRestore(c, b) PROVE CallerOk(c)'
  BY <1>3, CallerReads DEF StartRestore, CallerOk
<1>4. ASSUME NEW s \in Schedules, ExecuteBackup(c, s) PROVE CallerOk(c)'
  <2>1. 1 .. last \subseteq 1 .. last'
    BY BoundsAssumption DEF StoreTypes, StoreMono
  <2> QED BY <1>4, <2>1 DEF ExecuteBackup, CallerOk, CallerTypes
<1>5. CASE Purge(c)
  BY <1>5 DEF Purge, Goto, CallerOk, CallerTypes
<1>6. CASE Drop(c)
  <2>1. CASE role[c] = "user"
    BY <1>6, <2>1, CallerReturn DEF Drop, Deleted
  <2>2. CASE role[c] # "user"
    BY <1>6, <2>2 DEF Drop, Deleted, CallerOk, CallerTypes
  <2> QED BY <2>1, <2>2
<1>7. CASE ListOld(c)
  <2>1. ListOldestByBackupType(plan[c].sched, role[c], plan[c][role[c]]) \subseteq 1 .. last
    BY DEF ListOldestByBackupType, Successes, StoreTypes
  <2> QED BY <1>7, <2>1 DEF ListOld, CallerOk, CallerTypes
<1>8. CASE Sweep(c)
  <2>1. PICK b \in todo[c] :
          \/ b \in table /\ Read(c, b, "purge")
          \/ /\ todo' = [todo EXCEPT ![c] = @ \ {b}]
             /\ UNCHANGED <<pc, role, cur, plan, seen>>
    BY <1>8 DEF Sweep
  <2>2. CASE b \in table /\ Read(c, b, "purge")
    BY <1>8, <2>2, CallerReads DEF Sweep, CallerOk
  <2>3. CASE todo' = [todo EXCEPT ![c] = @ \ {b}] /\ UNCHANGED <<pc, role, cur, plan, seen>>
    BY <1>8, <2>3 DEF Sweep, CallerOk, CallerTypes
  <2> QED BY <2>1, <2>2, <2>3
<1>9. CASE Swept(c)
  <2>1. CASE role[c] = "full"
    BY <1>9, <2>1 DEF Swept, CallerOk, CallerTypes
  <2>2. CASE role[c] # "full"
    BY <1>9, <2>2, CallerReturn DEF Swept
  <2> QED BY <2>1, <2>2
<1>10. CASE MarkVerifying(c)
  <2>1. CASE UpdateErr(cur[c], Marked(c)) /\ Return(c)
    BY <2>1, CallerReturn
  <2>2. ASSUME UpdateOk(cur[c], Marked(c)), pc' = [pc EXCEPT ![c] = "check"],
               seen' = [seen EXCEPT ![c] = Marked(c)], UNCHANGED <<role, cur, todo, plan>>
        PROVE  CallerOk(c)'
    <3>1. last' = last /\ table' = table
      BY <1>10 DEF MarkVerifying
    <3>2. cur[c] \in 1 .. last /\ todo[c] \subseteq 1 .. last
      BY <1>10 DEF MarkVerifying, CallerOk
    <3>3. Marked(c).status = "verifying" /\ Marked(c).verify = "verifying"
      BY DEF Marked, CallerTypes, Row
    <3>4. cur[c] \in table => row'[cur[c]].status # "running"
      BY <1>10, <3>1, <3>2 DEF MarkVerifying, CallerOk, StoreMono
    <3>5. cur[c] \in table => "verifying" \in VerifyStatuses
      BY <2>2, <3>3 DEF UpdateOk, Admitted
    <3>6. pc'[c] = "check" /\ seen'[c] = Marked(c) /\ cur'[c] = cur[c] /\ todo'[c] = todo[c]
      BY <2>2 DEF CallerTypes
    <3> QED BY <3>1, <3>2, <3>4, <3>5, <3>6 DEF CallerOk
  <2> QED BY <1>10, <2>1, <2>2 DEF MarkVerifying
<1>11. CASE runVerification(c)
  <2>1. seen[c] \in Row
    BY DEF CallerTypes
  <2>2. Passed(c).status = "success" /\ Rejected(c).status = "failed"
    BY <2>1 DEF Passed, Rejected, Row
  <2> QED BY <1>11, <2>2 DEF runVerification, CallerOk, CallerTypes
<1>12. CASE ConcludeVerification(c)
  BY <1>12, CallerReturn DEF ConcludeVerification
<1>13. CASE CreateRestore(c)
  BY <1>13, CallerReturn DEF CreateRestore
<1> QED BY <1>1, <1>2, <1>3, <1>4, <1>5, <1>6, <1>7, <1>8, <1>9, <1>10, <1>11, <1>12, <1>13
  DEF CallerAction, CallerStep, DeleteStep, RetentionStep, VerifyStep

\* Every other step: one that takes no caller on, a crash, or no step.
LEMMA NonCallerStep ==
    ASSUME [Next]_vars, \A c \in Callers : ~CallerAction(c)
    PROVE  UNCHANGED callerVars \/ Crash
<1> USE DEF callerVars
<1>1. ASSUME NEW s \in ManualSchedules, NEW k \in Kinds, NEW p \in Providers, StartBackup(s, k, p)
      PROVE  UNCHANGED callerVars
  BY <1>1 DEF StartBackup
<1>2. ASSUME NEW b \in Backups, WorkerStep(b) PROVE UNCHANGED callerVars
  BY <1>2 DEF WorkerStep, AcquireSlot, Pipeline, Upload, FailEarly, FailLate, completeBackup,
     failBackup, NotifyAndRelease
<1>3. ASSUME NEW c \in Callers, Request(c) \/ CallerStep(c) PROVE FALSE
  BY <1>3 DEF CallerAction, Request
<1>4. CASE UNCHANGED vars
  BY <1>4 DEF vars
<1> QED BY <1>1, <1>2, <1>3, <1>4 DEF Next, Waiting

LEMMA CallerInvStep == IInv /\ [Next]_vars => CallerInv'
<1> SUFFICES ASSUME IInv, [Next]_vars PROVE CallerInv'
  OBVIOUS
<1>a. StoreTypes /\ CallerTypes /\ CallerInv /\ StoreMono
  BY MonoStep DEF IInv, TypeOK
<1>1. ASSUME NEW c \in Callers, CallerAction(c), NEW d \in Callers PROVE CallerOk(d)'
  <2>1. CASE d = c
    BY <1>1, <2>1, <1>a, CallerActs DEF CallerInv
  <2>2. CASE d # c
    BY <1>1, <2>2, <1>a, OthersUntouched, CallerFrame DEF CallerInv, Untouched
  <2> QED BY <2>1, <2>2
<1>2. ASSUME UNCHANGED callerVars, NEW d \in Callers PROVE CallerOk(d)'
  BY <1>2, <1>a, CallerFrame DEF CallerInv, callerVars
<1>3. ASSUME Crash, NEW d \in Callers PROVE CallerOk(d)'
  BY <1>3 DEF Crash, CallerOk
<1> QED BY <1>1, <1>2, <1>3, NonCallerStep DEF CallerInv
-----------------------------------------------------------------------------
(* Retention.  A backup counts when it is a success that nobody but a sweep *)
(* has taken away.  Only a sweep's own Delete ends that.                    *)

Counts(n) == n \in removed \/ (n \in table /\ row[n].status \in {"success", "verifying"})

SweepDrop(c) == Drop(c) /\ role[c] # "user"

LEMMA CountsKept ==
    ASSUME IInv, [Next]_vars, \A c \in Callers : ~SweepDrop(c), NEW n \in 1 .. last, Counts(n)
    PROVE  Counts(n)'
<1> USE DEF rowsVars
<1>a. StoreTypes /\ WorkerInv /\ CallerInv /\ CallerTypes
  BY DEF IInv, TypeOK
<1>b. n \in Backups /\ row \in [Backups -> Row] /\ table \subseteq Backups
  BY <1>a, BoundsAssumption DEF StoreTypes, Backups
<1>1. ASSUME NEW s, NEW k, NEW p, CreateBackup(s, k, p), removed' = removed PROVE Counts(n)'
  <2>1. last + 1 # n
    BY <1>a, BoundsAssumption DEF StoreTypes
  <2> QED BY <1>1, <2>1, <1>b DEF Counts, CreateBackup
<1>2. ASSUME table' = table, row' = row, removed' = removed PROVE Counts(n)'
  BY <1>2 DEF Counts
<1>3. ASSUME NEW b \in Backups, completeBackup(b) \/ failBackup(b) PROVE Counts(n)'
  <2>1. table' = table /\ removed' = removed /\ (row' = row \/ \E r : row' = [row EXCEPT ![b] = r])
    BY <1>3 DEF completeBackup, failBackup, UpdateOk, UpdateErr
  <2>2. b \in table => row[b].status = "running"
    BY <1>3, <1>a DEF WorkerInv, completeBackup, failBackup
  <2> QED BY <2>1, <2>2, <1>b DEF Counts
<1>4. ASSUME NEW c \in Callers, MarkVerifying(c) PROVE Counts(n)'
  <2>1. table' = table /\ removed' = removed
        /\ (row' = row \/ row' = [row EXCEPT ![cur[c]] = Written(cur[c], Marked(c))])
    BY <1>4 DEF MarkVerifying, UpdateOk, UpdateErr
  <2>2a. cur[c] \in Backups
    BY <1>4, <1>a, BoundsAssumption DEF MarkVerifying, CallerInv, CallerOk, StoreTypes, Backups
  <2>2b. Marked(c) \in Row
    BY <1>a, MarkedType
  <2>2c. Marked(c).status = "verifying"
    BY <1>a DEF Marked, CallerTypes, Row
  <2>2. Written(cur[c], Marked(c)).status = "verifying"
    BY <1>a, <2>2a, <2>2b, <2>2c, WrittenRow
  <2> QED BY <2>1, <2>2, <1>b DEF Counts
<1>5. ASSUME NEW c \in Callers, ConcludeVerification(c) PROVE Counts(n)'
  <2>1. table' = table /\ removed \subseteq removed'
        /\ (row' = row \/ row' = [row EXCEPT ![cur[c]] = Written(cur[c], seen[c])])
    BY <1>5 DEF ConcludeVerification, UpdateOk, UpdateErr
  <2>2a. cur[c] \in Backups /\ seen[c] \in Row
    BY <1>5, <1>a, BoundsAssumption
       DEF ConcludeVerification, CallerInv, CallerOk, CallerTypes, StoreTypes, Backups
  <2>2b. Written(cur[c], seen[c]).status = seen[c].status
    BY <1>a, <2>2a, WrittenRow
  <2>2. pc[c] = "pass" => Written(cur[c], seen[c]).status = "success"
    BY <1>a, <2>2b DEF CallerInv, CallerOk
  <2>3. pc[c] = "reject" /\ cur[c] \in table /\ row' # row => cur[c] \in removed'
    BY <1>5 DEF ConcludeVerification, UpdateErr
  <2>4. pc[c] = "pass" \/ pc[c] = "reject"
    BY <1>5 DEF ConcludeVerification
  <2> QED BY <2>1, <2>2, <2>3, <2>4, <1>b DEF Counts
<1>6. ASSUME NEW c \in Callers, Drop(c) PROVE Counts(n)'
  <2>1. role[c] = "user"
    BY <1>6 DEF SweepDrop
  <2> QED BY <1>6, <2>1 DEF Drop, Counts
<1>7. ASSUME NEW b \in Backups, AcquireSlot(b) \/ Pipeline(b) \/ NotifyAndRelease(b) PROVE Counts(n)'
  BY <1>7, <1>2 DEF AcquireSlot, Pipeline, Upload, FailEarly, FailLate, NotifyAndRelease
<1>8. ASSUME NEW c \in Callers, NEW b \in Backups,
             UserDelete(c, b) \/ StartVerification(c, b) \/ StartRestore(c, b)
      PROVE  Counts(n)'
  BY <1>8, <1>2 DEF UserDelete, StartVerification, StartRestore
<1>9. ASSUME NEW c \in Callers, Purge(c) \/ RetentionStep(c) \/ runVerification(c) \/ CreateRestore(c)
      PROVE  Counts(n)'
  BY <1>9, <1>2 DEF Purge, RetentionStep, ListOld, Sweep, Swept, runVerification, CreateRestore
<1>10. CASE Crash
  BY <1>10, <1>2 DEF Crash
<1>11. CASE UNCHANGED vars
  BY <1>11, <1>2 DEF vars
<1>12. ASSUME NEW s \in ManualSchedules, NEW k \in Kinds, NEW p \in Providers, StartBackup(s, k, p)
       PROVE  Counts(n)'
  BY <1>12, <1>1 DEF StartBackup
<1>13. ASSUME NEW c \in Callers, NEW s \in Schedules, ExecuteBackup(c, s) PROVE Counts(n)'
  BY <1>13, <1>1, <1>2 DEF ExecuteBackup
<1> QED
  BY <1>3, <1>4, <1>5, <1>6, <1>7, <1>8, <1>9, <1>10, <1>11, <1>12, <1>13
  DEF Next, Request, WorkerStep, CallerStep, DeleteStep, VerifyStep, Waiting

\* So the newer backups of a backup only grow in number.
LEMMA NewerKept ==
    ASSUME IInv, [Next]_vars, NEW b \in 1 .. last, NEW S \in SUBSET Newer(b),
           \A n \in S : Counts(n) => Counts(n)'
    PROVE  Cardinality(Newer(b)') \in Nat /\ Cardinality(S) <= Cardinality(Newer(b)')
<1>a. StoreTypes /\ StoreMono
  BY MonoStep DEF IInv, TypeOK
<1>1. S \subseteq Newer(b)'
  <2> SUFFICES ASSUME NEW n \in S PROVE n \in Newer(b)'
    OBVIOUS
  <2>1. n \in Backups /\ n > b /\ row[n].sched = row[b].sched /\ row[n].kind = row[b].kind /\ Counts(n)
    BY DEF Newer, Counts
  <2>2. n \in 1 .. last
    BY <2>1, <1>a DEF Counts, StoreTypes
  <2>3. /\ row'[n].sched = row[n].sched /\ row'[n].kind = row[n].kind
        /\ row'[b].sched = row[b].sched /\ row'[b].kind = row[b].kind
    BY <2>2, <1>a DEF StoreMono
  <2>4. Counts(n)'
    BY <2>1
  <2> QED BY <2>1, <2>3, <2>4 DEF Newer, Counts
<1>2. Newer(b)' \in SUBSET Backups
  BY DEF Newer
<1> QED BY <1>1, <1>2, BackupsFinite, FS_Subset, FS_CardinalityType

\* A sweep's list only shrinks, but for the step that makes it.
LEMMA TodoShrinks ==
    ASSUME CallerTypes, [Next]_vars, NEW d \in Callers, ~ListOld(d)
    PROVE  todo'[d] \subseteq todo[d]
<1> USE DEF CallerTypes
<1>1. ASSUME NEW c \in Callers, CallerAction(c), c # d PROVE todo'[d] = todo[d]
  BY <1>1, OthersUntouched DEF Untouched
<1>2. CASE DeleteStep(d)
  BY <1>2 DEF DeleteStep, Purge, Goto, Drop, Deleted, Return
<1>3. CASE Sweep(d)
  BY <1>3 DEF Sweep, Read
<1>4. CASE Swept(d)
  BY <1>4 DEF Swept, Return
<1>5. CASE VerifyStep(d)
  BY <1>5 DEF VerifyStep, MarkVerifying, runVerification, ConcludeVerification, Return
<1>6. CASE CreateRestore(d)
  BY <1>6 DEF CreateRestore, Return
<1>7. ASSUME NEW b \in Backups, UserDelete(d, b) \/ StartVerification(d, b) \/ StartRestore(d, b)
      PROVE  todo'[d] = todo[d]
  BY <1>7 DEF UserDelete, StartVerification, StartRestore, Read
<1>8. ASSUME NEW s \in Schedules, ExecuteBackup(d, s) PROVE todo'[d] = todo[d]
  BY <1>8 DEF ExecuteBackup
<1>9. CASE CallerAction(d)
  BY <1>2, <1>3, <1>4, <1>5, <1>6, <1>7, <1>8, <1>9 DEF CallerAction, CallerStep, RetentionStep
<1>10. CASE UNCHANGED callerVars \/ Crash
  BY <1>10 DEF callerVars, Crash
<1> QED BY <1>1, <1>9, <1>10, NonCallerStep

\* What a sweep puts on its list has enough newer successes at that moment.
LEMMA ListedHasNewer ==
    ASSUME IInv, [Next]_vars, NEW c \in Callers, ListOld(c), NEW b \in todo'[c], b \notin todo[c]
    PROVE  Cardinality(Newer(b)) >= LowestKeep
<1> DEFINE keep == plan[c][role[c]]
           S == Successes(plan[c].sched, role[c])
           N == {n \in S : n > b}
<1>a. StoreTypes /\ CallerTypes /\ CallerInv
  BY DEF IInv, TypeOK
<1>1. keep \in Nat /\ (keep > 0 => keep >= LowestKeep)
  <2>1. role[c] = "full" \/ role[c] = "incremental"
    BY <1>a DEF ListOld, CallerInv, CallerOk, CallerTypes, Role
  <2>2. plan[c]["full"] \in Retentions \cup {0} /\ plan[c]["incremental"] \in Retentions \cup {0}
    BY <1>a DEF CallerTypes, Plan
  <2>3. keep \in Retentions \cup {0}
    BY <2>1, <2>2
  <2> HIDE DEF keep
  <2> QED BY <2>3, RetentionAssumption
<1>2. keep > 0 /\ b \in ListOldestByBackupType(plan[c].sched, role[c], keep)
  BY <1>a DEF ListOld, CallerTypes
<1>3. b \in S /\ Cardinality(N) >= keep
  BY <1>2 DEF ListOldestByBackupType
<1>4. N \subseteq Newer(b)
  <2>1. table \subseteq Backups
    BY <1>a, BoundsAssumption DEF StoreTypes, Backups
  <2> QED BY <1>3, <2>1 DEF Successes, Newer
<1>5. Newer(b) \in SUBSET Backups /\ N \in SUBSET Backups
  BY <1>4 DEF Newer
<1>6. Cardinality(N) <= Cardinality(Newer(b)) /\ Cardinality(N) \in Nat /\ Cardinality(Newer(b)) \in Nat
  BY <1>4, <1>5, BackupsFinite, FS_Subset
<1> QED BY <1>1, <1>2, <1>3, <1>6, RetentionAssumption

LEMMA RetentionInvStep == IInv /\ [Next]_vars => RetentionKeepsEnough'
<1> SUFFICES ASSUME IInv, [Next]_vars, NEW d \in Callers, NEW b \in todo'[d]
             PROVE  Cardinality(Newer(b)') >= LowestKeep
  BY DEF RetentionKeepsEnough
<1>a. StoreTypes /\ CallerTypes /\ CallerInv /\ RetentionKeepsEnough /\ WorkerInv
  BY DEF IInv, TypeOK
<1>b. LowestKeep \in Nat
  BY RetentionAssumption
<1>1. Cardinality(Newer(b)) >= LowestKeep
  <2>1. CASE b \in todo[d]
    BY <2>1, <1>a DEF RetentionKeepsEnough
  <2>2. CASE b \notin todo[d]
    <3>1. ListOld(d)
      BY <2>2, <1>a, TodoShrinks
    <3> QED BY <2>2, <3>1, ListedHasNewer
  <2> QED BY <2>1, <2>2
<1>2. b \in 1 .. last
  <2>1. CASE b \in todo[d]
    BY <2>1, <1>a DEF CallerInv, CallerOk
  <2>2. CASE b \notin todo[d]
    <3>1. ListOld(d)
      BY <2>2, <1>a, TodoShrinks
    <3>2. b \in table
      BY <2>2, <3>1, <1>a DEF ListOld, ListOldestByBackupType, Successes, CallerTypes
    <3> QED BY <3>2, <1>a DEF StoreTypes
  <2> QED BY <2>1, <2>2
<1>n. \A x \in 1 .. last : Newer(x) \in SUBSET Backups /\ Cardinality(Newer(x)) \in Nat
  BY BackupsFinite DEF Newer
<1>3. CASE \A c \in Callers : ~SweepDrop(c)
  <2>1. \A n \in Newer(b) : Counts(n) => Counts(n)'
    <3>1. \A n \in Newer(b) : Counts(n) => n \in 1 .. last
      BY <1>a DEF Counts, StoreTypes
    <3> QED BY <3>1, <1>3, CountsKept
  <2>2. Cardinality(Newer(b)') \in Nat /\ Cardinality(Newer(b)) <= Cardinality(Newer(b)')
    BY <2>1, <1>2, NewerKept
  <2> QED BY <1>1, <1>b, <1>n, <1>2, <2>2
<1>4. ASSUME NEW c \in Callers, SweepDrop(c) PROVE Cardinality(Newer(b)') >= LowestKeep
  <2> DEFINE v == cur[c]
  <2>1. v \in todo[c] /\ v \in 1 .. last
    BY <1>4, <1>a DEF SweepDrop, Drop, CallerInv, CallerOk
  <2>2. \A n \in Backups : n # v /\ Counts(n) => Counts(n)'
    BY <1>4 DEF SweepDrop, Drop, Counts
  <2>3. CASE v \notin Newer(b)
    <3>1. \A n \in Newer(b) : Counts(n) => Counts(n)'
      BY <2>2, <2>3 DEF Newer
    <3>2. Cardinality(Newer(b)') \in Nat /\ Cardinality(Newer(b)) <= Cardinality(Newer(b)')
      BY <3>1, <1>2, NewerKept
    <3> QED BY <1>1, <1>b, <1>n, <1>2, <3>2
  <2>4. CASE v \in Newer(b)
    <3>1. Cardinality(Newer(v)) >= LowestKeep /\ Cardinality(Newer(v)) \in Nat
      BY <2>1, <1>a, <1>n DEF RetentionKeepsEnough
    <3>2. Newer(v) \subseteq Newer(b) /\ v \notin Newer(v)
      BY <2>4, <1>2, <2>1 DEF Newer, Backups
    <3>3. \A n \in Newer(v) : Counts(n) => Counts(n)'
      BY <2>2, <3>2 DEF Newer
    <3>4. Cardinality(Newer(b)') \in Nat /\ Cardinality(Newer(v)) <= Cardinality(Newer(b)')
      BY <3>2, <3>3, <1>2, NewerKept
    <3> QED BY <3>1, <3>4, <1>b
  <2> QED BY <2>3, <2>4
<1> QED BY <1>3, <1>4

-----------------------------------------------------------------------------
(* The invariant, and what follows from it. *)

LEMMA InitInv == Init => IInv
<1> SUFFICES ASSUME Init PROVE IInv
  OBVIOUS
<1> USE BoundsAssumption
<1>1. StoreTypes
  BY NoCopyType DEF Init, StoreTypes
<1>2. WorkerTypes
  BY DEF Init, WorkerTypes, Work
<1>3. CallerTypes
  BY NoCopyType DEF Init, CallerTypes, CallerPc, Role, Plan, NoPlan
<1>4. SlotAccounting
  <2>1. {b \in Backups : work[b] \in Holding} = {}
    BY DEF Init, Holding
  <2> QED BY <2>1, FS_EmptySet DEF Init, SlotAccounting
<1>5. WorkerInv
  BY DEF Init, WorkerInv
<1>6. CallerInv
  BY DEF Init, CallerInv, CallerOk
<1>7. RetentionKeepsEnough
  BY DEF Init, RetentionKeepsEnough
<1> QED BY <1>1, <1>2, <1>3, <1>4, <1>5, <1>6, <1>7 DEF IInv, TypeOK

\* IInv holds in every reachable state: each of its parts is kept by every
\* action of the workers and of the callers, and by a crash.
THEOREM Invariance == Spec => []IInv
<1>1. IInv /\ [Next]_vars => IInv'
  BY TypeStep, SlotStep, WorkerInvStep, CallerInvStep, RetentionInvStep DEF IInv
<1> QED BY InitInv, <1>1, PTL DEF Spec

\* Rows, objects, workers and callers keep their types.
THEOREM TypeCorrect == Spec => []TypeOK
<1>1. IInv => TypeOK
  BY DEF IInv
<1> QED BY Invariance, <1>1, PTL

\* The semaphore of NewService bounds the running backups and is released
\* once on every path through runBackup, for any capacity.
THEOREM SlotsCounted == Spec => []SlotAccounting
<1>1. IInv => SlotAccounting
  BY DEF IInv
<1> QED BY Invariance, <1>1, PTL

\* EnforceRetention, however many sweeps run at once and however old their
\* lists are, never takes a schedule below its lowest limit.
THEOREM RetentionSafe == Spec => []RetentionKeepsEnough
<1>1. IInv => RetentionKeepsEnough
  BY DEF IInv
<1> QED BY Invariance, <1>1, PTL

-----------------------------------------------------------------------------
(* The refinement: what each step looks like to a client of the API. *)

LEMMA PhaseSame ==
    ASSUME last' = last, table' = table, \A x \in table : row'[x].status = row[x].status
    PROVE  Phase' = Phase
BY DEF Phase

LEMMA PhaseChange ==
    ASSUME NEW b, NEW s, Phase'[b] = s, \A x \in Backups : x # b => Phase'[x] = Phase[x]
    PROVE  Phase' = [Phase EXCEPT ![b] = s]
<1>1. Phase' = [x \in Backups |-> Phase'[x]] /\ Phase = [x \in Backups |-> Phase[x]]
  BY DEF Phase
<1> HIDE DEF Phase
<1> QED BY <1>1

LEMMA PhaseCreate ==
    ASSUME StoreTypes, NEW s, NEW k, NEW p, CreateBackup(s, k, p)
    PROVE  Lifecycle!Next
<1>1. last \in Nat /\ last + 1 \in Backups /\ last + 1 \notin table /\ ~(last + 1 <= last)
  BY BoundsAssumption DEF CreateBackup, StoreTypes, Backups
<1>2. last' = last + 1 /\ table' = table \cup {last + 1} /\ row' = [row EXCEPT ![last + 1] = NewRow(s, k, p)]
  BY DEF CreateBackup
<1>3. NewRow(s, k, p).status = "running"
  BY DEF NewRow
<1>4. ASSUME NEW x \in Backups, x # last + 1
      PROVE  (x \in table' <=> x \in table) /\ row'[x] = row[x] /\ (x <= last' <=> x <= last)
  BY <1>1, <1>2, <1>4 DEF StoreTypes, Backups
<1>5. row'[last + 1].status = "running"
  BY <1>1, <1>2, <1>3 DEF StoreTypes
<1>6. Phase[last + 1] = "none" /\ Phase' = [Phase EXCEPT ![last + 1] = "running"]
  <2>1. Phase[last + 1] = "none"
    BY <1>1 DEF Phase
  <2>2. last + 1 \in table'
    BY <1>2
  <2>3. Phase'[last + 1] = "running"
    BY <1>1, <2>2, <1>5 DEF Phase
  <2>4. \A x \in Backups : x # last + 1 => Phase'[x] = Phase[x]
    BY <1>4 DEF Phase
  <2> QED BY <2>1, <2>3, <2>4, PhaseChange
<1>7. Lifecycle!Start(last + 1)
  BY <1>6 DEF Lifecycle!Start
<1> QED BY <1>1, <1>7 DEF Lifecycle!Next

LEMMA PhaseUpdate ==
    ASSUME StoreTypes, last' = last, table' = table, NEW b \in Backups, NEW r \in Row,
           UpdateOk(b, r) \/ UpdateErr(b, r)
    PROVE  \/ Phase' = Phase
           \/ /\ b \in table /\ Admitted(b, r)
              /\ Phase[b] = row[b].status /\ Phase' = [Phase EXCEPT ![b] = r.status]
<1>1. CASE row' = row
  BY <1>1 DEF Phase
<1>2. CASE row' # row
  <2>1. b \in table /\ Admitted(b, r) /\ row' = [row EXCEPT ![b] = Written(b, r)]
    BY <1>2 DEF UpdateOk, UpdateErr
  <2>2. row'[b].status = r.status /\ \A x \in Backups : x # b => row'[x] = row[x]
    BY <2>1, WrittenRow DEF StoreTypes
  <2>3. Phase[b] = row[b].status /\ Phase'[b] = r.status
    BY <2>1, <2>2 DEF Phase
  <2>4. \A x \in Backups : x # b => Phase'[x] = Phase[x]
    BY <2>2 DEF Phase
  <2>5. Phase' = [Phase EXCEPT ![b] = r.status]
    BY <2>3, <2>4, PhaseChange
  <2> QED BY <2>1, <2>3, <2>5
<1> QED BY <1>1, <1>2

LEMMA PhaseDrop ==
    ASSUME StoreTypes, last' = last, row' = row, NEW b \in Backups, table' = table \ {b}
    PROVE  Phase' = Phase \/ Lifecycle!Next
<1>1. CASE b \notin table
  BY <1>1 DEF Phase
<1>2. CASE b \in table
  <2>1. row[b].status \in Status /\ b <= last
    BY <1>2 DEF StoreTypes, Row
  <2>2. Phase[b] = row[b].status /\ Phase' = [Phase EXCEPT ![b] = "gone"]
    BY <1>2, <2>1 DEF Phase
  <2>3. Lifecycle!Remove(b)
    BY <2>1, <2>2 DEF Lifecycle!Remove, Lifecycle!Reported, Status
  <2> QED BY <2>3 DEF Lifecycle!Next
<1> QED BY <1>1, <1>2

LEMMA PhaseSettles ==
    ASSUME NEW b \in Backups, NEW r, Phase[b] = "running", r.status \in {"success", "failed"},
           Phase' = [Phase EXCEPT ![b] = r.status]
    PROVE  Lifecycle!Next
<1>1. Lifecycle!Settle(b)
  BY DEF Lifecycle!Settle
<1> QED BY <1>1 DEF Lifecycle!Next

LEMMA PhaseVerifies ==
    ASSUME NEW b \in Backups, NEW r, "verifying" \in VerifyStatuses,
           Phase[b] \in {"success", "failed", "verifying"},
           r.status \in {"success", "failed", "verifying"},
           Phase' = [Phase EXCEPT ![b] = r.status]
    PROVE  Lifecycle!Next
<1>1. Lifecycle!Verify(b)
  BY DEF Lifecycle!Verify
<1> QED BY <1>1 DEF Lifecycle!Next

LEMMA LifecycleStep == IInv /\ [Next]_vars => [Lifecycle!Next]_Phase
<1> SUFFICES ASSUME IInv, [Next]_vars PROVE Lifecycle!Next \/ Phase' = Phase
  OBVIOUS
<1> USE DEF rowsVars
<1>a. StoreTypes /\ CallerTypes /\ CallerInv /\ WorkerInv
  BY DEF IInv, TypeOK
<1>b. \A x \in Backups : row[x] \in Row
  BY <1>a DEF StoreTypes
<1>1. ASSUME NEW s \in ManualSchedules, NEW k \in Kinds, NEW p \in Providers, StartBackup(s, k, p)
      PROVE  Lifecycle!Next
  BY <1>1, <1>a, PhaseCreate DEF StartBackup
<1>2. ASSUME last' = last, table' = table, row' = row PROVE Phase' = Phase
  BY <1>2, PhaseSame
<1>3. ASSUME NEW c \in Callers, NEW s \in Schedules, ExecuteBackup(c, s)
      PROVE  Lifecycle!Next \/ Phase' = Phase
  BY <1>3, <1>2, <1>a, PhaseCreate DEF ExecuteBackup
<1>4. ASSUME NEW b \in Backups, completeBackup(b) PROVE Lifecycle!Next \/ Phase' = Phase
  <2>1. Completed(b).status = "success"
    BY <1>b DEF Completed, Row
  <2>2. b \in table => row[b].status = "running"
    BY <1>4, <1>a DEF completeBackup, WorkerInv
  <2>3. \/ Phase' = Phase
        \/ b \in table /\ Phase[b] = row[b].status /\ Phase' = [Phase EXCEPT ![b] = Completed(b).status]
    BY <1>4, <1>a, CompletedType, PhaseUpdate DEF completeBackup
  <2> QED BY <2>1, <2>2, <2>3, PhaseSettles
<1>5. ASSUME NEW b \in Backups, failBackup(b) PROVE Lifecycle!Next \/ Phase' = Phase
  <2>1. Failed(b).status = "failed"
    BY <1>b DEF Failed, Row
  <2>2. b \in table => row[b].status = "running"
    BY <1>5, <1>a DEF failBackup, WorkerInv
  <2>3. \/ Phase' = Phase
        \/ b \in table /\ Phase[b] = row[b].status /\ Phase' = [Phase EXCEPT ![b] = Failed(b).status]
    BY <1>5, <1>a, FailedType, PhaseUpdate DEF failBackup
  <2> QED BY <2>1, <2>2, <2>3, PhaseSettles
<1>6. ASSUME NEW c \in Callers, MarkVerifying(c) PROVE Lifecycle!Next \/ Phase' = Phase
  <2>1. cur[c] \in Backups /\ (cur[c] \in table => row[cur[c]].status # "running")
    BY <1>6, <1>a, BoundsAssumption DEF MarkVerifying, CallerInv, CallerOk, StoreTypes, Backups
  <2>2. Marked(c).status = "verifying" /\ Marked(c).verify = "verifying"
    BY <1>a DEF Marked, CallerTypes, Row
  <2>3. \/ Phase' = Phase
        \/ /\ cur[c] \in table /\ Admitted(cur[c], Marked(c)) /\ Phase[cur[c]] = row[cur[c]].status
           /\ Phase' = [Phase EXCEPT ![cur[c]] = Marked(c).status]
    BY <1>6, <2>1, <1>a, MarkedType, PhaseUpdate DEF MarkVerifying
  <2>4. row[cur[c]].status \in Status
    BY <2>1, <1>b DEF Row
  <2> QED BY <2>1, <2>2, <2>3, <2>4, PhaseVerifies DEF Admitted, Status
<1>7. ASSUME NEW c \in Callers, ConcludeVerification(c) PROVE Lifecycle!Next \/ Phase' = Phase
  <2>1. /\ cur[c] \in Backups
        /\ cur[c] \in table => row[cur[c]].status # "running" /\ "verifying" \in VerifyStatuses
        /\ seen[c] \in Row /\ seen[c].status \in {"success", "failed"}
    BY <1>7, <1>a, BoundsAssumption
       DEF ConcludeVerification, CallerInv, CallerOk, CallerTypes, StoreTypes, Backups
  <2>2. \/ Phase' = Phase
        \/ /\ cur[c] \in table /\ Phase[cur[c]] = row[cur[c]].status
           /\ Phase' = [Phase EXCEPT ![cur[c]] = seen[c].status]
    BY <1>7, <2>1, <1>a, PhaseUpdate DEF ConcludeVerification
  <2>3. row[cur[c]].status \in Status
    BY <2>1, <1>b DEF Row
  <2> QED BY <2>1, <2>2, <2>3, PhaseVerifies DEF Status
<1>8. ASSUME NEW c \in Callers, Drop(c) PROVE Lifecycle!Next \/ Phase' = Phase
  <2>1. cur[c] \in Backups
    BY <1>8, <1>a, BoundsAssumption DEF Drop, CallerInv, CallerOk, StoreTypes, Backups
  <2>2. last' = last /\ row' = row /\ (table' = table \/ table' = table \ {cur[c]})
    BY <1>8 DEF Drop
  <2> QED BY <2>1, <2>2, <1>2, <1>a, PhaseDrop
<1>9. ASSUME NEW b \in Backups, AcquireSlot(b) \/ Pipeline(b) \/ NotifyAndRelease(b) PROVE Phase' = Phase
  BY <1>9, <1>2 DEF AcquireSlot, Pipeline, Upload, FailEarly, FailLate, NotifyAndRelease
<1>10. ASSUME NEW c \in Callers, NEW b \in Backups,
              UserDelete(c, b) \/ StartVerification(c, b) \/ StartRestore(c, b)
       PROVE  Phase' = Phase
  BY <1>10, <1>2 DEF UserDelete, StartVerification, StartRestore
<1>11. ASSUME NEW c \in Callers, Purge(c) \/ RetentionStep(c) \/ runVerification(c) \/ CreateRestore(c)
       PROVE  Phase' = Phase
  BY <1>11, <1>2 DEF Purge, RetentionStep, ListOld, Sweep, Swept, runVerification, CreateRestore
<1>12. CASE Crash \/ UNCHANGED vars
  BY <1>12, <1>2 DEF Crash, vars
<1> QED
  BY <1>1, <1>3, <1>4, <1>5, <1>6, <1>7, <1>8, <1>9, <1>10, <1>11, <1>12
  DEF Next, Request, WorkerStep, CallerStep, DeleteStep, VerifyStep, Waiting

\* The service implements BackupLifecycle: a settled backup changes only by
\* a verification that the schema admits, a deleted one never comes back.
THEOREM ImplementsLifecycle == Spec => LifecycleSpec
<1>1. Init => Lifecycle!Init
  BY DEF Init, Lifecycle!Init, Phase, Backups
<1> QED BY <1>1, LifecycleStep, Invariance, PTL DEF Spec, LifecycleSpec, Lifecycle!Spec
-----------------------------------------------------------------------------
(* What the table, the bucket and the notifications say of a backup.        *)

Unsettled == {"queued", "dumping", "uploaded", "early", "late"}
Verifying == {"mark", "check", "pass", "reject"}

\* What accounts for a successful backup without its object.
Explained(b) ==
    \/ \E c \in Callers : pc[c] = "drop" /\ cur[c] = b
    \/ b \in pinned \/ crashes > 0 \/ faults > 0

\* A worker of backup b has not announced a failure, nor is about to.
NotFailed(b) == work[b] \in {"succeeded", "ended"} /\ notified[b] # "failed"

\* A row the worker has not settled is as StartBackup left it, and from the
\* last Update on it agrees with what is announced and with the bucket.
Outcome(b) ==
    /\ work[b] # "ended" => notified[b] = "none"
    /\ b <= last => work[b] # "none"
    /\ b \in table =>
        /\ work[b] \in Unsettled => row[b].verify = "pending" /\ row[b].path = ""
        /\ work[b] = "uploaded" /\ (row[b].kind = "full" \/ ReportsKey) => object[b] = "complete"
        /\ "succeeded" \in {work[b], notified[b]} /\ faults = 0 =>
              \/ row[b].status \in {"success", "verifying"}
              \/ row[b].status = "failed" /\ row[b].verify = "failed"
        /\ "failed" \in {work[b], notified[b]} => row[b].status \in {"running", "failed"}
        /\ NotFailed(b) /\ row[b].path = "key" /\ object[b] # "complete" => Explained(b)

\* A verification works on a backup that has not failed, with the path the
\* row has; a Delete takes only objects of backups that have settled.
Copied(c) ==
    /\ pc[c] \in Verifying /\ cur[c] \in table =>
          NotFailed(cur[c]) /\ seen[c].path = row[cur[c]].path
    /\ pc[c] = "reject" => seen[c].verify = "failed"
    /\ pc[c] = "purge" /\ seen[c].path = "key" => work[cur[c]] \notin Unsettled

Outcomes == \A b \in Backups : Outcome(b)
Copies == \A c \in Callers : Copied(c)
OInv == IInv /\ Outcomes /\ Copies

LEMMA OutcomeInit == Init => Outcomes /\ Copies
<1>1. Init => Outcomes
  BY BoundsAssumption DEF Init, Outcomes, Outcome, Unsettled, NotFailed, Backups
<1>2. Init => Copies
  BY DEF Init, Copies, Copied, Verifying
<1> QED BY <1>1, <1>2

\* Pins, crashes and lost updates stay.
LEMMA ReasonsStay ==
    ASSUME IInv, [Next]_vars
    PROVE  pinned \subseteq pinned' /\ (faults > 0 => faults' > 0) /\ (crashes > 0 => crashes' > 0)
<1> USE DEF rowsVars
<1>a. faults \in Nat /\ crashes \in Nat
  BY BoundsAssumption DEF IInv, TypeOK, StoreTypes
<1>1. ASSUME NEW s \in ManualSchedules, NEW k \in Kinds, NEW p \in Providers, StartBackup(s, k, p)
      PROVE  UNCHANGED <<pinned, faults, crashes>>
  BY <1>1 DEF StartBackup
<1>2. ASSUME NEW b \in Backups, AcquireSlot(b) \/ Pipeline(b) \/ NotifyAndRelease(b)
      PROVE  UNCHANGED <<pinned, faults, crashes>>
  BY <1>2 DEF AcquireSlot, Pipeline, Upload, FailEarly, FailLate, NotifyAndRelease
<1>3. ASSUME NEW b \in Backups, completeBackup(b) \/ failBackup(b)
      PROVE  UNCHANGED <<pinned, crashes>> /\ (faults > 0 => faults' > 0)
  BY <1>3, <1>a DEF completeBackup, failBackup, UpdateOk, UpdateErr
<1>4. ASSUME NEW c \in Callers, Request(c) PROVE UNCHANGED <<pinned, faults, crashes>>
  BY <1>4 DEF Request, UserDelete, StartVerification, StartRestore, ExecuteBackup
<1>5. ASSUME NEW c \in Callers, DeleteStep(c) \/ RetentionStep(c) \/ VerifyStep(c) \/ CreateRestore(c)
      PROVE  pinned \subseteq pinned' /\ (faults > 0 => faults' > 0) /\ crashes' = crashes
  <2>1. CASE DeleteStep(c)
    BY <2>1, <1>a DEF DeleteStep, Purge, Drop
  <2>2. CASE RetentionStep(c)
    BY <2>2, <1>a DEF RetentionStep, ListOld, Sweep, Swept
  <2>3. CASE VerifyStep(c)
    BY <2>3, <1>a DEF VerifyStep, MarkVerifying, runVerification, ConcludeVerification, UpdateOk, UpdateErr
  <2>4. CASE CreateRestore(c)
    BY <2>4, <1>a DEF CreateRestore
  <2> QED BY <1>5, <2>1, <2>2, <2>3, <2>4
<1>6. CASE Crash \/ UNCHANGED vars
  BY <1>6, <1>a DEF Crash, vars
<1> QED BY <1>a, <1>1, <1>2, <1>3, <1>4, <1>5, <1>6 DEF Next, WorkerStep, CallerStep, Waiting

\* The Delete that accounts for a lost object ends with the row, or with a
\* reason why the row is still there.
LEMMA ExplanationStays ==
    ASSUME IInv, [Next]_vars, NEW b \in table, b \in table', Explained(b)
    PROVE  Explained(b)'
<1>a. StoreTypes /\ CallerTypes /\ faults \in Nat /\ crashes \in Nat
  BY BoundsAssumption DEF IInv, TypeOK, StoreTypes
<1>1. CASE b \in pinned \/ crashes > 0 \/ faults > 0
  BY <1>1, <1>a, ReasonsStay DEF Explained
<1>2. ASSUME NEW c \in Callers, pc[c] = "drop", cur[c] = b PROVE Explained(b)'
  <2>1. ASSUME NEW d \in Callers, d # c, CallerAction(d) PROVE Explained(b)'
    BY <1>2, <2>1, <1>a, OthersUntouched DEF Untouched, Explained
  <2>2. CASE CallerAction(c)
    <3>1. Drop(c)
      BY <1>2, <2>2 DEF CallerAction, CallerStep, DeleteStep, Purge, RetentionStep, ListOld, Sweep, Swept,
         VerifyStep, MarkVerifying, runVerification, ConcludeVerification, CreateRestore,
         UserDelete, StartVerification, StartRestore, ExecuteBackup
    <3>2. b \in pinned \/ faults' > 0
      BY <1>2, <3>1, <1>a DEF Drop
    <3> QED BY <3>2, ReasonsStay DEF Explained
  <2>3. CASE UNCHANGED callerVars
    BY <1>2, <2>3 DEF Explained, callerVars
  <2>4. CASE Crash
    BY <2>4, <1>a DEF Crash, Explained
  <2> QED BY <2>1, <2>2, <2>3, <2>4, NonCallerStep
<1> QED BY <1>1, <1>2 DEF Explained

\* A backup that a step does not concern.
LEMMA OutcomeFrame ==
    ASSUME OInv, [Next]_vars, NEW b \in Backups,
           b <= last' => b <= last, b \in table' => b \in table,
           work'[b] = work[b], notified'[b] = notified[b], row'[b] = row[b], object'[b] = object[b]
    PROVE  Outcome(b)'
<1>1. Outcome(b) /\ (faults' = 0 => faults = 0)
  BY ReasonsStay, BoundsAssumption DEF OInv, Outcomes, IInv, TypeOK, StoreTypes
<1>2. b \in table' /\ Explained(b) => Explained(b)'
  BY ExplanationStays DEF OInv
<1> QED BY <1>1, <1>2 DEF Outcome, NotFailed

LEMMA OutcomeCreate ==
    ASSUME OInv, [Next]_vars, NEW s, NEW k, NEW p, CreateBackup(s, k, p), UNCHANGED <<object, notified>>
    PROVE  Outcomes'
<1>a. StoreTypes /\ WorkerTypes /\ WorkerInv /\ Outcomes /\ last \in Nat
  BY DEF OInv, IInv, TypeOK, StoreTypes
<1>b. PICK n \in Backups : n = last + 1
  BY <1>a, BoundsAssumption DEF CreateBackup, Backups
<1>1. /\ last' = n /\ table' = table \cup {n} /\ row'[n] = NewRow(s, k, p) /\ work'[n] = "queued"
      /\ \A x \in Backups \ {n} : row'[x] = row[x] /\ work'[x] = work[x]
  BY <1>a, <1>b DEF CreateBackup, StoreTypes, WorkerTypes
<1>2. notified[n] = "none"
  <2>1. n > last /\ Outcome(n)
    BY <1>a, <1>b DEF Outcomes
  <2>2. work[n] = "none"
    BY <1>a, <2>1 DEF WorkerInv
  <2> QED BY <2>1, <2>2 DEF Outcome
<1>3. NewRow(s, k, p).verify = "pending" /\ NewRow(s, k, p).path = ""
  BY DEF NewRow
<1>4. Outcome(n)'
  BY <1>1, <1>2, <1>3 DEF Outcome, Unsettled, NotFailed
<1>5. ASSUME NEW x \in Backups \ {n} PROVE Outcome(x)'
  <2>1. x <= last' => x <= last
    BY <1>a, <1>b, <1>1 DEF Backups
  <2> QED BY <1>1, <2>1, OutcomeFrame
<1> QED BY <1>4, <1>5 DEF Outcomes

\* The steps of the worker of b before its last Update.
LEMMA OutcomePipeline ==
    ASSUME OInv, [Next]_vars, NEW b \in Backups, AcquireSlot(b) \/ Pipeline(b)
    PROVE  Outcomes'
<1>a. StoreTypes /\ WorkerTypes /\ Outcomes
  BY DEF OInv, IInv, TypeOK
<1>1. /\ UNCHANGED <<last, table, row, notified>>
      /\ \A x \in Backups \ {b} : work'[x] = work[x] /\ object'[x] = object[x]
      /\ work[b] \in Unsettled /\ work'[b] \in Unsettled
      /\ work'[b] = "uploaded" /\ (row[b].kind = "full" \/ ReportsKey) => object'[b] = "complete"
  BY <1>a DEF AcquireSlot, Pipeline, Upload, FailEarly, FailLate, rowsVars, StoreTypes, WorkerTypes, Unsettled
<1>2. Outcome(b)'
  BY <1>1, <1>a DEF Outcomes, Outcome, Unsettled, NotFailed
<1>3. ASSUME NEW x \in Backups \ {b} PROVE Outcome(x)'
  BY <1>1, OutcomeFrame
<1> QED BY <1>2, <1>3 DEF Outcomes

\* completeBackup: the CHECK admits the row, so that only a database error
\* can keep the success out of it; its object is complete.
LEMMA OutcomeComplete ==
    ASSUME OInv, [Next]_vars, NEW b \in Backups, completeBackup(b)
    PROVE  Outcomes'
<1>a. StoreTypes /\ WorkerTypes /\ Outcome(b) /\ row[b] \in Row /\ b \in Backups
  BY DEF OInv, IInv, TypeOK, StoreTypes, Outcomes
<1>1. /\ UNCHANGED <<last, table, pinned, object, notified>> /\ work[b] = "uploaded"
      /\ work'[b] = "succeeded"
      /\ UpdateOk(b, Completed(b)) \/ UpdateErr(b, Completed(b))
      /\ \A x \in Backups \ {b} : work'[x] = work[x] /\ row'[x] = row[x]
  BY <1>a DEF completeBackup, UpdateOk, UpdateErr, StoreTypes, WorkerTypes
<1>2. notified[b] = "none" /\ notified'[b] = "none"
  BY <1>1, <1>a DEF Outcome
<1>3. /\ Completed(b).status = "success" /\ Completed(b).verify = row[b].verify
      /\ Completed(b).path = "key" => row[b].kind = "full" \/ ReportsKey
  BY <1>a DEF Completed, Row
<1>3a. /\ Written(b, Completed(b)).status = Completed(b).status
       /\ Written(b, Completed(b)).path = Completed(b).path
  BY <1>a, CompletedType, WrittenRow
<1>4. ASSUME b \in table PROVE Outcome(b)'
  <2>1. row[b].verify = "pending" /\ row[b].path = "" /\ (row[b].kind = "full" \/ ReportsKey => object[b] = "complete")
    BY <1>1, <1>4, <1>a DEF Outcome, Unsettled
  <2>2. Admitted(b, Completed(b))
    BY <1>3, <2>1, StatusAssumption DEF Admitted
  <2>3. CASE UpdateOk(b, Completed(b))
    <3>1. row'[b].status = Completed(b).status /\ row'[b].path = Completed(b).path
      BY <1>4, <1>a, <1>3a, <2>3 DEF UpdateOk, StoreTypes
    <3>2. row'[b].status = "success" /\ (row'[b].path = "key" => object'[b] = "complete")
      BY <1>1, <1>3, <2>1, <3>1
    <3> HIDE DEF Completed
    <3> QED BY <1>1, <1>2, <3>2 DEF Outcome, Unsettled
  <2>4. CASE UpdateErr(b, Completed(b))
    <3>1. row'[b] = row[b] /\ faults' # 0
      BY <1>a, <2>2, <2>4 DEF UpdateErr, StoreTypes
    <3> QED BY <1>1, <1>2, <2>1, <3>1 DEF Outcome, Unsettled
  <2> QED BY <1>1, <2>3, <2>4
<1>5. ASSUME b \notin table PROVE Outcome(b)'
  BY <1>1, <1>2, <1>5 DEF Outcome
<1>6. ASSUME NEW x \in Backups \ {b} PROVE Outcome(x)'
  BY <1>1, OutcomeFrame
<1> QED BY <1>4, <1>5, <1>6 DEF Outcomes

LEMMA OutcomeFail ==
    ASSUME OInv, [Next]_vars, NEW b \in Backups, failBackup(b)
    PROVE  Outcomes'
<1>a. StoreTypes /\ WorkerTypes /\ WorkerInv /\ Outcome(b) /\ row[b] \in Row
  BY DEF OInv, IInv, TypeOK, StoreTypes, Outcomes
<1>1. /\ UNCHANGED <<last, table, pinned, object, notified>> /\ work[b] \in {"early", "late"}
      /\ work'[b] = "failed"
      /\ \A x \in Backups \ {b} : work'[x] = work[x] /\ row'[x] = row[x]
  BY <1>a DEF failBackup, UpdateOk, UpdateErr, StoreTypes, WorkerTypes
<1>2. notified[b] = "none" /\ notified'[b] = "none"
  BY <1>1, <1>a DEF Outcome
<1>3. b \in table => row'[b].status \in {"running", "failed"}
  <2>1. b \in table => row[b].status = "running"
    BY <1>1, <1>a DEF WorkerInv
  <2>2. Failed(b).status = "failed"
    BY <1>a DEF Failed, Row
  <2>3. row'[b] = row[b] \/ row'[b] = Written(b, Failed(b))
    BY <1>a DEF failBackup, UpdateOk, UpdateErr, StoreTypes
  <2>4. Written(b, Failed(b)).status = Failed(b).status
    BY <1>a, FailedType, WrittenRow
  <2> QED BY <2>1, <2>2, <2>3, <2>4
<1>4. Outcome(b)'
  BY <1>1, <1>2, <1>3 DEF Outcome, Unsettled, NotFailed
<1>5. ASSUME NEW x \in Backups \ {b} PROVE Outcome(x)'
  BY <1>1, OutcomeFrame
<1> QED BY <1>4, <1>5 DEF Outcomes

LEMMA OutcomeNotify ==
    ASSUME OInv, [Next]_vars, NEW b \in Backups, NotifyAndRelease(b)
    PROVE  Outcomes'
<1>a. StoreTypes /\ WorkerTypes /\ Outcome(b)
  BY DEF OInv, IInv, TypeOK, Outcomes
<1>1. /\ UNCHANGED <<last, table, row, pinned, object, faults, crashes, pc, cur>>
      /\ work[b] \in {"succeeded", "failed"} /\ work'[b] = "ended" /\ notified'[b] = work[b]
      /\ \A x \in Backups \ {b} : work'[x] = work[x] /\ notified'[x] = notified[x]
  BY <1>a DEF NotifyAndRelease, rowsVars, callerVars, WorkerTypes
<1>2. notified[b] = "none"
  BY <1>1, <1>a DEF Outcome
<1>3. Outcome(b)'
  BY <1>1, <1>2, <1>a DEF Outcome, Unsettled, NotFailed, Explained
<1>4. ASSUME NEW x \in Backups \ {b} PROVE Outcome(x)'
  BY <1>1, OutcomeFrame
<1> QED BY <1>3, <1>4 DEF Outcomes

\* Purge of an object: only of a backup that has settled, and its Delete is
\* at work.
LEMMA OutcomePurge ==
    ASSUME OInv, [Next]_vars, NEW c \in Callers, Purge(c)
    PROVE  Outcomes'
<1>a. StoreTypes /\ CallerTypes /\ Copied(c) /\ Outcomes /\ cur[c] \in Backups
  BY BoundsAssumption DEF OInv, IInv, TypeOK, StoreTypes, CallerInv, CallerOk, Copies, Purge, Backups
<1>1. /\ UNCHANGED <<last, table, row, pinned, work, notified, faults, crashes, cur>>
      /\ pc[c] = "purge" /\ pc'[c] = "drop"
      /\ \A x \in Backups \ {cur[c]} : object'[x] = object[x]
      /\ object' = object \/ seen[c].path = "key"
  BY <1>a DEF Purge, Goto, rowsVars, workerVars, StoreTypes, CallerTypes
<1>2. PICK b \in Backups : b = cur[c]
  BY <1>a
<1>3. ASSUME NEW x \in Backups, x # b \/ object' = object PROVE Outcome(x)'
  BY <1>1, <1>2, <1>3, OutcomeFrame
<1>4. ASSUME object' # object PROVE Outcome(b)'
  <2>1. work[b] \notin Unsettled
    BY <1>1, <1>2, <1>4, <1>a DEF Copied
  <2>2. Explained(b)'
    BY <1>1, <1>2 DEF Explained
  <2>3. Outcome(b)
    BY <1>a DEF Outcomes
  <2> QED BY <1>1, <2>1, <2>2, <2>3 DEF Outcome, Unsettled, NotFailed
<1> QED BY <1>3, <1>4 DEF Outcomes

\* What a verification writes: the path stays, and the verdict is explained.
LEMMA OutcomeVerify ==
    ASSUME OInv, [Next]_vars, NEW c \in Callers, MarkVerifying(c) \/ ConcludeVerification(c)
    PROVE  Outcomes'
<1>a. StoreTypes /\ CallerTypes /\ Copied(c) /\ CallerOk(c) /\ Outcomes /\ cur[c] \in Backups
  BY BoundsAssumption DEF OInv, IInv, TypeOK, StoreTypes, CallerInv, CallerOk, Copies, MarkVerifying,
     ConcludeVerification, Backups
<1>b. PICK b \in Backups : b = cur[c]
  BY <1>a
<1> DEFINE r == IF pc[c] = "mark" THEN Marked(c) ELSE seen[c]
<1>1. /\ UNCHANGED <<last, table, pinned, object, work, notified>> /\ pc[c] \in {"mark", "pass", "reject"}
      /\ UpdateOk(b, r) \/ UpdateErr(b, r)
  BY <1>b DEF MarkVerifying, ConcludeVerification, workerVars
<1>2. \/ r.status \in {"success", "verifying"}
      \/ r.status = "failed" /\ r.verify = "failed"
  BY <1>1, <1>a DEF CallerOk, Copied, Marked, CallerTypes, Row
<1>3. r.path = seen[c].path
  BY <1>a DEF Marked, CallerTypes, Row
<1>3b. r \in Row
  BY <1>a, MarkedType DEF CallerTypes
<1> HIDE DEF r
<1> DEFINE w == Written(b, r)
<1>3a. w.status = r.status /\ w.verify = r.verify /\ w.path = r.path
  BY <1>a, <1>3b, WrittenRow
<1>4. row' = row \/ (b \in table /\ row' = [row EXCEPT ![b] = w])
  BY <1>1 DEF UpdateOk, UpdateErr
<1> HIDE DEF w
<1>5. ASSUME NEW x \in Backups, x # b \/ row' = row PROVE Outcome(x)'
  <2>1. row'[x] = row[x]
    BY <1>4, <1>5, <1>a DEF StoreTypes
  <2> QED BY <1>1, <2>1, OutcomeFrame
<1>6. ASSUME b \in table, row' = [row EXCEPT ![b] = w] PROVE Outcome(b)'
  <2>1. row'[b].status = r.status /\ row'[b].verify = r.verify /\ row'[b].path = r.path
    BY <1>6, <1>a, <1>3a DEF StoreTypes
  <2>2. NotFailed(b) /\ row'[b].path = row[b].path
    BY <1>1, <1>3, <1>6, <1>b, <1>a, <2>1 DEF Copied, Verifying
  <2>3. Outcome(b) /\ (Explained(b) => Explained(b)')
    BY <1>1, <1>6, <1>a, ExplanationStays DEF Outcomes, OInv
  <2> QED BY <1>1, <1>2, <2>1, <2>2, <2>3 DEF Outcome, Unsettled, NotFailed
<1> QED BY <1>4, <1>5, <1>6 DEF Outcomes

LEMMA OutcomeCrash == ASSUME OInv, [Next]_vars, Crash PROVE Outcomes'
<1>a. StoreTypes /\ WorkerTypes /\ Outcomes /\ crashes \in Nat
  BY BoundsAssumption DEF OInv, IInv, TypeOK, StoreTypes
<1>1. /\ UNCHANGED <<last, table, row, pinned, object, notified, faults>> /\ crashes' > 0
      /\ \A x \in Backups : work'[x] = IF work[x] = "none" THEN "none" ELSE "ended"
  BY <1>a DEF Crash, rowsVars
<1>2. ASSUME NEW x \in Backups PROVE Outcome(x)'
  <2>1. Outcome(x)
    BY <1>a DEF Outcomes
  <2>2. Explained(x)'
    BY <1>1 DEF Explained
  <2> QED BY <1>1, <2>1, <2>2 DEF Outcome, Unsettled, NotFailed
<1> QED BY <1>2 DEF Outcomes

LEMMA OutcomeStep == OInv /\ [Next]_vars => Outcomes'
<1> SUFFICES ASSUME OInv, [Next]_vars PROVE Outcomes'
  OBVIOUS
<1>1. ASSUME NEW s \in ManualSchedules, NEW k \in Kinds, NEW p \in Providers, StartBackup(s, k, p)
      PROVE  Outcomes'
  BY <1>1, OutcomeCreate DEF StartBackup
<1>2. ASSUME UNCHANGED <<last, row, work, notified, object>>, table' \subseteq table PROVE Outcomes'
  BY <1>2, OutcomeFrame DEF Outcomes
<1>3. ASSUME NEW c \in Callers, NEW s \in Schedules, ExecuteBackup(c, s) PROVE Outcomes'
  BY <1>2, <1>3, OutcomeCreate DEF ExecuteBackup
<1>4. ASSUME NEW b \in Backups, WorkerStep(b) PROVE Outcomes'
  BY <1>4, OutcomePipeline, OutcomeComplete, OutcomeFail, OutcomeNotify DEF WorkerStep
<1>5. ASSUME NEW c \in Callers, NEW b \in Backups,
             UserDelete(c, b) \/ StartVerification(c, b) \/ StartRestore(c, b)
      PROVE  Outcomes'
  BY <1>2, <1>5 DEF UserDelete, StartVerification, StartRestore, rowsVars, workerVars
<1>6. ASSUME NEW c \in Callers, Drop(c) \/ RetentionStep(c) \/ runVerification(c) \/ CreateRestore(c)
      PROVE  Outcomes'
  BY <1>2, <1>6 DEF Drop, RetentionStep, ListOld, Sweep, Swept, runVerification, CreateRestore,
     rowsVars, workerVars
<1>7. CASE UNCHANGED vars
  BY <1>2, <1>7 DEF vars, rowsVars, workerVars
<1> QED
  BY <1>1, <1>3, <1>4, <1>5, <1>6, <1>7, OutcomePurge, OutcomeVerify, OutcomeCrash
  DEF Next, Request, CallerStep, DeleteStep, VerifyStep, Waiting

\* What any step keeps of a backup for the callers that have read it.
WorkMono ==
    \A b \in 1 .. last :
        /\ work'[b] \in Unsettled => work[b] \in Unsettled
        /\ b \in table' => b \in table
        /\ NotFailed(b) => NotFailed(b)' /\ (b \in table' => row'[b].path = row[b].path)

LEMMA WorkSame ==
    ASSUME UNCHANGED <<last, row, work, notified>>, table' \subseteq table PROVE WorkMono
BY DEF WorkMono, NotFailed

LEMMA WorkCreate ==
    ASSUME StoreTypes, WorkerTypes, NEW s, NEW k, NEW p, CreateBackup(s, k, p), notified' = notified
    PROVE  WorkMono
<1>1. \A b \in 1 .. last : b # last + 1 /\ b \in Backups
  BY BoundsAssumption DEF StoreTypes, Backups
<1>2. \A b \in 1 .. last : work'[b] = work[b] /\ row'[b] = row[b] /\ (b \in table' => b \in table)
  BY <1>1 DEF CreateBackup, StoreTypes, WorkerTypes
<1> QED BY <1>2 DEF WorkMono, NotFailed

LEMMA WorkMonoStep == OInv /\ [Next]_vars => WorkMono
<1> SUFFICES ASSUME OInv, [Next]_vars PROVE WorkMono
  OBVIOUS
<1> USE DEF rowsVars, workerVars
<1>a. StoreTypes /\ WorkerTypes /\ CallerTypes /\ Outcomes
  BY DEF OInv, IInv, TypeOK
<1>1. ASSUME NEW s \in ManualSchedules, NEW k \in Kinds, NEW p \in Providers, StartBackup(s, k, p)
      PROVE  WorkMono
  BY <1>1, <1>a, WorkCreate DEF StartBackup
<1>2. ASSUME NEW c \in Callers, NEW s \in Schedules, ExecuteBackup(c, s) PROVE WorkMono
  BY <1>2, <1>a, WorkCreate, WorkSame DEF ExecuteBackup
<1>3. ASSUME NEW b \in Backups, WorkerStep(b) PROVE WorkMono
  <2>1. /\ UNCHANGED <<last, table>>
        /\ \A x \in Backups \ {b} : work'[x] = work[x] /\ notified'[x] = notified[x] /\ row'[x] = row[x]
    BY <1>3, <1>a DEF WorkerStep, AcquireSlot, Pipeline, Upload, FailEarly, FailLate, completeBackup, failBackup,
       NotifyAndRelease, UpdateOk, UpdateErr, StoreTypes, WorkerTypes
  <2>2. /\ work[b] \in Unsettled \cup {"succeeded", "failed"}
        /\ work'[b] \in Unsettled => work[b] \in Unsettled
        /\ work[b] = "succeeded" => work'[b] = "ended" /\ notified'[b] = "succeeded" /\ row' = row
    BY <1>3, <1>a DEF WorkerStep, AcquireSlot, Pipeline, Upload, FailEarly, FailLate, completeBackup, failBackup,
       NotifyAndRelease, WorkerTypes, Unsettled
  <2>3. \A x \in 1 .. last : x \in Backups
    BY <1>a, BoundsAssumption DEF StoreTypes, Backups
  <2>4. ASSUME NEW x \in 1 .. last, x # b
        PROVE  work'[x] = work[x] /\ notified'[x] = notified[x] /\ row'[x] = row[x]
    BY <2>1, <2>3, <2>4
  <2> QED BY <2>1, <2>2, <2>4 DEF WorkMono, NotFailed, Unsettled
<1>4. ASSUME NEW c \in Callers, NEW b \in Backups,
             UserDelete(c, b) \/ StartVerification(c, b) \/ StartRestore(c, b)
      PROVE  WorkMono
  BY <1>4, WorkSame DEF UserDelete, StartVerification, StartRestore
<1>5. ASSUME NEW c \in Callers, DeleteStep(c) \/ RetentionStep(c) \/ runVerification(c) \/ CreateRestore(c)
      PROVE  WorkMono
  BY <1>5, WorkSame DEF DeleteStep, Purge, Drop, RetentionStep, ListOld, Sweep, Swept, runVerification, CreateRestore
<1>6. ASSUME NEW c \in Callers, MarkVerifying(c) \/ ConcludeVerification(c) PROVE WorkMono
  <2>1. UNCHANGED <<last, table, work, notified>> /\ pc[c] \in Verifying
    BY <1>6 DEF MarkVerifying, ConcludeVerification, Verifying
  <2>2. Marked(c).path = seen[c].path
    BY <1>a DEF CallerTypes, Marked, Row
  <2>3. cur[c] \in table => seen[c].path = row[cur[c]].path
    BY <2>1 DEF OInv, Copies, Copied
  <2>4. \A x \in table : row'[x].path = row[x].path
    <3>1. \/ row' = row
          \/ cur[c] \in table /\ \E r : r.path = seen[c].path /\ row' = [row EXCEPT ![cur[c]] = r]
      <4>1. cur[c] \in Backups /\ seen[c] \in Row /\ Marked(c) \in Row
        BY <1>a, <2>1, MarkedType, BoundsAssumption
           DEF OInv, IInv, CallerInv, CallerOk, CallerTypes, StoreTypes, Backups, Verifying
      <4>2. /\ Written(cur[c], seen[c]).path = seen[c].path
            /\ Written(cur[c], Marked(c)).path = seen[c].path
        BY <1>a, <2>2, <4>1, WrittenRow
      <4> QED BY <1>6, <4>2 DEF MarkVerifying, ConcludeVerification, UpdateOk, UpdateErr
    <3>2. \A x \in table : x \in Backups
      BY <1>a, BoundsAssumption DEF StoreTypes, Backups
    <3> QED BY <1>a, <2>3, <3>1, <3>2 DEF StoreTypes
  <2> QED BY <2>1, <2>4 DEF WorkMono, NotFailed
<1>7. CASE Crash
  <2>1. \A b \in 1 .. last : b \in Backups
    BY <1>a, BoundsAssumption DEF StoreTypes, Backups
  <2> QED BY <1>7, <2>1 DEF Crash, WorkMono, NotFailed, Unsettled
<1>8. CASE UNCHANGED vars
  BY <1>8, WorkSame DEF vars
<1> QED
  BY <1>1, <1>2, <1>3, <1>4, <1>5, <1>6, <1>7, <1>8
  DEF Next, Request, CallerStep, VerifyStep, Waiting

\* A caller that takes no step keeps its copy.
LEMMA CopiedFrame ==
    ASSUME OInv, WorkMono, NEW c \in Callers, pc'[c] = pc[c], cur'[c] = cur[c], seen'[c] = seen[c]
    PROVE  Copied(c)'
<1>1. PICK b : b = cur[c]
  OBVIOUS
<1>2. pc[c] \in Verifying \cup {"purge"} => b \in 1 .. last
  BY <1>1 DEF OInv, IInv, CallerInv, CallerOk, Verifying
<1>3. Copied(c)
  BY DEF OInv, Copies
<1> QED BY <1>1, <1>2, <1>3 DEF WorkMono, Copied, Verifying

LEMMA CopiedActs ==
    ASSUME OInv, WorkMono, NEW c \in Callers, CallerAction(c) PROVE Copied(c)'
<1> USE DEF rowsVars, workerVars
<1>a. StoreTypes /\ WorkerTypes /\ CallerTypes /\ WorkerInv /\ CallerOk(c) /\ Outcomes /\ Copied(c)
  BY DEF OInv, IInv, TypeOK, CallerInv, Copies
<1>b. \A b \in table : b \in Backups /\ b <= last
  BY <1>a, BoundsAssumption DEF StoreTypes, Backups
<1>1. ASSUME NEW b \in table, Read(c, b, "purge"), UNCHANGED work PROVE Copied(c)'
  <2>1. pc'[c] = "purge" /\ cur'[c] = b /\ seen'[c] = row[b]
    BY <1>1, <1>a DEF Read, CallerTypes
  <2>2. work[b] \in Unsettled => row[b].path = ""
    BY <1>a, <1>b DEF Outcomes, Outcome
  <2> QED BY <1>1, <2>1, <2>2 DEF Copied, Verifying
<1>2. ASSUME NEW b \in Backups, StartVerification(c, b) PROVE Copied(c)'
  <2>1. /\ b \in table /\ row[b].status = "success" /\ UNCHANGED <<table, row, work, notified>>
        /\ pc'[c] = "mark" /\ cur'[c] = b /\ seen'[c] = row[b]
    BY <1>2, <1>a DEF StartVerification, Read, CallerTypes
  <2>2. NotFailed(b)
    <3>1. Outcome(b) /\ b <= last
      BY <1>a, <1>b, <2>1 DEF Outcomes
    <3>2. work[b] \notin Unsettled
      BY <1>a, <2>1 DEF WorkerInv, Unsettled
    <3> QED BY <1>a, <2>1, <3>1, <3>2 DEF Outcome, NotFailed, Unsettled, WorkerTypes, Work
  <2> QED BY <2>1, <2>2 DEF Copied, NotFailed
<1>3. ASSUME pc'[c] \in {"idle", "list", "sweep", "drop", "pin"} PROVE Copied(c)'
  BY <1>3 DEF Copied, Verifying
<1>4. CASE DeleteStep(c)
  BY <1>3, <1>4, <1>a DEF DeleteStep, Purge, Goto, Drop, Deleted, Return, CallerTypes
<1>5. CASE RetentionStep(c)
  <2>1. CASE ListOld(c) \/ Swept(c)
    BY <1>3, <1>a, <2>1 DEF ListOld, Swept, Return, CallerTypes
  <2>2. CASE Sweep(c)
    BY <1>1, <1>3, <1>a, <2>2 DEF Sweep, CallerTypes
  <2> QED BY <1>5, <2>1, <2>2 DEF RetentionStep
<1>6. CASE MarkVerifying(c)
  <2>1. pc[c] = "mark" /\ UNCHANGED <<table, work, notified>>
    BY <1>6 DEF MarkVerifying
  <2>2. CASE Return(c)
    BY <1>3, <1>a, <2>2 DEF Return, CallerTypes
  <2>3. CASE /\ UpdateOk(cur[c], Marked(c)) /\ pc' = [pc EXCEPT ![c] = "check"]
             /\ seen' = [seen EXCEPT ![c] = Marked(c)] /\ UNCHANGED cur
    <3>1. pc'[c] = "check" /\ cur'[c] = cur[c] /\ seen'[c] = Marked(c)
      BY <1>a, <2>3 DEF CallerTypes
    <3>2. cur[c] \in table => NotFailed(cur[c]) /\ row'[cur[c]].path = seen'[c].path
      <4>1. cur[c] \in table => Written(cur[c], Marked(c)).path = Marked(c).path
        <5>1. Marked(c) \in Row
          BY <1>a, MarkedType
        <5> QED BY <1>a, <1>b, <5>1, WrittenRow
      <4>2. cur[c] \in table => row'[cur[c]].path = Marked(c).path
        BY <1>a, <1>b, <2>3, <4>1 DEF UpdateOk, StoreTypes
      <4> QED BY <1>a, <2>1, <3>1, <4>2 DEF Copied, Verifying
    <3> QED BY <2>1, <3>1, <3>2 DEF Copied, NotFailed
  <2> QED BY <1>6, <2>2, <2>3 DEF MarkVerifying
<1>7. CASE runVerification(c)
  <2>1. /\ pc[c] = "check" /\ cur'[c] = cur[c] /\ UNCHANGED <<table, row, work, notified>>
        /\ \/ pc'[c] = "pass" /\ seen'[c] = Passed(c)
           \/ pc'[c] = "reject" /\ seen'[c] = Rejected(c)
    BY <1>7, <1>a DEF runVerification, CallerTypes
  <2>2. Passed(c).path = seen[c].path /\ Rejected(c).path = seen[c].path /\ Rejected(c).verify = "failed"
    BY <1>a DEF Passed, Rejected, CallerTypes, Row
  <2>3. seen'[c].path = seen[c].path /\ (pc'[c] = "reject" => seen'[c].verify = "failed") /\ pc'[c] \in {"pass", "reject"}
    BY <2>1, <2>2
  <2> QED BY <1>a, <2>1, <2>3 DEF Copied, Verifying, NotFailed
<1>8. CASE ConcludeVerification(c) \/ CreateRestore(c)
  BY <1>3, <1>8, <1>a DEF ConcludeVerification, CreateRestore, Return, CallerTypes
<1>9. ASSUME NEW b \in Backups, UserDelete(c, b) PROVE Copied(c)'
  BY <1>1, <1>9 DEF UserDelete
<1>10. ASSUME NEW b \in Backups, StartRestore(c, b) PROVE Copied(c)'
  BY <1>3, <1>10, <1>a DEF StartRestore, Read, CallerTypes
<1>11. ASSUME NEW s \in Schedules, ExecuteBackup(c, s) PROVE Copied(c)'
  BY <1>3, <1>11, <1>a DEF ExecuteBackup, CallerTypes
<1> QED BY <1>2, <1>4, <1>5, <1>6, <1>7, <1>8, <1>9, <1>10, <1>11 DEF CallerAction, CallerStep, VerifyStep

LEMMA CopiesStep == OInv /\ [Next]_vars => Copies'
<1> SUFFICES ASSUME OInv, [Next]_vars, NEW d \in Callers PROVE Copied(d)'
  BY DEF Copies
<1>a. CallerTypes /\ WorkMono
  BY WorkMonoStep DEF OInv, IInv, TypeOK
<1>1. ASSUME NEW c \in Callers, CallerAction(c) PROVE Copied(d)'
  <2>1. CASE d = c
    BY <1>1, <1>a, <2>1, CopiedActs
  <2>2. CASE d # c
    BY <1>1, <1>a, <2>2, OthersUntouched, CopiedFrame DEF Untouched
  <2> QED BY <2>1, <2>2
<1>2. CASE UNCHANGED callerVars
  BY <1>2, <1>a, CopiedFrame DEF callerVars
<1>3. CASE Crash
  BY <1>3 DEF Crash, Copied, Verifying
<1> QED BY <1>1, <1>2, <1>3, NonCallerStep

\* OInv holds in every reachable state: it adds to IInv what the table, the
\* bucket and the notifications say of the same backup.
THEOREM OutcomeInvariance == Spec => []OInv
<1>1. Init => OInv
  BY InitInv, OutcomeInit DEF OInv
<1>2. OInv /\ [Next]_vars => OInv'
  <2> SUFFICES ASSUME OInv, [Next]_vars PROVE OInv'
    OBVIOUS
  <2>1. IInv'
    BY TypeStep, SlotStep, WorkerInvStep, CallerInvStep, RetentionInvStep DEF OInv, IInv
  <2> QED BY <2>1, OutcomeStep, CopiesStep DEF OInv
<1> QED BY <1>1, <1>2, PTL DEF Spec

\* A row that says success and has lost its object (Delete removes the object
\* first) has a Delete at work, a restore that pins it, a crash or an error.
THEOREM LossExplained == Spec => []LostObjectExplained
<1>1. OInv => LostObjectExplained
  <2> SUFFICES ASSUME OInv, NEW b \in table, row[b].status \in {"success", "verifying"}, row[b].path = "key",
                      object[b] # "complete"
               PROVE  Explained(b)
    BY DEF LostObjectExplained, Explained
  <2>1. b \in Backups /\ b <= last /\ Outcome(b) /\ work[b] \in Work
    BY BoundsAssumption DEF OInv, IInv, TypeOK, StoreTypes, WorkerTypes, Outcomes, Backups
  <2>2. work[b] \notin Unsettled
    BY <2>1 DEF OInv, IInv, WorkerInv, Unsettled
  <2> QED BY <2>1, <2>2 DEF Outcome, NotFailed, Unsettled, Work
<1> QED BY <1>1, OutcomeInvariance, PTL

\* NotifyBackupResult agrees with the table, if no Update was lost.
THEOREM NoticesTrue == Spec => []NotificationTruthful
<1>1. OInv => NotificationTruthful
  <2> SUFFICES ASSUME OInv, NEW b \in table
               PROVE  /\ notified[b] = "succeeded" /\ faults = 0 =>
                            \/ row[b].status \in {"success", "verifying"}
                            \/ row[b].status = "failed" /\ row[b].verify = "failed"
                      /\ notified[b] = "failed" => row[b].status \in {"running", "failed"}
    BY DEF NotificationTruthful
  <2>1. Outcome(b)
    BY BoundsAssumption DEF OInv, IInv, TypeOK, StoreTypes, Outcomes, Backups
  <2> QED BY <2>1 DEF Outcome
<1> QED BY <1>1, OutcomeInvariance, PTL
=============================================================================
