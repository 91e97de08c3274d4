--------------------------- MODULE BackupService ---------------------------
(***************************************************************************)
(* The backup service (src/internal/backup/service.go) over its two        *)
(* stores: the "backups" table of PostgreSQL and the S3 bucket.  No        *)
(* transaction spans the two, and the service keeps no lock, so every      *)
(* repository call and every storage call is a step of its own, and the    *)
(* steps of these goroutines interleave:                                   *)
(*                                                                         *)
(*   - one worker per backup (runBackup), queued on a counting semaphore;  *)
(*   - callers: HTTP handlers (delete, verify, restore) and the            *)
(*     scheduler's goroutines (executeBackup: start a backup, then apply   *)
(*     retention by deleting old backups one after the other).             *)
(*                                                                         *)
(* The process may crash and restart: goroutines and the semaphore are     *)
(* lost, the table and the bucket stay, and nothing repairs the rows.      *)
(*                                                                         *)
(* Backups are numbered in the order of created_at.  An object key holds   *)
(* the backup's ID, so object[b] is what the bucket holds under b's key.   *)
(***************************************************************************)
EXTENDS Naturals, FiniteSets

CONSTANTS
    MaxBackups,      \* bound: backups ever created
    MaxConcurrent,   \* capacity of the semaphore (3 in NewService)
    MaxCrashes,      \* bound: crashes of the process
    MaxFaults,       \* bound: repository calls that return an error
    Callers,         \* goroutines of handlers and of the scheduler
    Schedules,       \* schedule IDs
    NoSchedule,      \* the schedule_id NULL of a manual backup
    ManualSchedules, \* the schedule_id values POST /api/backups is sent
    Requests,        \* the requests made: "delete", "verify", "restore", "schedule"
    Providers,       \* whether a request names a storage provider (BOOLEANs)
    Kinds,           \* backup types requested: "full", "incremental"
    Retentions,      \* retention_full / retention_incr values of schedules
    LowestKeep,      \* the smallest of them that is not 0 (0: unlimited)
    VerifyStatuses,  \* what the CHECK on backups.verify_status admits
    Encrypted,       \* JAGAD_ENCRYPTION_KEY is set (encSvc # nil)
    ReportsKey       \* the incremental engine returns metadata["s3_key"]

ASSUME BoundsAssumption ==
    /\ MaxBackups \in Nat /\ MaxConcurrent \in Nat \ {0}
    /\ MaxCrashes \in Nat /\ MaxFaults \in Nat
ASSUME RetentionAssumption ==
    /\ Retentions \subseteq Nat /\ LowestKeep \in Nat
    /\ \A r \in Retentions : r > 0 => r >= LowestKeep
ASSUME DomainAssumption ==
    /\ NoSchedule \notin Schedules
    /\ ManualSchedules \subseteq Schedules \cup {NoSchedule}
    /\ Requests \subseteq {"delete", "verify", "restore", "schedule"}
    /\ Providers \subseteq BOOLEAN
    /\ Kinds \subseteq {"full", "incremental"}
    /\ Encrypted \in BOOLEAN /\ ReportsKey \in BOOLEAN
ASSUME StatusAssumption == "pending" \in VerifyStatuses  \* of a new row

Backups == 1 .. MaxBackups

VARIABLES
    last,      \* number of backups created so far
    table,     \* IDs that have a row in "backups"
    row,       \* the columns of each row (of a deleted row: its last values)
    pinned,    \* IDs a row of "restores" refers to
    object,    \* the bucket
    work,      \* where the goroutine runBackup of each backup stands
    sem,       \* tokens in the semaphore channel
    notified,  \* the result NotifyBackupResult was called with
    pc, role, cur, todo, plan, seen,  \* the callers, see CallerPc
    removed,   \* history: successes lost by other means than retention
    crashes, faults

rowsVars   == <<last, table, row, pinned>>
workerVars == <<work, sem, notified>>
callerVars == <<pc, role, cur, todo, plan, seen>>
vars == <<rowsVars, object, workerVars, callerVars, removed, crashes, faults>>

Status == {"running", "success", "failed", "verifying"}
Path   == {"", "key", "stanza"}
Sum    == {"", "plain", "stored"}

(* Definitions named "...Bug" are variants of the definition after them with *)
(* a plausible mistake.  No specification uses them: each shows a property   *)
(* that the mistake would violate.                                           *)

(* The columns that later steps read.  path is "" until the worker's last *)
(* Update, then the object key, or the synthetic "incremental/conn/id" of *)
(* an engine that keeps its data in a repository of its own ("stanza").   *)
(* sum says what the checksum column was computed over: the compressed    *)
(* dump before encryption ("plain") or the bytes in the bucket ("stored").*)
Row == [status : Status,
        verify : {"pending", "verifying", "passed", "failed"},
        sched  : Schedules \cup {NoSchedule},
        kind   : {"full", "incremental"},
        prov   : BOOLEAN,     \* storage_provider_id IS NOT NULL
        path   : Path,
        sum    : Sum]

NewRowQueuedBug(s, k, p) == \* a status of its own while it waits for a slot
    [status |-> "queued", verify |-> "pending", sched |-> s,
     kind |-> k, prov |-> p, path |-> "", sum |-> ""]
NewRow(s, k, p) == [status |-> "running", verify |-> "pending", sched |-> s,
                    kind |-> k, prov |-> p, path |-> "", sum |-> ""]

(* Where a worker stands.  "early": it failed before anything could be    *)
(* uploaded; "late": it failed after the pipeline had started.            *)
Work == {"none", "queued", "dumping", "uploaded", "early", "late",
         "succeeded", "failed", "ended"}
Holding == {"dumping", "uploaded", "early", "late", "succeeded", "failed"}

(* Caller c: pc[c] is its next step, role[c] whether it serves a user or  *)
(* sweeps the old backups of one type, cur[c] the backup at hand, todo[c] *)
(* the ones its sweep still has to delete, plan[c] the schedule it runs,  *)
(* seen[c] the copy of the row it has read and goes on using.             *)
CallerPc == {"idle", "list", "sweep", "purge", "drop",
             "mark", "check", "pass", "reject", "pin"}
Role == {"user", "full", "incremental"}
Plan == [sched : Schedules \cup {NoSchedule},
         full : Retentions \cup {0}, incremental : Retentions \cup {0}]
NoPlan == [sched |-> NoSchedule, full |-> 0, incremental |-> 0]
NoCopy == NewRow(NoSchedule, "full", FALSE)

Init ==
    /\ last = 0 /\ table = {} /\ pinned = {}
    /\ row = [b \in Backups |-> NoCopy]
    /\ object = [b \in Backups |-> "none"]
    /\ work = [b \in Backups |-> "none"]
    /\ sem = 0
    /\ notified = [b \in Backups |-> "none"]
    /\ pc = [c \in Callers |-> "idle"]
    /\ role = [c \in Callers |-> "user"]
    /\ cur = [c \in Callers |-> 0]
    /\ todo = [c \in Callers |-> {}]
    /\ plan = [c \in Callers |-> NoPlan]
    /\ seen = [c \in Callers |-> NoCopy]
    /\ removed = {}
    /\ crashes = 0 /\ faults = 0

-----------------------------------------------------------------------------
(* The repository.  Update is UPDATE ... WHERE id: it writes the columns  *)
(* of the caller's copy but for schedule and type, a missing row is no    *)
(* error, and a value the CHECK does not admit is one (only when there is *)
(* a row to write).                                                       *)
Admitted(b, r) == b \in table => r.verify \in VerifyStatuses
Written(b, r) == [r EXCEPT !.sched = row[b].sched, !.kind = row[b].kind]

UpdateOk(b, r) ==
    /\ Admitted(b, r)
    /\ row' = IF b \in table THEN [row EXCEPT ![b] = Written(b, r)] ELSE row
    /\ UNCHANGED faults

UpdateErr(b, r) ==
    /\ IF Admitted(b, r) THEN faults < MaxFaults /\ faults' = faults + 1
                         ELSE UNCHANGED faults
    /\ UNCHANGED row

Successes(s, k) ==
    {b \in table : row[b].sched = s /\ row[b].kind = k /\ row[b].status = "success"}

ListOldestOffsetBug(s, k, keepCount) == \* OFFSET one too small
    {b \in Successes(s, k) :
        Cardinality({n \in Successes(s, k) : n > b}) + 1 >= keepCount}

\* All but the keepCount newest successful backups.
ListOldestByBackupType(s, k, keepCount) ==
    {b \in Successes(s, k) :
        Cardinality({n \in Successes(s, k) : n > b}) >= keepCount}

-----------------------------------------------------------------------------
(* The worker of a backup. *)

\* The insert of StartBackup; the goroutine runBackup starts.
CreateBackup(s, k, p) ==
    /\ last < MaxBackups
    /\ last' = last + 1
    /\ table' = table \cup {last'}
    /\ row' = [row EXCEPT ![last'] = NewRow(s, k, p)]
    /\ work' = [work EXCEPT ![last'] = "queued"]

StartBackup(s, k, p) ==
    /\ CreateBackup(s, k, p)
    /\ UNCHANGED <<pinned, object, sem, notified, callerVars, removed, crashes, faults>>

AcquireSlot(b) ==
    /\ work[b] = "queued" /\ sem < MaxConcurrent
    /\ sem' = sem + 1
    /\ work' = [work EXCEPT ![b] = "dumping"]
    /\ UNCHANGED <<rowsVars, object, notified, callerVars, removed, crashes, faults>>

\* GetDefault, to which resolveProvider falls back for a request without a
\* provider, returns the default one with its secret key masked.
MaskedSecret(b) == ~row[b].prov

\* Whether S3 lets the worker in.  runFullBackup uses the provider as
\* resolveProvider returns it; an engine reads it again by its ID.
HasAccess(b) == ~MaskedSecret(b) \/ row[b].kind = "incremental"

\* runFullBackup or the engine ends well: the object is complete.  pgBackRest
\* writes to its own repository.
Upload(b) ==
    /\ work[b] = "dumping" /\ HasAccess(b)
    /\ work' = [work EXCEPT ![b] = "uploaded"]
    /\ object' = IF row[b].kind = "full" \/ ReportsKey
                 THEN [object EXCEPT ![b] = "complete"] ELSE object
    /\ UNCHANGED <<rowsVars, sem, notified, callerVars, removed, crashes, faults>>

\* No connection, no provider, no client, no engine for this database.
FailEarly(b) ==
    /\ work[b] = "dumping"
    /\ work' = [work EXCEPT ![b] = "early"]
    /\ UNCHANGED <<rowsVars, object, sem, notified, callerVars, removed, crashes, faults>>

\* The dump process did not start, or it, the compression or the upload
\* failed.  The uploader sees the end of a stream however the dump ended, so
\* an object may have been stored.
FailLate(b) ==
    /\ work[b] = "dumping"
    /\ work' = [work EXCEPT ![b] = "late"]
    /\ \/ UNCHANGED object
       \/ /\ HasAccess(b) /\ (row[b].kind = "full" \/ ReportsKey)
          /\ \E o \in {"truncated", "complete"} : object' = [object EXCEPT ![b] = o]
    /\ UNCHANGED <<rowsVars, sem, notified, callerVars, removed, crashes, faults>>

CompletedPathBug(b) == \* takes every path for an object key
    [row[b] EXCEPT !.status = "success", !.prov = TRUE, !.path = "key"]

Completed(b) ==
    [row[b] EXCEPT !.status = "success", !.prov = TRUE,
        !.path = IF row[b].kind = "full" \/ ReportsKey THEN "key" ELSE "stanza",
        !.sum = IF row[b].kind = "full" /\ Encrypted THEN "plain" ELSE ""]

completeBackup(b) ==
    /\ work[b] = "uploaded"
    /\ UpdateOk(b, Completed(b)) \/ UpdateErr(b, Completed(b))
    /\ work' = [work EXCEPT ![b] = "succeeded"]
    /\ UNCHANGED <<last, table, pinned, object, sem, notified, callerVars, removed, crashes>>

FailedIgnoredBug(b) == \* the exit code of the dump is not looked at
    [row[b] EXCEPT !.status = IF work[b] = "late" THEN "success" ELSE "failed",
        !.path = IF work[b] = "late" /\ row[b].kind = "full" THEN "key" ELSE ""]

Failed(b) ==
    [row[b] EXCEPT !.status = "failed",
        !.path = IF work[b] = "late" /\ row[b].kind = "full" THEN "key" ELSE ""]

failBackupAgainBug(b) == \* an error after completeBackup fails the backup
    /\ work[b] \in {"early", "late", "succeeded"}
    /\ UpdateOk(b, Failed(b)) \/ UpdateErr(b, Failed(b))
    /\ work' = [work EXCEPT ![b] = "failed"]
    /\ UNCHANGED <<last, table, pinned, object, sem, notified, callerVars, removed, crashes>>

failBackupSilentBug(b) == \* an early return without the Update
    /\ work[b] \in {"early", "late"}
    /\ IF work[b] = "late" THEN UpdateOk(b, Failed(b)) ELSE UNCHANGED <<row, faults>>
    /\ work' = [work EXCEPT ![b] = "failed"]
    /\ UNCHANGED <<last, table, pinned, object, sem, notified, callerVars, removed, crashes>>

failBackup(b) ==
    /\ work[b] \in {"early", "late"}
    /\ UpdateOk(b, Failed(b)) \/ UpdateErr(b, Failed(b))
    /\ work' = [work EXCEPT ![b] = "failed"]
    /\ UNCHANGED <<last, table, pinned, object, sem, notified, callerVars, removed, crashes>>

ReleaseLeakBug(b) == \* only the successful path gives the slot back
    /\ work[b] \in {"succeeded", "failed"}
    /\ notified' = [notified EXCEPT ![b] = work[b]]
    /\ sem' = IF work[b] = "succeeded" THEN sem - 1 ELSE sem
    /\ work' = [work EXCEPT ![b] = "ended"]
    /\ UNCHANGED <<rowsVars, object, callerVars, removed, crashes, faults>>

NotifySuccessBug(b) == \* reports success whatever happened
    /\ work[b] \in {"succeeded", "failed"}
    /\ notified' = [notified EXCEPT ![b] = "succeeded"]
    /\ sem' = sem - 1
    /\ work' = [work EXCEPT ![b] = "ended"]
    /\ UNCHANGED <<rowsVars, object, callerVars, removed, crashes, faults>>

\* NotifyBackupResult (notify_on_success and notify_on_failure can only
\* suppress the message: the model takes them as set), then the deferred
\* release of the slot.
NotifyAndRelease(b) ==
    /\ work[b] \in {"succeeded", "failed"}
    /\ notified' = [notified EXCEPT ![b] = work[b]]
    /\ sem' = sem - 1
    /\ work' = [work EXCEPT ![b] = "ended"]
    /\ UNCHANGED <<rowsVars, object, callerVars, removed, crashes, faults>>
-----------------------------------------------------------------------------
(* Callers.  Return ends the caller's request. *)
Return(c) ==
    /\ pc' = [pc EXCEPT ![c] = "idle"]
    /\ role' = [role EXCEPT ![c] = "user"]
    /\ cur' = [cur EXCEPT ![c] = 0]
    /\ todo' = [todo EXCEPT ![c] = {}]
    /\ plan' = [plan EXCEPT ![c] = NoPlan]
    /\ seen' = [seen EXCEPT ![c] = NoCopy]

\* GetByID: the caller goes on with its copy of the row.
Read(c, b, next) ==
    /\ pc' = [pc EXCEPT ![c] = next]
    /\ cur' = [cur EXCEPT ![c] = b]
    /\ seen' = [seen EXCEPT ![c] = row[b]]
    /\ UNCHANGED <<role, todo, plan>>

Goto(c, next) ==
    /\ pc' = [pc EXCEPT ![c] = next]
    /\ UNCHANGED <<role, cur, todo, plan, seen>>

UserDelete(c, b) ==
    /\ pc[c] = "idle" /\ b \in table
    /\ Read(c, b, "purge")
    /\ UNCHANGED <<rowsVars, object, workerVars, removed, crashes, faults>>

\* Delete, second part: the object goes first, and an error is only logged.
Purge(c) ==
    /\ pc[c] = "purge"
    /\ \/ UNCHANGED object
       \/ /\ seen[c].prov /\ seen[c].path = "key"
          /\ object' = [object EXCEPT ![cur[c]] = "none"]
    /\ Goto(c, "drop")
    /\ UNCHANGED <<rowsVars, workerVars, removed, crashes, faults>>

\* The end of Delete for this caller: a sweep goes on with the next backup.
Deleted(c) ==
    IF role[c] = "user" THEN Return(c)
    ELSE /\ pc' = [pc EXCEPT ![c] = "sweep"]
         /\ todo' = [todo EXCEPT ![c] = @ \ {cur[c]}]
         /\ cur' = [cur EXCEPT ![c] = 0]
         /\ seen' = [seen EXCEPT ![c] = NoCopy]
         /\ UNCHANGED <<role, plan>>

\* Delete, last part: DELETE FROM backups, which the foreign key of
\* restores refuses for a backup that was ever restored.
Drop(c) ==
    /\ pc[c] = "drop"
    /\ \/ /\ cur[c] \notin pinned
          /\ table' = table \ {cur[c]}
          /\ removed' = IF /\ role[c] = "user" /\ cur[c] \in table
                           /\ row[cur[c]].status \in {"success", "verifying"}
                        THEN removed \cup {cur[c]} ELSE removed
          /\ UNCHANGED faults
       \/ /\ cur[c] \in table \cap pinned
          /\ UNCHANGED <<table, removed, faults>>
       \/ /\ faults < MaxFaults /\ faults' = faults + 1
          /\ UNCHANGED <<table, removed>>
    /\ Deleted(c)
    /\ UNCHANGED <<last, row, pinned, object, workerVars, crashes>>

\* executeBackup: StartBackup (which may fail), then EnforceRetention at
\* once, with the retention values of the schedule the job was given.
ExecuteBackup(c, s) ==
    /\ pc[c] = "idle"
    /\ \/ \E k \in Kinds, p \in Providers : CreateBackup(s, k, p)
       \/ UNCHANGED <<last, table, row, work>>
    /\ \E full, incr \in Retentions :
          plan' = [plan EXCEPT ![c] = [sched |-> s, full |-> full, incremental |-> incr]]
    /\ pc' = [pc EXCEPT ![c] = "list"]
    /\ role' = [role EXCEPT ![c] = "full"]
    /\ UNCHANGED <<pinned, object, sem, notified, cur, todo, seen, removed, crashes, faults>>

\* EnforceRetention for one backup type: list what exceeds the limit.
ListOld(c) ==
    /\ pc[c] = "list"
    /\ LET keep == plan[c][role[c]] IN
       \/ /\ todo' = [todo EXCEPT ![c] =
                IF keep > 0 THEN ListOldestByBackupType(plan[c].sched, role[c], keep)
                            ELSE {}]
          /\ UNCHANGED faults
       \/ /\ keep > 0 /\ faults < MaxFaults
          /\ faults' = faults + 1 /\ UNCHANGED todo
    /\ pc' = [pc EXCEPT ![c] = "sweep"]
    /\ UNCHANGED <<role, cur, plan, seen, rowsVars, object, workerVars, removed, crashes>>

\* The loop calls Delete on the oldest of the listed backups, which may be
\* gone by now, or no longer be what the list showed.
Sweep(c) ==
    /\ pc[c] = "sweep"
    /\ \E b \in todo[c] :
        /\ \A x \in todo[c] : b <= x
        /\ \/ /\ b \in table /\ Read(c, b, "purge")
              /\ UNCHANGED faults
           \/ /\ \/ b \notin table /\ UNCHANGED faults
                 \/ faults < MaxFaults /\ faults' = faults + 1
              /\ todo' = [todo EXCEPT ![c] = @ \ {b}]
              /\ UNCHANGED <<pc, role, cur, plan, seen>>
    /\ UNCHANGED <<rowsVars, object, workerVars, removed, crashes>>

Swept(c) ==
    /\ pc[c] = "sweep" /\ todo[c] = {}
    /\ IF role[c] = "full"
       THEN /\ pc' = [pc EXCEPT ![c] = "list"]
            /\ role' = [role EXCEPT ![c] = "incremental"]
            /\ UNCHANGED <<cur, todo, plan, seen>>
       ELSE Return(c)
    /\ UNCHANGED <<rowsVars, object, workerVars, removed, crashes, faults>>
-----------------------------------------------------------------------------
(* Verification: a handler reads and marks, a goroutine checks. *)
StartVerificationAnyBug(c, b) == \* no check of the status
    /\ pc[c] = "idle" /\ b \in table
    /\ Read(c, b, "mark")
    /\ UNCHANGED <<rowsVars, object, workerVars, removed, crashes, faults>>

StartVerification(c, b) ==
    /\ pc[c] = "idle" /\ b \in table /\ row[b].status = "success"
    /\ Read(c, b, "mark")
    /\ UNCHANGED <<rowsVars, object, workerVars, removed, crashes, faults>>

Marked(c) == [seen[c] EXCEPT !.status = "verifying", !.verify = "verifying"]

MarkVerifying(c) ==
    /\ pc[c] = "mark"
    /\ \/ /\ UpdateOk(cur[c], Marked(c))
          /\ pc' = [pc EXCEPT ![c] = "check"]
          /\ seen' = [seen EXCEPT ![c] = Marked(c)]
          /\ UNCHANGED <<role, cur, todo, plan>>
       \/ UpdateErr(cur[c], Marked(c)) /\ Return(c)
    /\ UNCHANGED <<last, table, pinned, object, workerVars, removed, crashes>>

\* The bytes in the bucket are hashed as they are: encrypted_size_bytes is
\* never set, so nothing is decrypted.  Without a stored checksum any object
\* passes and its hash is stored.
ChecksumMatches(c) ==
    object[cur[c]] # "none" /\ (Encrypted => seen[c].sum # "plain")

Passed(c) == [seen[c] EXCEPT !.status = "success", !.verify = "passed",
                 !.sum = IF seen[c].kind = "full" /\ @ = "" THEN "stored" ELSE @]
RejectedBug(c) == [seen[c] EXCEPT !.status = "failed"] \* verify_status forgotten
Rejected(c) == [seen[c] EXCEPT !.status = "failed", !.verify = "failed"]

runVerification(c) ==
    /\ pc[c] = "check"
    /\ \/ /\ seen[c].kind = "incremental" \/ ChecksumMatches(c)
          /\ pc' = [pc EXCEPT ![c] = "pass"]
          /\ seen' = [seen EXCEPT ![c] = Passed(c)]
       \/ /\ seen[c].kind = "full"   \* a mismatch, or no download
          /\ pc' = [pc EXCEPT ![c] = "reject"]
          /\ seen' = [seen EXCEPT ![c] = Rejected(c)]
    /\ UNCHANGED <<role, cur, todo, plan, rowsVars, object, workerVars, removed, crashes, faults>>

\* The last Update of runVerification or of failVerification.
ConcludeVerification(c) ==
    /\ pc[c] \in {"pass", "reject"}
    /\ \/ /\ UpdateOk(cur[c], seen[c])
          /\ removed' = IF pc[c] = "reject" /\ cur[c] \in table
                        THEN removed \cup {cur[c]} ELSE removed
       \/ UpdateErr(cur[c], seen[c]) /\ UNCHANGED removed
    /\ Return(c)
    /\ UNCHANGED <<last, table, pinned, object, workerVars, crashes>>

-----------------------------------------------------------------------------
(* restore.StartRestore: read the backup, then insert the restores row. *)
StartRestore(c, b) ==
    /\ pc[c] = "idle" /\ b \in table /\ row[b].status = "success"
    /\ Read(c, b, "pin")
    /\ UNCHANGED <<rowsVars, object, workerVars, removed, crashes, faults>>

\* The insert fails on the foreign key if the backup is gone by now.
CreateRestore(c) ==
    /\ pc[c] = "pin"
    /\ \/ /\ pinned' = IF cur[c] \in table THEN pinned \cup {cur[c]} ELSE pinned
          /\ UNCHANGED faults
       \/ /\ faults < MaxFaults /\ faults' = faults + 1 /\ UNCHANGED pinned
    /\ Return(c)
    /\ UNCHANGED <<last, table, row, object, workerVars, removed, crashes>>

-----------------------------------------------------------------------------
(* A crash, or the end of main on a signal: it does not wait for workers. *)
Crash ==
    /\ crashes < MaxCrashes /\ crashes' = crashes + 1
    /\ work' = [b \in Backups |-> IF work[b] = "none" THEN "none" ELSE "ended"]
    /\ sem' = 0
    /\ pc' = [c \in Callers |-> "idle"]
    /\ role' = [c \in Callers |-> "user"]
    /\ cur' = [c \in Callers |-> 0]
    /\ todo' = [c \in Callers |-> {}]
    /\ plan' = [c \in Callers |-> NoPlan]
    /\ seen' = [c \in Callers |-> NoCopy]
    /\ UNCHANGED <<rowsVars, object, notified, removed, faults>>

\* Every request is served: the server waits for the next one.
Waiting ==
    /\ \A b \in Backups : work[b] \in {"none", "ended"}
    /\ \A c \in Callers : pc[c] = "idle"
    /\ UNCHANGED vars

Pipeline(b) == Upload(b) \/ FailEarly(b) \/ FailLate(b)
WorkerStep(b) ==
    AcquireSlot(b) \/ Pipeline(b) \/ completeBackup(b) \/ failBackup(b) \/ NotifyAndRelease(b)
DeleteStep(c) == Purge(c) \/ Drop(c)
RetentionStep(c) == ListOld(c) \/ Sweep(c) \/ Swept(c)
VerifyStep(c) == MarkVerifying(c) \/ runVerification(c) \/ ConcludeVerification(c)
CallerStep(c) == DeleteStep(c) \/ RetentionStep(c) \/ VerifyStep(c) \/ CreateRestore(c)

Request(c) ==
    \/ "delete" \in Requests /\ \E b \in Backups : UserDelete(c, b)
    \/ "verify" \in Requests /\ \E b \in Backups : StartVerification(c, b)
    \/ "restore" \in Requests /\ \E b \in Backups : StartRestore(c, b)
    \/ "schedule" \in Requests /\ \E s \in Schedules : ExecuteBackup(c, s)

Next ==
    \/ \E s \in ManualSchedules, k \in Kinds, p \in Providers : StartBackup(s, k, p)
    \/ \E b \in Backups : WorkerStep(b)
    \/ \E c \in Callers : Request(c) \/ CallerStep(c)
    \/ Crash
    \/ Waiting

Spec == Init /\ [][Next]_vars

(* Goroutines run on; the semaphore is a channel, whose waiting senders   *)
(* are served in order; dump processes and S3 requests return.            *)
Fairness ==
    /\ \A b \in Backups : WF_vars(WorkerStep(b))
    /\ \A c \in Callers : WF_vars(CallerStep(c))
FairSpec == Spec /\ Fairness
-----------------------------------------------------------------------------
(* Properties. *)

StoreTypes ==
    /\ last \in 0 .. MaxBackups
    /\ table \subseteq 1 .. last /\ pinned \subseteq 1 .. last /\ removed \subseteq 1 .. last
    /\ row \in [Backups -> Row]
    /\ object \in [Backups -> {"none", "truncated", "complete"}]
    /\ crashes \in 0 .. MaxCrashes /\ faults \in 0 .. MaxFaults
WorkerTypes ==
    /\ work \in [Backups -> Work]
    /\ sem \in Nat
    /\ notified \in [Backups -> {"none", "succeeded", "failed"}]
CallerTypes ==
    /\ pc \in [Callers -> CallerPc] /\ role \in [Callers -> Role]
    /\ cur \in [Callers -> Backups \cup {0}] /\ todo \in [Callers -> SUBSET Backups]
    /\ plan \in [Callers -> Plan] /\ seen \in [Callers -> Row]
TypeOK == StoreTypes /\ WorkerTypes /\ CallerTypes

\* The semaphore holds one token for every worker between its acquire and
\* its deferred release, on every path through runBackup, and never more
\* than its capacity: no failure path leaks a slot or releases it twice.
SlotAccounting ==
    /\ sem = Cardinality({b \in Backups : work[b] \in Holding})
    /\ sem <= MaxConcurrent

Newer(b) ==
    {n \in Backups : /\ n > b
                     /\ row[n].sched = row[b].sched /\ row[n].kind = row[b].kind
                     /\ \/ n \in removed
                        \/ n \in table /\ row[n].status \in {"success", "verifying"}}

\* EnforceRetention deletes from a list that is stale by the time it acts,
\* while other sweeps of the same schedule, workers, users and verifications
\* run.  Still every backup on a sweep's list has at least as many newer
\* backups of its schedule and type as the lowest limit says to keep, not
\* counting those a user deleted or a verification rejected: sweeps alone
\* never take a schedule below its limit.
RetentionKeepsEnough ==
    \A c \in Callers : \A b \in todo[c] : Cardinality(Newer(b)) >= LowestKeep

\* A row that says "success" (or is being verified) and whose object is not
\* there, whole: some Delete has removed the object and is about to remove
\* the row, or the restores row that refers to it made that impossible, or
\* a crash or a database error came between the two.
LostObjectExplained ==
    \A b \in table :
        (/\ row[b].status \in {"success", "verifying"}
         /\ row[b].path = "key" /\ object[b] # "complete")
        => \/ \E c \in Callers : pc[c] = "drop" /\ cur[c] = b
           \/ b \in pinned \/ crashes > 0 \/ faults > 0

\* What was told to the notification targets agrees with the table, as long
\* as the row is there and no Update was lost: a backup announced as
\* successful failed only by a later verification, and one announced as
\* failed never counts as a success.
NotificationTruthful ==
    \A b \in table :
        /\ notified[b] = "succeeded" /\ faults = 0 =>
              \/ row[b].status \in {"success", "verifying"}
              \/ row[b].status = "failed" /\ row[b].verify = "failed"
        /\ notified[b] = "failed" => row[b].status \in {"running", "failed"}

Phase == [b \in Backups |-> IF b \in table THEN row[b].status
                            ELSE IF b <= last THEN "gone" ELSE "none"]
Lifecycle == INSTANCE BackupLifecycle
    WITH Ids <- Backups, Verifiable <- "verifying" \in VerifyStatuses, phase <- Phase

\* The service implements the lifecycle its API promises: whatever workers,
\* sweeps, verifications and crashes do, "success" and "failed" are final
\* (but for verifications, where the schema admits them), and a deleted
\* backup never comes back, although its worker or a verification may still
\* be running and end with an Update of the row.
LifecycleSpec == Lifecycle!Spec

\* What makes the invariants above inductive.  A worker that has not settled
\* finds its row as StartBackup left it,
WorkerInv ==
    \A b \in Backups :
        /\ b > last => work[b] = "none"
        /\ b \in table /\ work[b] \in {"queued", "dumping", "uploaded", "early", "late"}
              => row[b].status = "running"

\* and a caller's copy of a row can be old, but is a copy of that row: a
\* sweep only deletes what is on its list, and a verification writes to a
\* row that has settled, if to any.
CallerOk(c) ==
    /\ todo[c] \subseteq 1 .. last
    /\ pc[c] \notin {"idle", "list", "sweep"} => cur[c] \in 1 .. last
    /\ pc[c] = "idle" => role[c] = "user"
    /\ pc[c] \in {"list", "sweep"} => role[c] # "user"
    /\ pc[c] \in {"purge", "drop"} /\ role[c] # "user" => cur[c] \in todo[c]
    /\ pc[c] \in {"mark", "check", "pass", "reject"} /\ cur[c] \in table
          => row[cur[c]].status # "running"
    /\ pc[c] \in {"check", "pass", "reject"} /\ cur[c] \in table
          => "verifying" \in VerifyStatuses
    /\ pc[c] = "pass" => seen[c].status = "success"
    /\ pc[c] = "reject" => seen[c].status = "failed"
CallerInv == \A c \in Callers : CallerOk(c)

\* The inductive invariant of the proofs: it makes TypeOK, SlotAccounting and
\* RetentionKeepsEnough follow from one step to the next.
IInv == TypeOK /\ SlotAccounting /\ WorkerInv /\ CallerInv /\ RetentionKeepsEnough

\* Without crashes and lost updates no row stays "running" for ever.
BackupSettles ==
    \A b \in Backups : (b \in table /\ row[b].status = "running")
                       ~> ~(b \in table /\ row[b].status = "running")

=============================================================================
