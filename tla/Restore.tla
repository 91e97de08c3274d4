------------------------------ MODULE Restore ------------------------------
(***************************************************************************)
(* Restores (internal/restore/service.go): StartRestore checks the backup  *)
(* and records the restore, runRestore downloads, decrypts, decompresses   *)
(* and hands the dump to the tool of the target server, in a goroutine of  *)
(* its own.  Restores run beside each other, beside deletions of backups   *)
(* (the object goes first, then the row, module BackupService), and die    *)
(* with the process.                                                       *)
(*                                                                         *)
(* A database is a few objects (tables), each with the backup its contents *)
(* came from; the tool replaces them one after the other and may give up   *)
(* after any of them.  pg_restore works on the database "postgres" of the  *)
(* target, whichever database was dumped.                                  *)
(***************************************************************************)
EXTENDS Naturals, FiniteSets

CONSTANTS Backups, Restores, Conns,
          Objects,      \* of a database
          Source,       \* connection_id of each backup
          DBType,       \* of each connection
          Form,         \* what each backup has under its storage path
          Status,       \* its status
          Encryption,   \* JAGAD_ENCRYPTION_KEY is set (encSvc # nil)
          MaxCrashes,   \* bound: crashes of the process
          MaxFaults     \* bound: statements that fail

\* A dump, a dump that EncryptStream has sealed, an archive of XtraBackup or
\* Mariabackup, or nothing, as pgBackRest keeps its data elsewhere.
Forms == {"dump", "sealed", "archive", "nothing"}
ASSUME RestoreAssumption ==
    /\ Source \in [Backups -> Conns] /\ Form \in [Backups -> Forms]
    /\ Status \in [Backups -> {"running", "success", "failed"}]
    /\ Encryption \in BOOLEAN /\ MaxCrashes \in Nat /\ MaxFaults \in Nat

VARIABLES
    table, bucket,        \* backups that have a row, and an object
    pc, backup, target,   \* the goroutine of each restore and its arguments
    data,                 \* what it has in memory
    left,                 \* objects the tool has still to replace
    row,                  \* status of the restore's row, "none" before INSERT
    database,             \* contents of each target
    rivals,               \* history: restores whose tool was at the target with its own
    crashes, faults

vars == <<table, bucket, pc, backup, target, data, left, row, database, rivals, crashes, faults>>
stores == <<table, bucket>>
args == <<backup, target>>
run == <<data, left>>
bounds == <<crashes, faults>>

Init ==
    /\ backup \in [Restores -> Backups] /\ target \in [Restores -> Conns]
    /\ table = {backup[r] : r \in Restores}   \* the others make no difference
    /\ bucket = {b \in table : Form[b] # "nothing"}
    /\ pc = [r \in Restores |-> "idle"] /\ row = [r \in Restores |-> "none"]
    /\ data = [r \in Restores |-> "nothing"] /\ left = [r \in Restores |-> {}]
    /\ database = [c \in Conns |-> [o \in Objects |-> "original"]]
    /\ rivals = [r \in Restores |-> {}]
    /\ crashes = 0 /\ faults = 0

Goto(r, l) == pc' = [pc EXCEPT ![r] = l]

-----------------------------------------------------------------------------
(* Definitions named "...Bug" are variants with a plausible mistake, which a *)
(* property must reject; no specification uses them.                         *)

(* StartRestore: without a target it is the backup's own connection. *)
StartRestore(r) ==
    /\ pc[r] = "idle"
    /\ backup[r] \in table /\ Status[backup[r]] = "success"
    /\ Goto(r, "create")
    /\ UNCHANGED <<stores, args, run, row, database, rivals, bounds>>

CreateRestoreBug(r) == \* the error of the INSERT is logged, not returned
    /\ pc[r] = "create"
    /\ Goto(r, "download")
    /\ row' = IF backup[r] \in table THEN [row EXCEPT ![r] = "running"] ELSE row
    /\ UNCHANGED <<stores, args, run, database, rivals, bounds>>

\* The INSERT fails when the backup's row has gone since it was read.
CreateRestore(r) ==
    /\ pc[r] = "create"
    /\ IF backup[r] \in table
       THEN Goto(r, "download") /\ row' = [row EXCEPT ![r] = "running"]
       ELSE Goto(r, "ended") /\ UNCHANGED row
    /\ UNCHANGED <<stores, args, run, database, rivals, bounds>>

-----------------------------------------------------------------------------
\* An UPDATE that meets no row is no error.
Conclude(r, status) ==
    /\ row' = [row EXCEPT ![r] = IF @ = "none" THEN @ ELSE status]
    /\ Goto(r, "ended")

failRestoreSilentBug(r) == \* the row is not updated
    /\ Goto(r, "ended") /\ UNCHANGED row

failRestore(r) == Conclude(r, "failed")

\* No provider, no client, no object, a broken connection.
DownloadFails(r) ==
    /\ pc[r] = "download"
    /\ failRestore(r)
    /\ UNCHANGED <<stores, args, run, database, rivals, bounds>>

Download(r) ==
    /\ pc[r] = "download" /\ backup[r] \in bucket
    /\ data' = [data EXCEPT ![r] = Form[backup[r]]]
    /\ Goto(r, "decompress")
    /\ UNCHANGED <<stores, args, left, row, database, rivals, bounds>>

\* Decrypt is called for backups with an encrypted_size_bytes, which no code
\* sets.  It opens what Encrypt makes (salt, nonce, ciphertext) and nothing
\* that a backup has in the bucket: not the frames of EncryptStream either.
EncryptedSizeBytes(b) == 0
DecryptFails(r) == Encryption /\ EncryptedSizeBytes(backup[r]) > 0

\* gzip refuses what does not begin with its magic number.
decompressData(r) ==
    /\ pc[r] = "decompress"
    /\ IF DecryptFails(r) \/ data[r] = "sealed"
       THEN failRestore(r) ELSE Goto(r, "tool") /\ UNCHANGED row
    /\ UNCHANGED <<stores, args, run, database, rivals, bounds>>

\* pg_restore takes the custom format pg_dump was told to write.  A dump of
\* one database by mysqldump does not name it, and mysql is given none.
Accepted(r) ==
    data[r] = "dump" /\ DBType[target[r]] = "postgresql" /\ DBType[Source[backup[r]]] = "postgresql"

\* The other restores whose tool is at work on the target of r.
AtWorkWith(r) == {q \in Restores \ {r} : pc[q] = "apply" /\ target[q] = target[r]}

executeRestore(r) ==
    /\ pc[r] = "tool"
    /\ IF Accepted(r)
       THEN /\ Goto(r, "apply") /\ UNCHANGED row
            /\ left' = [left EXCEPT ![r] = Objects]
            /\ rivals' = [q \in Restores |-> IF q = r THEN AtWorkWith(r)
                                            ELSE IF q \in AtWorkWith(r) THEN rivals[q] \cup {r}
                                            ELSE rivals[q]]
       ELSE failRestore(r) /\ UNCHANGED <<left, rivals>>
    /\ UNCHANGED <<stores, args, data, database, bounds>>

ReplaceObject(r, o) ==
    /\ pc[r] = "apply" /\ o \in left[r]
    /\ left' = [left EXCEPT ![r] = @ \ {o}]
    /\ database' = [database EXCEPT ![target[r]][o] = backup[r]]
    /\ UNCHANGED <<stores, pc, args, data, row, rivals, bounds>>

ToolFailsIgnoredBug(r) == \* the error of cmd.Run is logged, not returned
    /\ pc[r] = "apply"
    /\ Conclude(r, "success")
    /\ UNCHANGED <<stores, args, run, database, rivals, bounds>>

ToolFails(r) ==
    /\ pc[r] = "apply"
    /\ failRestore(r)
    /\ UNCHANGED <<stores, args, run, database, rivals, bounds>>

Succeed(r) ==
    /\ pc[r] = "apply" /\ left[r] = {}
    /\ Conclude(r, "success")
    /\ UNCHANGED <<stores, args, run, database, rivals, bounds>>

\* The last Update fails: the error is printed and the row stays as it was.
UpdateFails(r) ==
    /\ pc[r] \in {"download", "decompress", "tool", "apply"} /\ faults < MaxFaults
    /\ faults' = faults + 1
    /\ Goto(r, "ended")
    /\ UNCHANGED <<stores, args, run, row, database, rivals, crashes>>

-----------------------------------------------------------------------------
(* Deletions, and crashes.  A row that restores refer to stays; it may go   *)
(* although its object does not, whose removal is only tried.               *)
Purge(b) ==
    /\ b \in bucket
    /\ bucket' = bucket \ {b}
    /\ UNCHANGED <<table, pc, args, run, row, database, rivals, bounds>>

Drop(b) ==
    /\ b \in table
    /\ \A r \in Restores : backup[r] = b => row[r] = "none"
    /\ table' = table \ {b}
    /\ UNCHANGED <<bucket, pc, args, run, row, database, rivals, bounds>>

Crash ==
    /\ crashes < MaxCrashes
    /\ crashes' = crashes + 1
    /\ pc' = [r \in Restores |-> IF pc[r] = "idle" THEN "idle" ELSE "ended"]
    /\ UNCHANGED <<stores, args, run, row, database, rivals, faults>>

runRestore(r) ==
    \/ DownloadFails(r) \/ Download(r) \/ decompressData(r) \/ executeRestore(r)
    \/ (\E o \in Objects : ReplaceObject(r, o)) \/ ToolFails(r) \/ Succeed(r) \/ UpdateFails(r)
Next ==
    \/ \E r \in Restores : StartRestore(r) \/ CreateRestore(r) \/ runRestore(r)
    \/ \E b \in Backups : Purge(b) \/ Drop(b)
    \/ Crash

Spec == Init /\ [][Next]_vars
FairSpec == Spec /\ \A r \in Restores : WF_vars(CreateRestore(r) \/ runRestore(r))

-----------------------------------------------------------------------------
TypeOK ==
    /\ table \subseteq Backups /\ bucket \subseteq Backups
    /\ pc \in [Restores -> {"idle", "create", "download", "decompress", "tool", "apply", "ended"}]
    /\ backup \in [Restores -> Backups] /\ target \in [Restores -> Conns]
    /\ data \in [Restores -> Forms] /\ left \in [Restores -> SUBSET Objects]
    /\ row \in [Restores -> {"none", "running", "success", "failed"}]
    /\ database \in [Conns -> [Objects -> Backups \cup {"original"}]]

\* When a restore says success every object of the dump is in place, whatever
\* happened to the backup meanwhile, unless another restore's tool was at work
\* on the same target at the same time.
RestoredWhole ==
    [][\A r \in Restores : row[r] # "success" /\ row'[r] = "success" /\ rivals'[r] = {} =>
          \A o \in Objects : database'[target[r]][o] = backup[r]]_vars

\* A database with objects of different origins has its reason in the table of
\* restores: one to it that failed or did not end, or two whose tools were at
\* work at a time.  Restores one after the other leave no mixture behind.
MixtureExplained ==
    \A c \in Conns : (\E o, p \in Objects : database[c][o] # database[c][p]) =>
        \E r \in Restores : target[r] = c /\ row[r] # "none"
                             /\ (row[r] \in {"running", "failed"} \/ rivals[r] # {})

\* A restore ends with a verdict, whichever step fails and whatever becomes of
\* its backup, if the process does not crash and the last Update goes through.
RestoreSettles ==
    [](crashes = 0 /\ faults = 0) =>
        \A r \in Restores : row[r] = "running" ~> row[r] \in {"success", "failed"}

\* "Decrypt: If encrypted, decrypts using AES-256-GCM": a restore of a dump
\* that is whole does not fail before its tool has run.
SealedOpened == \A r \in Restores : data[r] = "sealed" => row[r] # "failed"
=============================================================================
