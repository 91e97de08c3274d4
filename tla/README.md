# A verification project for Jagad

Jagad backs up PostgreSQL, MySQL and MariaDB servers to S3-compatible storage. It
is one Go process (`cmd/jagad/main.go`) with an HTTP API, a cron scheduler, a
PostgreSQL database for its metadata and a bucket for the backups. This directory
models the parts of it that decide whether a backup exists, is whole and can be
restored, who is let in, and what is watched, checks them with TLC on small instances, and proves
the safety properties of all parts with TLAPS for every size.

## 1. The system

| Component | State it keeps | Operations that change it | Interacts with |
|---|---|---|---|
| Backup service (`internal/backup/service.go`, `handler.go`; `repository/postgres/backup.go`) | rows of `backups`; objects in the bucket; a semaphore of 3 slots; one goroutine per backup or verification | StartBackup, runBackup, completeBackup, failBackup, Delete, StartVerification, runVerification, EnforceRetention | table and bucket (no transaction spans both), dump pipeline, engines, notifications; called by handlers and scheduler |
| Dump pipeline (`runFullBackup`, `runXtraBackup`, `runMariabackup`) | a process, an OS pipe, a goroutine, an `io.Pipe`, a channel of capacity 1, an upload | start, copy, compress, encrypt, upload, kill, wait | external tools, S3 |
| Incremental engines (`incremental.go`, `pgbackrest.go`, `xtrabackup.go`, `mariabackup.go`) | one `pgbackrest.conf`; repositories of pgBackRest | choice of engine, write of the file, stanza-create, backup | external tools |
| Scheduler (`internal/schedule/*`, `repository/postgres/schedule.go`) | rows of `schedules`; entries of the cron engine; a map from schedules to entries, under a mutex | create, update, delete (each writes row and engine in two steps), Start, fire, RunNow | backup service (StartBackup, then EnforceRetention) |
| Restore (`internal/restore/service.go`) | rows of `restores`; a goroutine per restore; the target database | StartRestore, runRestore, failRestore | table, bucket, encryption, `pg_restore` / `mysql` |
| Encryption (`internal/encryption/service.go`) | writer: frame counter; reader: a buffer | Write, Close, Read | dump pipeline (writer) |
| Storage providers (`internal/storage/provider_*.go`, `crypto.go`, `repository/postgres/storage_provider.go`) | rows with sealed credentials, a default flag | create, update, set-default, delete | everybody who needs a bucket |
| Notifications (`internal/notification`) | rows of targets | NotifyBackupResult | called by workers while they hold a slot |
| Connections (`internal/connection`) | rows of servers and of their databases, which of these are selected | create, update, delete (cascades, unless schedules or backups refer to it), discover, select | all of the above |
| Authentication (`internal/auth`) | sessions and the password, in memory; only the map of sessions is under a lock | login, logout, check, change of password, purge of what has expired | every request |
| Monitoring (`internal/monitoring`) | a collector goroutine, goroutines of requests, tables of metrics, some of which only TimescaleDB brings | Start, Stop, tick, collect, TriggerCollect | connections, servers, schema |
| Settings, API router, configuration, web interface | key-value rows; none | | |

What is hard here is what no unit test of the repository reaches. Nothing is locked
but the scheduler's map and the map of sessions: every repository call and every S3 call is a step of its
own, whole rows are written back from copies read earlier, workers outlive the rows
they work for, and a restart loses every goroutine and repairs nothing. The list
`hazards` of `PROJECT.json` names each such place with the properties about it.

What makes the parts correct, in a sentence each:

- backup service: a status is final once settled, slots are not leaked, rows and
  objects do not part ways silently, retention never deletes too much;
- pipeline: success means a whole object, and nothing hangs or is left behind;
- engines: a run backs up the server it was asked to;
- scheduler: what the engine runs is what the table says;
- encryption: a cut stream never passes for a shorter one;
- providers: credentials survive edits, and there is one default;
- restore: success means that everything is in place;
- connections: no orphans, whatever a discovery saves after a deletion;
- authentication: a request is served with a good session and only with one, and a
  change of password ends the sessions of the old one;
- collector: health check and metrics are of the server that the connection named when
  its turn came, one bad connection does not hide the others, what is not stored has a
  reason, and the loop ends after Stop.

## 2. Modules

| Module | What it models |
|---|---|
| `BackupLifecycle` | abstract: the status of a backup as the API shows it, and how it may change |
| `BackupService` | the backup service over its two stores, with workers, callers, crashes and failing statements |
| `PipelineContract` | abstract: what `runBackup` builds on when it runs a pipeline |
| `DumpPipeline` | process, OS pipe, goroutine, `io.Pipe`, channel and upload |
| `IncrementalEngines` | concurrent incremental runs over one configuration file |
| `Scheduler` | rows, cron entries, map, handlers, restart |
| `EncryptedStream` | writer and reader of the framed stream, symbolic encryption |
| `StorageProviders` | requests statement by statement, sealing under master keys |
| `Restore` | restores beside deletions and each other, tools by what they do to a target |
| `Sessions` | requests of the authentication step by step, a clock, restarts |
| `Connections` | requests for connections, discovery in its two halves, servers that fail |
| `Collector` | the collector, its tables and its cycles, composed with `Connections` |
| `MC...` | the instances TLC checks |
| `BackupServiceProofs`, `SchedulerProofs`, `IncrementalEnginesProofs`, `StorageProvidersProofs`, `RestoreProofs`, `SessionsProofs` | the theorems about the module each is named after |
| `DumpPipelineProofs` | the theorems about `DumpPipeline` and `EncryptedStream` |
| `CollectorProofs` | the theorems about `Connections` and `Collector` |

`Collector` extends `Connections`: cycles and requests interleave over the same rows and
servers, and `ConnNext` is a disjunct of its `Next`. Elsewhere the composition is by
contract. `DumpPipeline` implements `PipelineContract`, and
its steps are the only ones `Upload` and `FailLate` of `BackupService` and `Stream`
of `IncrementalEngines` take. `BackupService` implements `BackupLifecycle`.
`BackupService` includes the steps of the scheduler (`ExecuteBackup`) and of
`StartRestore` that touch `backups`; `Scheduler`, `Restore` and `StorageProviders`
include the foreign keys and deletions through which the others reach them.

### BackupService

A state is the table (`table`, `row`), the bucket (`object`), the goroutine of each
backup (`work`), the semaphore (`sem`), and a handful of callers, which are HTTP
handlers or jobs of the scheduler (`pc`, `role`, `cur`, `todo`, `plan`, `seen`).
`seen[c]` is the copy of the row that a caller has read and writes back later;
`todo[c]` is what `EnforceRetention` has listed and not yet deleted. One action is
one repository or storage call with the code up to the next: `UserDelete` or
`Sweep` (GetByID), `Purge` (the object goes, an error is only logged), `Drop` (the
row goes, unless `restores` refers to it). A statement may fail (`MaxFaults`), an
UPDATE that meets no row is no error, and the CHECK on `verify_status` is a guard.
Two details of the code shape the model: without a provider in the request the
default one comes back with its secret masked (`HasAccess`), and
`encrypted_size_bytes` is never set, so that verification hashes sealed bytes
(`ChecksumMatches`). An UPDATE of a backup writes the columns of
`repository/postgres/backup.go:125` and leaves schedule and type alone (`Written`).
Under the shipped CHECK a `StartVerification` is refused by its first UPDATE, unless the
row has gone since it was read; then the goroutine starts, and its own UPDATE meets no
row either. `removed` is a history variable: successes lost by other means
than retention. Timestamps, sizes, durations and log texts are left out; a backup's
number is its `created_at`.

### DumpPipeline

A write of the goroutine and a read of the uploader are one step (`Deliver`), as an
`io.Pipe` has no buffer. `held` is what gzip keeps back. The trailers are told
apart: gzip's footer, the EOF frame that `Close` writes, and the second one of the
deferred `Close`. The dump may write, exit, crash or hang. What goes wrong from outside
(`CrashDump`, `Stall`, `EncryptInitFails`, `UploadFails`) is in `Fault`, apart from the
steps of the three parties. The three callers of this
structure differ only in encryption, which `Modes` turns on and off.

### The others

`Scheduler`: `CreateRow` / `UpdateRow` and `Register`, `Unregister` and `EraseRow`
are the two halves of the handlers; a job keeps the body it was added with. `adrift`
records why a schedule and its job may differ.
`IncrementalEngines`: `TruncateConfig` and `WriteConfig` are the two halves of
`os.WriteFile`; pgBackRest is external and modelled by what its commands read and
refuse. `rivals` records who wrote the file meanwhile.
`StorageProviders`: a credential is a value under the list of keys it was sealed
with; an empty one is the value 0, which `MustEncrypt` and `MustDecrypt` leave as it is.
A new provider may come without an access key or a secret, and an update with either of
them masked or empty, which keeps what is stored. `intent` is what the requests, taken one by one, ask the row to be.
`Restore`: a database is a set of objects with the backup each one came from. `rivals[r]`
are the restores whose tool was at work on the target of `r` while its own was
(`AtWorkWith`, looked at when a tool starts); one that has not begun or has ended is none.
`EncryptedStream`: the unit of data is a byte of payload, a header has two units and
a tag one; `Opens` accepts exactly what `Seal` has made.
`Sessions`: a login compares (`HandleLogin`), then inserts (`InsertSession`); a change
of password compares, then replaces; other requests copy the session (`CopySession`),
look at the clock, and purge. `ended` records why a session is over, `straddling` the
sessions of logins that a change of password overtook. The unlocked read of the
password is a data race, harmless because all hashes have the same length: a torn
string is the old or the new one.
`Connections`: a row is a server and whether its password is right, so that an edit
which sends back a body without the password is `pass |-> FALSE`. `handleDiscover`
reads row and server, `UpsertDatabases` is the transaction. `Home` gives the server of
the connections that are there at the start.
`Collector`: a goroutine keeps the list of a cycle (`todo`), the copy of the connection
(`cur`), and what it has stored of it (`report`: the status and the server of the health
check, the servers the metrics are of, the tables that refused a row, and for reference the
server that the row named when it was read). `Counted` is the step to the next connection.
`Open` is what every start does to the schema, with any of the statements of `MayFail`
failing unnoticed, as `migrate` drops their errors: `columns` are those that the ALTERs have
added to `db_metrics`, `proper` the P2 tables that have the columns of their CREATE rather
than the generic ones of `createHypertables`, and `lost` what failed at which start. A
CREATE of `createHypertables` that fails ends the process (`StartFails`). Each of the six kinds of metrics opens the server anew and is one action; it may
give no rows, whatever the reason, so that an unreachable server only takes behaviours
away. What the queries compute is data and left out.

Definitions that end in `Bug` are variants of a definition with a plausible mistake.
No specification uses them; put in the place of the original they show that a
property notices.

## 3. Runs

| Run | Instance | What it shows |
|---|---|---|
| `store` | 2 backups, 1 slot, 2 callers, full and incremental, 1 crash, 1 failing statement, shipped CHECK | slots, retention, lost objects, notifications, lifecycle, with the verifications the shipped schema lets through |
| `verify` | 2 backups, 1 slot, 2 callers that verify and sweep, with and without provider, documented CHECK, no crash, fair | about the code behind the CHECK, not the program as shipped: the inductive invariant, lost objects, notifications and lifecycle under overlapping verifications; and backups settle |
| `pipeline` | 4 chunks, a pipe of 2, with and without encryption, stalls, failing uploads that are never fair | the contract, nothing left behind, termination unless the dump hangs |
| `scheduler` | 2 schedules, 2 callers, 3 edits, 1 restart | engine and map agree, engine follows the table |
| `stream` | 3 frames of 0 to 3 bytes, every cut, 0 to 2 closes, slices of 2 | prefix, truncation detected, no false alarm, the reader ends |
| `engines` | 3 runs at a time over 5 servers, in 4 combinations of namesakes | a run is misled only by one with the same stanza, every run ends |
| `providers` | 2 providers, 3 callers, 3 requests, credentials given or empty, 2 restarts with 2 keys, 1 failing statement | edits kept, credentials sealed once, one default |
| `restore` | 2 restores of any of 5 backups (dump, sealed, archive, none, failed) to 2 targets, 1 crash, 1 failing statement | success means whole unless tools overlapped, mixtures explained by the table of restores, a verdict |
| `sessions` | 2 callers, 3 tokens, 3 passwords (one too short), sessions of 1 tick over 2 ticks, 5 requests, 1 restart | served means valid, refused means invalid, sessions are of the current password, a change was authorised |
| `connections` | 2 connections, 2 servers with overlapping databases, 2 callers, 6 requests, 1 outage | foreign keys under overlapping discoveries and deletions |
| `collector` | 1 connection and a second that may be made, 2 servers, the loop and 1 requested cycle, 2 cycles, 2 starts, 1 request or outage, 1 failing statement (of a cycle, of `createHypertables`, an ALTER or a CREATE of `migrate`), fair | reports of the one server that the row named, missing rows explained, nobody skipped, the loop stops |
| `restore_sealed` (violation) | as `restore` | an encrypted backup is not decrypted |

Why the bounds are enough for what they are to show. Two backups and two callers are
the fewest with a conflict: two sweeps of one schedule, a sweep and a deletion of the
same row, two verifications of one row, two workers for one slot. One crash or one
failing statement reaches each place between two steps; the proofs cover the rest.
Four chunks over a pipe of two let the dump block, gzip hold back and a block be
written more than once. Three edits of two schedules allow an edit between the halves
of another one and a third to repair. Three engine runs are the semaphore's capacity.
A slice of 2 against frames of 0 to 3 bytes takes the buffered path and the direct
one. In `providers` three requests are two overlapping promotions after a creation, or two
creations of defaults and an edit, and three callers let all of them overlap; two restarts
bring the first key back. In `sessions` two
callers are a login or a request and the change of password that overtakes it, five
requests allow both after a login each, and two ticks let a session expire and another
one outlive it. In `connections` six requests are two creations, two discoveries, a
choice and a deletion. In `collector` the second start is the one after the tables were
made, and the edit, or the outage, may fall between any two of the seven visits to a server.
`MayFail` has one of the two ALTERs and one of the four CREATEs, which are alike; the proof
is for any of them and any number. `store` uses
symmetry of the callers (and `scheduler` of callers and schedules, `providers` of
callers, providers and keys, `sessions` of callers and tokens, `connections` of callers and connections), in
runs without liveness only.

The type invariants of the modules are definitions `TypeOK` (`StreamTypeOK` and `ConnTypeOK`
in two modules that others extend); `store` and `verify` check
that of `BackupService`, `connections` that of `Connections` with its foreign keys. The
others hold on the same instances and are not listed, in favour of what could be wrong.

`CHECK_DEADLOCK FALSE` stands where the system may stop: requests are bounded in
`Scheduler`, `StorageProviders`, `Sessions`, `Connections` and `Collector`, restores are
started once, and a hanging dump stops the pipeline for good (section 5).

### Fairness

Weak fairness of the steps of a goroutine (`WorkerStep(b)`, `CallerStep(c)`,
`CompStep`, `MainStep`, `ReaderStep`, `Step(r)`, `runRestore(r)`, `CycleStep(g)`) is the Go
scheduler's. Requests, crashes and the firing of jobs are never fair. Nor are the faults of
the pipeline, where a step may have to wait: `CompStep` and `MainStep` are without them, so
that an upload which waits for data or for the end is not rescued by an error of S3. In
the other modules a failure is an alternative of a step whose success is enabled beside it,
so that fairness forces the step and never the failure.
Weak fairness is enough for the semaphore because a token that is given back is
taken by a waiting sender. Strong fairness of `LoopReturns` is Go's `select`: when a tick
and the closed channel are both ready it picks one at random, so a loop that comes back
to it again and again takes the channel at last. Two assumptions go beyond the code and are stated where
they are used: in `BackupService`, `IncrementalEngines`, `Restore` and `Collector` a command, a query or a
download that was started returns (the code gives it no timeout), and in
`DumpPipeline` a dump that has not stalled goes on (`PipelineReturns` has this as its
premise; section 5 says what happens without it) and S3 takes what it is sent, or fails.
`Restore` also assumes that the tool of the target dies with the process that started it.

## 4. Proofs

Each theorem holds for all values of the constants that satisfy the assumptions of its
module: any number of actors, rows, requests, restarts and faults, where the runs of
section 3 have two or three. Each `...Proofs` module has an inductive invariant, the
theorem `Invariance` about it (`StreamIsLaidOut` for the stream), and the others as
consequences. TLC checked each of these
invariants on the instance of the component's run before it was proved.

| Module | Theorems (what they state) |
|---|---|
| `BackupServiceProofs` | `TypeCorrect`, `SlotsCounted` (`SlotAccounting`), `RetentionSafe` (`RetentionKeepsEnough`), `LossExplained` (`LostObjectExplained`), `NoticesTrue` (`NotificationTruthful`), `ImplementsLifecycle` (`LifecycleSpec`), `Invariance` (`IInv`), `OutcomeInvariance` (`OInv`) |
| `DumpPipelineProofs` | of the pipeline: `TypeCorrect`, `NothingLeft` (`NothingLeftBehind`), `ImplementsContract` (`ContractSpec`); of the stream: `StreamIsLaidOut` (`StreamInv`), `StreamTypeCorrect`, `DecryptsAPrefix` (`DecryptsPrefix`), `TruncationIsDetected` (`TruncationDetected`), `NoAlarmIsFalse` (`NoFalseAlarm`) |
| `SchedulerProofs` | `TypeCorrect`, `EngineMatchesMap` (`JobsMatchMap`), `RowsFollowed` (`EngineFollowsTable`) |
| `IncrementalEnginesProofs` | `TypeCorrect`, `OwnConfigFound` (`OwnConfig`), `OnlyNamesakesMislead` (`MisdirectedOnlyByNamesake`) |
| `StorageProvidersProofs` | `TypeCorrect`, `NothingForgotten` (`UpdatesKept`), `SealedOnce` (`CredentialsIntact`), `SingleDefault` (`OneDefault`) |
| `RestoreProofs` | `TypeCorrect`, `SuccessIsWhole` (`RestoredWhole`), `MixturesHaveReasons` (`MixtureExplained`) |
| `SessionsProofs` | `TypeCorrect`, `OnlyValidServed` (`ServedWasValid`), `ValidNotRefused` (`RefusedIsInvalid`), `OldSessionsDropped` (`SessionsOfCurrentPassword`), `ChangeAuthorised` (`ChangeIsAuthorised`) |
| `CollectorProofs` | of the connections: `ConnInvariance`, `ForeignKeysHold` (`ConnTypeOK`); of both together: `CollectorTypeCorrect`, `OneServerReported` (`ReportOfOneServer`), `RefusalsExplained` (`MissingExplained`), `EveryConnectionSeen` (`NobodySkipped`) |

### Assumptions

They are those of the modules, and TLC evaluates them on every run. Most say that a
bound is a natural number and that a constant has its type. Those that say more:

- `RetentionAssumption`: no schedule keeps fewer than `LowestKeep`, unless 0, which is
  unlimited. It names the lowest limit and excludes nothing.
- `BoundsAssumption`: there is a slot (`NewService` makes three).
- `StatusAssumption`: the CHECK on `verify_status` admits "pending", the default of a
  new row, as it does in `internal/repository/postgres/db.go:114`. Both sets of values
  that the runs use, the shipped and the documented one, contain it.
- `SessionsAssumption`: the markers for "no token" and "no password" are neither.
- `EnginesAssumption`: the ID of a schedule is not "" (it is a UUID).
- `StreamAssumption`: the slice given to `Read` is not empty (`io.Copy` gives 32 KB).
- `ConnectionsAssumption`: the databases of a server are among `Databases`, and the
  connections at the start (`Home`) name servers that exist.
- `CollectorAssumption`: the loop is not a request, and what `MayFail` names are statements
  whose errors `migrate` drops. All of them are allowed.

### The inductive invariants

None of the properties is inductive alone; what each needs in addition says why the code
is right.

**Backup service.** `IInv == TypeOK /\ SlotAccounting /\ WorkerInv /\ CallerInv /\
RetentionKeepsEnough`. Retention needs
that a verification, which writes a row back from an old copy, cannot move a newer backup
out of the count unnoticed: schedule and type are not among the columns that an UPDATE
writes (`WrittenRow`), and a success that a failed check takes back is in `removed`. It also
needs that the backup a sweep
is about to drop is on its own list: then it has enough newer ones itself, and these
are newer than every older backup on any other list too. The lifecycle needs that a worker which has not settled finds
its row "running" (`WorkerInv`), and that no verification can be under way on a row
that is still running, or on any row if the schema does not admit the status. The
cardinalities need `HeldSlot` (a worker about to release its slot is counted),
`CountsKept` (a backup that counts goes on counting unless a sweep drops it) and
`NewerKept` (so the number of newer ones does not fall).
`OInv == IInv /\ Outcomes /\ Copies` adds table, bucket and notifications. `Outcomes` says
of each backup what its row is at each step of its worker, so that the announcement
finds what was written. `Copies` is the part one would not guess: a verification that
writes its copy back writes the path the row has, and a Delete takes the object of a
settled backup only. Without the first, an old copy could give a row a path it no longer
has; without the second, a worker could upload, lose the object and still report success.

**Pipeline.** `Counting` follows each chunk from the dump to the uploader; `SentOnce`
and `Places` tie the place of the worker to that of the goroutine through the channel
(a worker that waits for the process has had nil from the channel); `ReadToEnd` and
`Delivered` say that a goroutine without an error has read to the end of the output and
delivered it with its trailers, unless the worker closed the pipe. The last condition is
why success means a whole object, although the errors of both `Close` calls are dropped:
a worker that closed the pipe fails anyway. `ImplementsContract` uses the invariant
at the one step that answers with success.

**Stream.** `StreamInv` claims some `off`, where `off[k]` is the payload before frame `k`,
such that frame `k` starts after `2 + off[k] + 3 * (k - 1)` units of the wire
(`Layout`: every frame unit by unit as far as it has arrived, then nothing but zeroes), and
that the reader stands at the start of a frame with exactly `off[k]` units handed out or
buffered (`Standing`). A cut only makes the wire shorter, and `Layout` says nothing of units
that are not there, so that it survives a cut anywhere. That an empty frame has a length
of 1, the tag, is what tells its header from the end of the stream; and as a frame knows its nonce
and each unit its place, what is read whole opens to what was sealed. The end is reported
only where `k = frames + 1`, where the payload is complete. The proof is for a payload of
any length in any slices, where the run has at most three slices of three units.

**Scheduler.** `Numbering`: the engine never gives a number twice, so that "drop the
entry the map names" drops the job of that schedule and no other. `Alone` and `Follows`:
of two handlers at work on one schedule one has set it adrift; else what a handler is
about to add is what the row says.

**Engines.** `Found` says what the shared file may contain at each step, and whom a run
has to blame; `Used` carries that over the read of the command, `Reported` over its end.

**Providers.** How often, and with which keys, a credential is sealed, separately for
rows (`Sealed`) and for requests before `MustEncrypt` (`Opened`), and never when it is
empty; the bound of one more
per restart is what makes it inductive, as set-default opens and seals in two steps with
perhaps another master key between. `Asked` and `Filled` say of each field of a request
that it is set by the request or is what the row has, or had when it was read, or is empty in
a new row. `Cleared`: a request
that makes a default and was not disturbed finds no other.

**Restore.** `RivalsSeen`: two tools at work on one target know of each other. `Replaced`:
as long as a tool is at work without rivals, what it has replaced is its backup's.
`SuccessIsWhole` is about the step that writes success, `MixturesHaveReasons` about what
a target contains at any later time and what the table of restores says of it: a mixture
left by a restore that failed stays explained however many restores come after it.

**Sessions.** `Copied` says what a copy of a session is worth at each step after the
session may be gone, and `KeptWhileValid` that only age and those who end it take a session
out; together they give both directions. `Compared`: a caller about to insert or
replace has given the password in force, or was overtaken.

**Connections and collector.** For the connections the foreign keys need the type of what
a discovery has in hand. The collector adds `SchemaHistory` (what each start has made of
the tables: once all of `createHypertables` has been through nothing is missing, a P2 table
is proper unless the first start lost it, and the columns are there unless a later start's
ALTER failed too; `MissingExplained` follows from it), `OfThisProcess` (a goroutine is at
work only in a process that a start has begun) and `CycleInv` (what a cycle has yet to
see is its list, or the list without the connection in hand, and health check and rows of a
report are of the server that the copy in hand names, which is the one that was read).

### Only model-checked

- Liveness: `BackupSettles`, `PipelineReturns`, `ReaderEnds`,
  `RunsEnd`, `RestoreSettles`, `LoopStops`. Fairness and ENABLED are out of the
  prover's reach.

## 5. Where code and documentation disagree

One is shown by a run (`findings` in `PROJECT.json`): in `restore_sealed` the column that
tells `runRestore` to decrypt is never set, so that an encrypted backup fails to restore.
Setting it would not be enough: `internal/restore/service.go:135` calls the one-shot
`Decrypt`, which does not open the frames that `EncryptStream` has written (`DecryptFails`).

Three that weigh as much are in the models, where a property with the documented
statement is violated in a few steps:

1. `executeBackup` applies retention when the new backup has only been queued
   (`internal/schedule/scheduler.go:128`), so a schedule settles one above its limit.
   `site/guide/scheduling.md:80` says "After each backup completes". `RetentionKeepsEnough`
   is therefore about what is kept, and not about the limit.
2. The CHECK at `internal/repository/postgres/db.go:114` does not admit "verifying", which
   `StartVerification` writes (`internal/backup/service.go:619`), so that no verification
   starts on a row that is there. `store` has the shipped values, and with them nothing of a
   verification ever reaches the table. `verify` uses the values that
   `site/guide/restore.md:109` documents: it is about the code that a corrected CHECK would
   set free, and shows nothing of verifications in the program as it is.
3. When an upload fails the worker waits for the goroutine before it kills the dump
   (`internal/backup/service.go:225`); with a dump that hangs both wait for ever, and a slot
   is lost. The comment above says "break the pipe so goroutine stops immediately".
   `PipelineReturns` has "the dump does not hang" as its premise.

Others are part of the models without a run of their own: a backup that was ever
restored keeps its row when it is deleted, and loses its object
(`site/guide/scheduling.md:93`; `LostObjectExplained` names the case); a refused
delete of a schedule leaves it enabled without a job (`site/guide/scheduling.md:20`;
`EngineFollowsTable`); a truncated object stays in the bucket when the dump dies
(`site/architecture/streaming-pipeline.md:493`; `PipelineContract`); the lookup of a
previous incremental backup asks for the schedule "" and finds none, so every
incremental run is a full one (`site/guide/running-backups.md:32`; `HasPrevious`);
pgBackRest keeps two full backups whatever the schedule says
(`site/guide/scheduling.md:87`; `RetentionFull`); a restore to MySQL names no
database (`Accepted`); the default provider comes back with a masked secret
(`HasAccess`); the start that makes `db_metrics` has altered it before, so that on a new
installation with TimescaleDB the metrics of databases are lost until the next start, and
without TimescaleDB there is no `health_checks` and nothing is collected at all
(`internal/repository/postgres/db.go:174`; `MissingExplained` names both); a CREATE of
`migrate` that fails once at the first start leaves a table with generic columns for good
(`internal/repository/postgres/db.go:179`; `MissingExplained` names it too); after Stop the
loop may run one more cycle for a tick that came before, where the comment at
`internal/monitoring/collector.go:65` says "after the current cycle" (`Tick`); the comment
at `internal/connection/service.go:50` says that a deletion cascades to schedules and
backups, which in fact refuse it (`handleDelete`); a discovery selects again what a user
deselected (`internal/repository/postgres/connection.go:121`; `Upserted`); a login that overlaps a change of password keeps
its session (`SessionsOfCurrentPassword` names it).

Met on the way and outside the models: `handleHealth` hands `ssl_mode` to the MySQL driver
as it is, where the collector and the connection test translate it, so that live health
of a MySQL server with the default "prefer" may be "down" where the collector finds it
healthy (`internal/connection/handler.go:205`); `is_selected` is said to include a database
in backups (`internal/connection/service.go:101`), and no backup reads it;
`parseIntervalSeconds` names the format "1 day 02:30:00" and returns 0 for it
(`internal/monitoring/collector.go:1021`).

## 6. Not modelled

- Lists, statistics, downloads, tests and live health of connections, the figures that
  the metrics' queries compute and messages of notifications:
  they change no state that the rest reads, or are I/O and formatting.
- Key derivation, AES-GCM itself, what one-shot `Encrypt` and `Decrypt` compute: no state;
  sealing is symbolic.
- Data races in the Go memory model: the shared memory is the scheduler's map (under
  its mutex), the map of sessions (under its lock), the channel and the pipe of the
  pipeline, all modelled as atomic, and the password, which is covered (section 2).
- Settings (key-value rows that no other part reads), targets of notifications (rows
  written by single statements), configuration, routing, the web interface.

## 7. Plan

Done: the modules above, in the order backup service, pipeline, scheduler, stream,
engines, providers, restore, sessions, connections, collector, and the proofs of section 4.

Next: what the steps of `Delivered` in the pipeline, of `StreamInv` in the stream and of
`Outcomes` in the backup service say together, across the contract: an object behind a row
that says success is one that `DecryptStream` reads to its end.
