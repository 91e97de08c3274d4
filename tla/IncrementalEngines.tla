------------------------- MODULE IncrementalEngines -------------------------
(***************************************************************************)
(* Incremental backups: runIncrementalBackup (internal/backup/service.go)  *)
(* and the engines it hands over to (incremental.go, pgbackrest.go,        *)
(* xtrabackup.go, mariabackup.go).  Up to three runs go on at a time.      *)
(*                                                                         *)
(* XtraBackup and Mariabackup stream into an object of their own (module   *)
(* DumpPipeline).  pgBackRest is told what to do by a configuration file,  *)
(* in a directory named after IncrementalSchedule.ID; the service leaves   *)
(* that field empty, so all runs write the same file.  They write it,      *)
(* start stanza-create and start backup, in three steps; both commands     *)
(* read the file again.                                                    *)
(*                                                                         *)
(* pgBackRest itself is external: a command fails when the file has no     *)
(* section for its --stanza, a stanza belongs to the cluster it was        *)
(* created for, and backup expires old backups of the stanza.              *)
(***************************************************************************)
EXTENDS Naturals, Sequences, FiniteSets

CONSTANTS Runs,      \* bound: the backups, in any order
          Conns, Provs,
          Name,      \* Connection.Name, a sequence of characters
          DBType,    \* Connection.DBType
          Plans,     \* which connections the runs are tried with
          Schedule   \* schedule_id of the backups

ASSUME EnginesAssumption == Plans \subseteq [Runs -> Conns] /\ Schedule # ""

VARIABLES
    pc, conn, prov,   \* per run: its next step and its arguments
    row,              \* status of its row
    conf,             \* the contents of pgbackrest.conf
    stanza,           \* cluster each stanza of a repository was created for
    repo,             \* backups each repository holds, oldest first
    using,            \* per run: the configuration its backup command has read
    from, at,         \* per run: where its data came from, and its repository
    rivals            \* history: runs that wrote the file since this one began to

runVars == <<pc, conn, prov, row>>
toolVars == <<conf, stanza, repo, using, from, at, rivals>>
vars == <<runVars, toolVars>>

-----------------------------------------------------------------------------
(* Definitions named "...Bug" are variants with a plausible mistake, which a *)
(* property must reject; no specification uses them.                         *)

\* Letters, digits, "-" and "_" stay, " " and "." become "-", the rest goes.
Kept == {"a", "b", "-", "_"}
sanitizeStanzaName(name) ==
    LET dashed == [i \in 1 .. Len(name) |-> IF name[i] \in {" ", "."} THEN "-" ELSE name[i]]
        result == SelectSeq(dashed, LAMBDA c : c \in Kept)
    IN IF result = <<>> THEN <<"default">> ELSE result

\* The configuration file of connection c on provider p, up to what the
\* commands tell apart; repo1-path is pgbackrest/<name>/<stanza>.
Config(c, p) == [conn |-> c, stanza |-> sanitizeStanzaName(Name[c]), prov |-> p, path |-> Name[c]]
Empty == [conn |-> "none"]
Garbled == [conn |-> "garbled"]   \* a shorter file written over a longer one
NoRepo == [prov |-> "none", path |-> <<>>, stanza |-> <<>>]
Repo(f) == [prov |-> f.prov, path |-> f.path, stanza |-> f.stanza]

Configs == {Config(c, p) : c \in Conns, p \in Provs}
Repos == {Repo(f) : f \in Configs}
Mine(r) == Config(conn[r], prov[r])
Postgres(r) == DBType[conn[r]] = "postgresql"

\* repo1-retention-full: a backup stays while fewer than two full ones follow.
RetentionFull == 2
Expire(s) ==
    LET after(i) == {j \in i + 1 .. Len(s) : s[j].type = "full"}
    IN SubSeq(s, 1 + Cardinality({i \in 1 .. Len(s) : Cardinality(after(i)) >= RetentionFull}), Len(s))

Init ==
    /\ pc = [r \in Runs |-> "queued"] /\ row = [r \in Runs |-> "running"]
    /\ conn \in Plans /\ prov \in [Runs -> Provs]
    /\ conf = Empty
    /\ stanza = [k \in Repos |-> "none"] /\ repo = [k \in Repos |-> <<>>]
    /\ using = [r \in Runs |-> Empty]
    /\ from = [r \in Runs |-> "none"] /\ at = [r \in Runs |-> NoRepo]
    /\ rivals = [r \in Runs |-> {}]

\* The successful incremental backups of schedule s beyond the newest keep.
ListOldestByBackupType(s, keep) ==
    LET bs == {b \in Runs : row[b] = "success" /\ s = Schedule}
    IN IF Cardinality(bs) <= keep THEN {} ELSE bs

\* runIncrementalBackup asks for schedule "", so that it never finds one.
HasPrevious == ListOldestByBackupType("", 1) # {}
Type == IF HasPrevious THEN "incr" ELSE "full"

Goto(r, l) == pc' = [pc EXCEPT ![r] = l] /\ UNCHANGED <<conn, prov, row>>
End(r, status) ==
    /\ pc' = [pc EXCEPT ![r] = "ended"]
    /\ row' = [row EXCEPT ![r] = status]
    /\ UNCHANGED <<conn, prov>>

\* BackupIncremental of the streaming engines always returns an error.
RunEngine(r) ==
    /\ pc[r] = "queued"
    /\ IF Postgres(r) THEN Goto(r, "truncate")
       ELSE IF Type = "full" THEN Goto(r, "stream") ELSE End(r, "failed")
    /\ UNCHANGED toolVars

\* No engine, no provider, no client, no binary, no directory: nothing was done.
EngineUnavailable(r) ==
    /\ pc[r] \in {"queued", "truncate", "stream"}
    /\ End(r, "failed")
    /\ UNCHANGED toolVars

\* runXtraBackup and runMariabackup, by the contract of their pipeline.
Stream(r) ==
    /\ pc[r] = "stream"
    /\ \/ /\ End(r, "success")
          /\ from' = [from EXCEPT ![r] = conn[r]]
       \/ End(r, "failed") /\ UNCHANGED from
    /\ UNCHANGED <<conf, stanza, repo, using, at, rivals>>

-----------------------------------------------------------------------------
(* pgBackRest.  os.WriteFile truncates the file and then writes it. *)
Writing == {"fill", "stanza", "backup"}
Disturb(r) == rivals' = [s \in Runs |-> IF s # r /\ pc[s] \in Writing THEN rivals[s] \cup {r} ELSE rivals[s]]

WriteConfigOnceBug(r) == \* a file that is there is left as it is
    /\ pc[r] = "truncate"
    /\ IF conf = Empty THEN Goto(r, "fill") ELSE Goto(r, "stanza")
    /\ UNCHANGED toolVars

TruncateConfig(r) ==
    /\ pc[r] = "truncate"
    /\ conf' = Empty
    /\ Goto(r, "fill")
    /\ Disturb(r)
    /\ UNCHANGED <<stanza, repo, using, from, at>>

WriteConfig(r) ==
    /\ pc[r] = "fill"
    /\ \/ conf' \in (IF conf = Empty THEN {Mine(r)} ELSE {Mine(r), Garbled}) /\ Goto(r, "stanza")
       \/ UNCHANGED conf /\ End(r, "failed")
    /\ Disturb(r)
    /\ UNCHANGED <<stanza, repo, using, from, at>>

\* The command finds its --stanza in the file it reads.
Readable(r) == conf \in Configs /\ conf.stanza = Mine(r).stanza

StanzaCreateRetryBug(r) == \* again, until it succeeds
    /\ pc[r] = "stanza"
    /\ IF Readable(r) /\ stanza[Repo(conf)] \in {"none", conf.conn}
       THEN stanza' = [stanza EXCEPT ![Repo(conf)] = conf.conn] /\ Goto(r, "backup")
       ELSE UNCHANGED <<stanza, runVars>>
    /\ UNCHANGED <<conf, repo, using, from, at, rivals>>

\* Whatever stanza-create returns, the run goes on.
StanzaCreate(r) ==
    /\ pc[r] = "stanza"
    /\ \/ /\ Readable(r) /\ stanza[Repo(conf)] = "none"
          /\ stanza' = [stanza EXCEPT ![Repo(conf)] = conf.conn]
       \/ UNCHANGED stanza
    /\ Goto(r, "backup")
    /\ UNCHANGED <<conf, repo, using, from, at, rivals>>

BackupReadsAnyBug(r) == \* no --stanza: the file names only one
    /\ pc[r] = "backup"
    /\ IF conf \in Configs /\ stanza[Repo(conf)] = conf.conn
       THEN Goto(r, "copying") /\ using' = [using EXCEPT ![r] = conf]
       ELSE End(r, "failed") /\ UNCHANGED using
    /\ UNCHANGED <<conf, stanza, repo, from, at, rivals>>

BackupReads(r) ==
    /\ pc[r] = "backup"
    /\ IF Readable(r) /\ stanza[Repo(conf)] = conf.conn
       THEN Goto(r, "copying") /\ using' = [using EXCEPT ![r] = conf]
       ELSE End(r, "failed") /\ UNCHANGED using
    /\ UNCHANGED <<conf, stanza, repo, from, at, rivals>>

BackupDone(r) ==
    /\ pc[r] = "copying"
    /\ LET k == Repo(using[r]) IN
       /\ repo' = [repo EXCEPT ![k] = Expire(Append(@, [run |-> r, type |-> Type]))]
       /\ at' = [at EXCEPT ![r] = k]
       /\ from' = [from EXCEPT ![r] = using[r].conn]
    /\ End(r, "success")
    /\ UNCHANGED <<conf, stanza, using, rivals>>

BackupFails(r) ==
    /\ pc[r] = "copying"
    /\ End(r, "failed")
    /\ UNCHANGED toolVars

AllEnded == (\A r \in Runs : pc[r] = "ended") /\ UNCHANGED vars

Step(r) ==
    \/ RunEngine(r) \/ EngineUnavailable(r) \/ Stream(r)
    \/ TruncateConfig(r) \/ WriteConfig(r) \/ StanzaCreate(r)
    \/ BackupReads(r) \/ BackupDone(r) \/ BackupFails(r)
Next == (\E r \in Runs : Step(r)) \/ AllEnded

Spec == Init /\ [][Next]_vars
FairSpec == Spec /\ \A r \in Runs : WF_vars(Step(r))

-----------------------------------------------------------------------------
TypeOK ==
    /\ pc \in [Runs -> {"queued", "truncate", "fill", "stanza", "backup", "copying", "stream", "ended"}]
    /\ conn \in [Runs -> Conns] /\ prov \in [Runs -> Provs]
    /\ row \in [Runs -> {"running", "success", "failed"}]
    /\ conf \in Configs \cup {Empty, Garbled}
    /\ stanza \in [Repos -> Conns \cup {"none"}]
    /\ using \in [Runs -> Configs \cup {Empty}] /\ rivals \in [Runs -> SUBSET Runs]

\* The file says what a run wrote until its commands have read it, or
\* another run has written it in between: nothing else, and no older run,
\* can change what this one backs up.
OwnConfig == \A r \in Runs : pc[r] \in {"stanza", "backup"} /\ rivals[r] = {} => conf = Mine(r)

\* A run that reports success has backed up its own connection into its own
\* repository, or else a connection whose name comes out as the same stanza:
\* then the row says success, and the data is another server's.  The check
\* of --stanza against the file is all that keeps other runs apart.
MisdirectedOnlyByNamesake ==
    \A r \in Runs : row[r] = "success" /\ Postgres(r) =>
        \/ from[r] = conn[r] /\ at[r] = Repo(Mine(r))
        \/ \E s \in rivals[r] : Mine(s).stanza = Mine(r).stanza

\* Every run ends, even one whose configuration was emptied or garbled.
RunsEnd == \A r \in Runs : pc[r] # "ended" ~> pc[r] = "ended"
=============================================================================
