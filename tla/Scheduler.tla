------------------------------ MODULE Scheduler ------------------------------
(***************************************************************************)
(* The cron scheduler (src/internal/schedule): rows of the "schedules"     *)
(* table, the cron engine's live entries, and the scheduler's map from     *)
(* schedule IDs to entry IDs.  A handler writes the row and the engine in  *)
(* two steps; only the second one holds the scheduler's mutex, so handlers *)
(* interleave between them.  A job keeps the schedule it was added with,   *)
(* which for an update is the body of the request and not the row.         *)
(***************************************************************************)
EXTENDS Naturals, FiniteSets

CONSTANTS Schedules,   \* schedule IDs; each is given out once
          Callers,     \* goroutines of HTTP handlers
          MaxEdits,    \* bound: writes of schedules rows
          MaxCrashes   \* bound: restarts of the process

ASSUME SchedulerAssumption == MaxEdits \in Nat /\ MaxCrashes \in Nat

VARIABLES
    rows,      \* IDs with a row in "schedules"
    cfg,       \* the configuration in each row
    fresh,     \* IDs not yet given out
    used,      \* IDs that rows of "backups" refer to
    jobs,      \* live entries of the cron engine
    entries,   \* the scheduler's map: entry ID, or 0
    nextEntry, \* the engine's entry counter
    pc, arg,   \* each caller: its next step, the schedule and body it has
    edits, crashes,
    adrift     \* history: IDs whose requests overlapped, or whose last delete
               \* was refused, or that were updated without a row

table   == <<rows, cfg, fresh, used>>
engine  == <<jobs, entries, nextEntry>>
callers == <<pc, arg>>
vars == <<table, engine, callers, edits, crashes, adrift>>

(* A configuration: the flag, whether the cron expression parses, the      *)
(* edit it comes from (which stands for everything else in it), and        *)
(* whether it names the connection and database of the schedule: an update *)
(* request may leave them out, and the row keeps them.                     *)
Config == [enabled : BOOLEAN, parses : BOOLEAN, edit : 0 .. MaxEdits, complete : BOOLEAN]
NoConfig == [enabled |-> FALSE, parses |-> FALSE, edit |-> 0, complete |-> FALSE]
NoArg == [sched |-> "none", body |-> NoConfig]
Job(i, s, f) == [id |-> i, sched |-> s, cfg |-> f]

Init ==
    /\ rows = {} /\ cfg = [s \in Schedules |-> NoConfig]
    /\ fresh = Schedules /\ used = {}
    /\ jobs = {} /\ entries = [s \in Schedules |-> 0] /\ nextEntry = 1
    /\ pc = [c \in Callers |-> "idle"] /\ arg = [c \in Callers |-> NoArg]
    /\ edits = 0 /\ crashes = 0 /\ adrift = {}

-----------------------------------------------------------------------------
(* The scheduler. *)
Without(s) == {j \in jobs : j.id # entries[s]}

(* Definitions named "...Bug" are variants with a plausible mistake, which a *)
(* property must reject; no specification uses them.                         *)
AddJobTwiceBug(s, f) == \* the entry there is stays in the engine
    IF f.enabled /\ f.parses
    THEN /\ jobs' = jobs \cup {Job(nextEntry, s, f)}
         /\ entries' = [entries EXCEPT ![s] = nextEntry]
         /\ nextEntry' = nextEntry + 1
    ELSE UNCHANGED <<jobs, entries, nextEntry>>

AddJobKeepsBug(s, f) == \* a disabled schedule keeps its entry
    IF f.enabled /\ f.parses
    THEN /\ jobs' = Without(s) \cup {Job(nextEntry, s, f)}
         /\ entries' = [entries EXCEPT ![s] = nextEntry]
         /\ nextEntry' = nextEntry + 1
    ELSE UNCHANGED <<jobs, entries, nextEntry>>

\* AddJob, under the mutex: drop the entry there is, then addJob, which fails
\* on an expression that does not parse.
AddJob(s, f) ==
    IF f.enabled /\ f.parses
    THEN /\ jobs' = Without(s) \cup {Job(nextEntry, s, f)}
         /\ entries' = [entries EXCEPT ![s] = nextEntry]
         /\ nextEntry' = nextEntry + 1
    ELSE /\ jobs' = Without(s)
         /\ entries' = [entries EXCEPT ![s] = 0]
         /\ UNCHANGED nextEntry

RemoveJob(s) ==
    /\ jobs' = Without(s)
    /\ entries' = [entries EXCEPT ![s] = 0]
    /\ UNCHANGED nextEntry

-----------------------------------------------------------------------------
(* The handlers. *)
Return(c) ==
    /\ pc' = [pc EXCEPT ![c] = "idle"]
    /\ arg' = [arg EXCEPT ![c] = NoArg]

Proceed(c, next, s, f) ==
    /\ pc' = [pc EXCEPT ![c] = next]
    /\ arg' = [arg EXCEPT ![c] = [sched |-> s, body |-> f]]

\* Another handler is between its two steps on s.
Contended(c, s) == \E d \in Callers \ {c} : pc[d] # "idle" /\ arg[d].sched = s
Overlap(c, s) == adrift' = IF Contended(c, s) THEN adrift \cup {s} ELSE adrift

\* handleCreate: Service.Create enables the schedule and inserts the row.
CreateRow(c, s, parses) ==
    LET f == [enabled |-> TRUE, parses |-> parses, edit |-> edits + 1, complete |-> TRUE] IN
    /\ pc[c] = "idle" /\ s \in fresh /\ edits < MaxEdits
    /\ rows' = rows \cup {s} /\ fresh' = fresh \ {s}
    /\ cfg' = [cfg EXCEPT ![s] = f]
    /\ edits' = edits + 1
    /\ Proceed(c, "add", s, f)
    /\ UNCHANGED <<used, engine, crashes, adrift>>

\* handleUpdate: an UPDATE that meets no row is no error.
UpdateRow(c, s, f) ==
    /\ pc[c] = "idle" /\ s \notin fresh /\ edits < MaxEdits
    /\ f.edit = edits + 1 /\ edits' = edits + 1
    /\ cfg' = IF s \in rows THEN [cfg EXCEPT ![s] = [f EXCEPT !.complete = TRUE]] ELSE cfg
    /\ adrift' = IF s \in rows /\ ~Contended(c, s) THEN adrift \ {s} ELSE adrift \cup {s}
    /\ Proceed(c, "add", s, f)
    /\ UNCHANGED <<rows, fresh, used, engine, crashes>>

\* Both end with AddJob, on the body of the request.
Register(c) ==
    /\ pc[c] = "add"
    /\ AddJob(arg[c].sched, arg[c].body)
    /\ Return(c)
    /\ UNCHANGED <<table, edits, crashes, adrift>>

\* handleDelete: out of the engine first,
Unregister(c, s) ==
    /\ pc[c] = "idle" /\ s \notin fresh
    /\ RemoveJob(s)
    /\ Proceed(c, "erase", s, NoConfig)
    /\ Overlap(c, s)
    /\ UNCHANGED <<table, edits, crashes>>

\* then out of the table, unless backups refer to the schedule.
EraseRow(c) ==
    LET s == arg[c].sched IN
    /\ pc[c] = "erase"
    /\ rows' = IF s \in used THEN rows ELSE rows \ {s}
    /\ adrift' = IF s \in used THEN adrift \cup {s} ELSE adrift
    /\ Return(c)
    /\ UNCHANGED <<cfg, fresh, used, engine, edits, crashes>>

-----------------------------------------------------------------------------
\* executeBackup of job j, by cron or by RunNow with the row as it is: the
\* backup's row needs the connection and the schedule's row.
Execute(s, f) == used' = IF s \in rows /\ f.complete THEN used \cup {s} ELSE used

Fire(j) ==
    /\ j \in jobs
    /\ Execute(j.sched, j.cfg)
    /\ UNCHANGED <<rows, cfg, fresh, engine, callers, edits, crashes, adrift>>

RunNow(s) ==
    /\ s \in rows
    /\ Execute(s, cfg[s])
    /\ UNCHANGED <<rows, cfg, fresh, engine, callers, edits, crashes, adrift>>

\* The last backup of a schedule is deleted (by a user, see BackupService).
BackupsGone(s) ==
    /\ s \in used
    /\ used' = used \ {s}
    /\ UNCHANGED <<rows, cfg, fresh, engine, callers, edits, crashes, adrift>>

\* The process restarts, and Start adds a job for every enabled row; one
\* that does not parse is skipped with a warning.
Startable == {s \in rows : cfg[s].enabled /\ cfg[s].parses}

Restart ==
    /\ crashes < MaxCrashes /\ crashes' = crashes + 1
    /\ \E num \in [Startable -> 1 .. Cardinality(Startable)] :
        /\ \A s, t \in Startable : num[s] = num[t] => s = t
        /\ jobs' = {Job(num[s], s, cfg[s]) : s \in Startable}
        /\ entries' = [s \in Schedules |-> IF s \in Startable THEN num[s] ELSE 0]
    /\ nextEntry' = Cardinality(Startable) + 1
    /\ pc' = [c \in Callers |-> "idle"] /\ arg' = [c \in Callers |-> NoArg]
    /\ adrift' = {}
    /\ UNCHANGED <<table, edits>>

Handler(c) ==
    \/ \E s \in Schedules, parses \in BOOLEAN : CreateRow(c, s, parses)
    \/ \E s \in Schedules, f \in Config : UpdateRow(c, s, f)
    \/ Register(c)
    \/ \E s \in Schedules : Unregister(c, s)
    \/ EraseRow(c)

Next ==
    \/ \E c \in Callers : Handler(c)
    \/ \E j \in jobs : Fire(j)
    \/ \E s \in Schedules : RunNow(s) \/ BackupsGone(s)
    \/ Restart

Spec == Init /\ [][Next]_vars

-----------------------------------------------------------------------------
TypeOK ==
    /\ rows \subseteq Schedules /\ cfg \in [Schedules -> Config]
    /\ fresh \subseteq Schedules \ rows /\ used \subseteq rows
    /\ jobs \subseteq [id : Nat, sched : Schedules, cfg : Config]
    /\ entries \in [Schedules -> Nat] /\ nextEntry \in Nat \ {0}
    /\ pc \in [Callers -> {"idle", "add", "erase"}]
    /\ arg \in [Callers -> [sched : Schedules \cup {"none"}, body : Config]]
    /\ edits \in 0 .. MaxEdits /\ crashes \in 0 .. MaxCrashes
    /\ adrift \subseteq Schedules

\* The engine and the map agree however handlers interleave: every live job
\* is the one the map holds for its schedule, so that it can be replaced or
\* removed later and no schedule ever fires twice for one tick.
JobsMatchMap ==
    /\ \A j \in jobs : entries[j.sched] = j.id
    /\ \A s \in Schedules : entries[s] # 0 => \E j \in jobs : j.id = entries[s] /\ j.sched = s

Idle(s) == \A c \in Callers : pc[c] # "idle" => arg[c].sched # s
Runs(s) == {j.cfg : j \in {k \in jobs : k.sched = s}}

\* What a schedule's row asks to be run.  (The job of an update may lack the
\* connection that the row has.)
Asked(s) == IF s \in Startable THEN {cfg[s], [cfg[s] EXCEPT !.complete = FALSE]} ELSE {}

\* The engine runs what the table says: a schedule that no request is at work
\* on has a job with its own configuration if its row is enabled and parses,
\* and none otherwise, whatever happens to other schedules in between.  Three
\* things set a schedule adrift until its next update or the next start: two
\* requests for it that overlap, a delete the database refuses, which has
\* already removed the job, and an update of an unknown ID.
EngineFollowsTable ==
    \A s \in Schedules \ adrift :
        Idle(s) => IF s \in Startable THEN Runs(s) # {} /\ Runs(s) \subseteq Asked(s)
                                      ELSE Runs(s) = {}
=============================================================================
