-------------------------- MODULE SchedulerProofs --------------------------
(***************************************************************************)
(* Proofs about Scheduler, for every number of schedules, handlers, edits  *)
(* and restarts.                                                           *)
(***************************************************************************)
EXTENDS Scheduler, FiniteSetTheorems, TLAPS

-----------------------------------------------------------------------------
(* The inductive invariant, in parts. *)

Types == TypeOK /\ IsFiniteSet(rows)

\* The engine numbers its entries upwards, and the map uses no number twice.
Numbering ==
    /\ \A j \in jobs : j.id # 0
    /\ \A s \in Schedules : entries[s] < nextEntry
    /\ \A s, t \in Schedules : entries[s] = entries[t] /\ entries[s] # 0 => s = t

\* A handler between its two steps has a schedule that was created, and has it
\* alone, or the schedule is adrift.
Alone ==
    /\ \A c \in Callers : pc[c] # "idle" => arg[c].sched \in Schedules \ fresh
    /\ \A c, d \in Callers :
        c # d /\ pc[c] # "idle" /\ pc[d] # "idle" /\ arg[c].sched = arg[d].sched
            => arg[c].sched \in adrift
    /\ adrift \cap fresh = {}

\* What such a handler is about to do follows the row.
Follows(c) ==
    LET s == arg[c].sched IN
    s \notin adrift =>
        /\ pc[c] = "add" => /\ s \in rows
                            /\ cfg[s] \in {arg[c].body, [arg[c].body EXCEPT !.complete = TRUE]}
        /\ pc[c] = "erase" => Runs(s) = {}

IInv == /\ Types /\ Numbering /\ JobsMatchMap
        /\ Alone /\ \A c \in Callers : Follows(c)
        /\ EngineFollowsTable

-----------------------------------------------------------------------------
(* The engine and the map. *)

Engine == Types /\ Numbering /\ JobsMatchMap

\* Dropping the entry of a schedule drops all its jobs and no other.
LEMMA WithoutSchedule ==
    ASSUME Engine, NEW s \in Schedules
    PROVE  Without(s) = {j \in jobs : j.sched # s}
<1>1. ASSUME NEW j \in jobs PROVE j.id # entries[s] <=> j.sched # s
  <2>1. j.sched \in Schedules /\ j.id = entries[j.sched] /\ j.id # 0
    BY DEF Engine, Types, TypeOK, JobsMatchMap, Numbering
  <2> QED BY <2>1 DEF Engine, Numbering
<1> QED BY <1>1 DEF Without

\* The engine after RemoveJob, and after an AddJob that only removes.
LEMMA Removed ==
    ASSUME Engine, NEW s \in Schedules,
           jobs' = Without(s), entries' = [entries EXCEPT ![s] = 0], UNCHANGED nextEntry
    PROVE  /\ jobs' \subseteq [id : Nat, sched : Schedules, cfg : Config]
           /\ entries' \in [Schedules -> Nat] /\ nextEntry' \in Nat \ {0}
           /\ Numbering' /\ JobsMatchMap'
           /\ Runs(s)' = {} /\ \A t \in Schedules \ {s} : Runs(t)' = Runs(t)
<1>1. jobs' = {j \in jobs : j.sched # s}
  BY WithoutSchedule
<1>2. /\ jobs' \subseteq [id : Nat, sched : Schedules, cfg : Config]
      /\ entries' \in [Schedules -> Nat] /\ nextEntry' \in Nat \ {0}
  BY <1>1 DEF Engine, Types, TypeOK
<1>3. Numbering'
  BY <1>1 DEF Engine, Types, TypeOK, Numbering
<1>4. JobsMatchMap'
  BY <1>1 DEF Engine, Types, TypeOK, JobsMatchMap
<1>5. Runs(s)' = {} /\ \A t \in Schedules \ {s} : Runs(t)' = Runs(t)
  BY <1>1 DEF Runs
<1> QED BY <1>2, <1>3, <1>4, <1>5

\* The engine after an AddJob that adds.
LEMMA Added ==
    ASSUME Engine, NEW s \in Schedules, NEW f \in Config,
           jobs' = Without(s) \cup {Job(nextEntry, s, f)},
           entries' = [entries EXCEPT ![s] = nextEntry], nextEntry' = nextEntry + 1
    PROVE  /\ jobs' \subseteq [id : Nat, sched : Schedules, cfg : Config]
           /\ entries' \in [Schedules -> Nat] /\ nextEntry' \in Nat \ {0}
           /\ Numbering' /\ JobsMatchMap'
           /\ Runs(s)' = {f} /\ \A t \in Schedules \ {s} : Runs(t)' = Runs(t)
<1> DEFINE new == Job(nextEntry, s, f)
<1>0. new = [id |-> nextEntry, sched |-> s, cfg |-> f] /\ nextEntry \in Nat \ {0}
  BY DEF Job, Engine, Types, TypeOK
<1> HIDE DEF new
<1>1. jobs' = {j \in jobs : j.sched # s} \cup {new}
  BY WithoutSchedule DEF new
<1>2. /\ jobs' \subseteq [id : Nat, sched : Schedules, cfg : Config]
      /\ entries' \in [Schedules -> Nat] /\ nextEntry' \in Nat \ {0}
  BY <1>0, <1>1 DEF Engine, Types, TypeOK
<1>3. Numbering'
  <2>1. \A j \in jobs' : j.id # 0
    BY <1>0, <1>1 DEF Engine, Numbering
  <2>2. \A t \in Schedules : entries'[t] < nextEntry'
    BY <1>0 DEF Engine, Types, TypeOK, Numbering
  <2>3. \A t, u \in Schedules : entries'[t] = entries'[u] /\ entries'[t] # 0 => t = u
    BY <1>0 DEF Engine, Numbering
  <2> QED BY <2>1, <2>2, <2>3 DEF Numbering
<1>4. JobsMatchMap'
  <2>1. ASSUME NEW j \in jobs' PROVE entries'[j.sched] = j.id
    BY <1>0, <1>1 DEF Engine, Types, TypeOK, JobsMatchMap
  <2>2. ASSUME NEW t \in Schedules, entries'[t] # 0
        PROVE  \E j \in jobs' : j.id = entries'[t] /\ j.sched = t
    <3>1. CASE t = s
      BY <1>0, <1>1, <3>1 DEF Engine, Types, TypeOK
    <3>2. CASE t # s
      BY <1>1, <2>2, <3>2 DEF Engine, JobsMatchMap
    <3> QED BY <3>1, <3>2
  <2> QED BY <2>1, <2>2 DEF JobsMatchMap
<1>5. Runs(s)' = {f} /\ \A t \in Schedules \ {s} : Runs(t)' = Runs(t)
  BY <1>0, <1>1 DEF Runs
<1> QED BY <1>2, <1>3, <1>4, <1>5

\* What EngineFollowsTable says of one schedule.
Followed(s) == IF s \in Startable THEN Runs(s) # {} /\ Runs(s) \subseteq Asked(s) ELSE Runs(s) = {}

-----------------------------------------------------------------------------
(* The steps of the proof. *)

LEMMA InitInv == Init => IInv
<1> SUFFICES ASSUME Init PROVE IInv
  OBVIOUS
<1>1. NoConfig \in Config
  BY SchedulerAssumption DEF NoConfig, Config
<1>2. Types
  BY <1>1, SchedulerAssumption, FS_EmptySet DEF Init, Types, TypeOK, NoArg
<1>3. Numbering /\ JobsMatchMap
  BY DEF Init, Numbering, JobsMatchMap
<1>4. Alone /\ \A c \in Callers : Follows(c)
  BY DEF Init, Alone, Follows
<1>5. EngineFollowsTable
  BY DEF Init, EngineFollowsTable, Runs, Startable
<1> QED BY <1>2, <1>3, <1>4, <1>5 DEF IInv

\* Register: only a handler that is alone with its schedule leaves it followed.
LEMMA RegisterStep == ASSUME IInv, NEW c \in Callers, Register(c) PROVE IInv'
<1>0. PICK s \in Schedules \ fresh, f \in Config : s = arg[c].sched /\ f = arg[c].body
  BY DEF Register, IInv, Types, TypeOK, Alone
<1>1. s \in Schedules \ fresh /\ f \in Config /\ pc[c] = "add"
  BY DEF Register
<1>2. /\ AddJob(s, f) /\ UNCHANGED <<rows, cfg, fresh, used, edits, crashes, adrift>>
      /\ pc' = [pc EXCEPT ![c] = "idle"] /\ arg' = [arg EXCEPT ![c] = NoArg]
  BY <1>0 DEF Register, Return, table
<1>3. Engine
  BY DEF IInv, Engine
<1>4. /\ jobs' \subseteq [id : Nat, sched : Schedules, cfg : Config]
      /\ entries' \in [Schedules -> Nat] /\ nextEntry' \in Nat \ {0}
      /\ Numbering' /\ JobsMatchMap'
      /\ Runs(s)' = IF f.enabled /\ f.parses THEN {f} ELSE {}
      /\ \A t \in Schedules \ {s} : Runs(t)' = Runs(t)
  <2>1. CASE f.enabled /\ f.parses
    <3>1. /\ jobs' = Without(s) \cup {Job(nextEntry, s, f)}
          /\ entries' = [entries EXCEPT ![s] = nextEntry] /\ nextEntry' = nextEntry + 1
      BY <1>2, <2>1 DEF AddJob
    <3> QED BY <1>1, <1>3, <2>1, <3>1, Added
  <2>2. CASE ~(f.enabled /\ f.parses)
    <3>1. jobs' = Without(s) /\ entries' = [entries EXCEPT ![s] = 0] /\ UNCHANGED nextEntry
      BY <1>2, <2>2 DEF AddJob
    <3> QED BY <1>1, <1>3, <2>2, <3>1, Removed
  <2> QED BY <2>1, <2>2
<1>5. Types'
  <2>1. NoArg \in [sched : Schedules \cup {"none"}, body : Config]
    BY SchedulerAssumption DEF NoArg, NoConfig, Config
  <2> QED BY <1>2, <1>4, <2>1 DEF IInv, Types, TypeOK
<1>6. \A d \in Callers \ {c} : pc'[d] = pc[d] /\ arg'[d] = arg[d]
  BY <1>2 DEF IInv, Types, TypeOK
<1>6a. pc'[c] = "idle"
  BY <1>2 DEF IInv, Types, TypeOK
<1>7. Alone'
  BY <1>2, <1>6, <1>6a DEF IInv, Alone
<1>8. ASSUME NEW d \in Callers PROVE Follows(d)'
  <2>1. CASE pc'[d] = "idle"
    BY <2>1 DEF Follows
  <2>2. CASE pc'[d] # "idle"
    <3>1. d # c /\ pc'[d] = pc[d] /\ arg'[d] = arg[d] /\ Follows(d)
      BY <1>6, <1>6a, <2>2 DEF IInv
    <3>2. arg[d].sched \in Schedules /\ (arg[d].sched = s => s \in adrift)
      BY <1>0, <1>1, <2>2, <3>1 DEF IInv, Alone
    <3>3. PICK u \in Schedules : u = arg[d].sched /\ u = arg'[d].sched
      BY <3>1, <3>2
    <3>4. u \notin adrift /\ pc'[d] = "erase" => Runs(u)' = {}
      BY <1>4, <3>1, <3>2, <3>3 DEF Follows
    <3>5. u \notin adrift /\ pc'[d] = "add" =>
             u \in rows' /\ cfg'[u] \in {arg'[d].body, [arg'[d].body EXCEPT !.complete = TRUE]}
      BY <1>2, <3>1, <3>3 DEF Follows
    <3> QED BY <1>2, <3>3, <3>4, <3>5 DEF Follows
  <2> QED BY <2>1, <2>2
<1>9. EngineFollowsTable'
  <2> SUFFICES ASSUME NEW t \in Schedules, t \notin adrift', Idle(t)' PROVE Followed(t)'
    BY DEF EngineFollowsTable, Followed
  <2>1. t \in Startable' <=> t \in Startable
    BY <1>2 DEF Startable
  <2>2. Asked(t)' = Asked(t)
    BY <1>2 DEF Asked, Startable
  <2>3. CASE t # s
    <3>1. Idle(t)
      BY <1>0, <1>6, <2>3 DEF Idle
    <3>2. Followed(t)
      BY <1>2, <3>1 DEF IInv, EngineFollowsTable, Followed
    <3> QED BY <1>4, <2>1, <2>2, <2>3, <3>2 DEF Followed
  <2>4. CASE t = s
    <3>1. s \in rows /\ cfg[s] \in {f, [f EXCEPT !.complete = TRUE]}
      BY <1>0, <1>1, <1>2, <2>4 DEF IInv, Follows
    <3>2. s \in Startable <=> f.enabled /\ f.parses
      BY <1>1, <3>1 DEF Startable, Config
    <3>3. f \in {cfg[s], [cfg[s] EXCEPT !.complete = FALSE]}
      <4>1. CASE cfg[s] = f
        BY <4>1
      <4>2. CASE cfg[s] = [f EXCEPT !.complete = TRUE] /\ f.complete
        <5>1. [f EXCEPT !.complete = TRUE] = f
          BY <1>1, <4>2 DEF Config
        <5> QED BY <4>2, <5>1
      <4>3. CASE cfg[s] = [f EXCEPT !.complete = TRUE] /\ ~f.complete
        <5>1. f.complete = FALSE
          BY <1>1, <4>3 DEF Config
        <5>2. [[f EXCEPT !.complete = TRUE] EXCEPT !.complete = FALSE] = f
          BY <1>1, <5>1 DEF Config
        <5> QED BY <4>3, <5>2
      <4> QED BY <3>1, <4>1, <4>2, <4>3
    <3>4. CASE s \in Startable
      <4>1. Runs(s)' = {f} /\ Asked(s) = {cfg[s], [cfg[s] EXCEPT !.complete = FALSE]}
        BY <1>4, <3>2, <3>4 DEF Asked
      <4> QED BY <2>1, <2>2, <2>4, <3>3, <3>4, <4>1 DEF Followed
    <3>5. CASE s \notin Startable
      <4>1. Runs(s)' = {}
        BY <1>4, <3>2, <3>5
      <4> QED BY <2>1, <2>4, <3>5, <4>1 DEF Followed
    <3> QED BY <3>4, <3>5
  <2> QED BY <2>3, <2>4
<1> QED BY <1>4, <1>5, <1>7, <1>8, <1>9 DEF IInv

\* Unregister: the job goes first, and the schedule waits for EraseRow.
LEMMA UnregisterStep ==
    ASSUME IInv, NEW c \in Callers, NEW s \in Schedules, Unregister(c, s) PROVE IInv'
<1>1. /\ pc[c] = "idle" /\ s \notin fresh
      /\ jobs' = Without(s) /\ entries' = [entries EXCEPT ![s] = 0] /\ UNCHANGED nextEntry
      /\ pc' = [pc EXCEPT ![c] = "erase"]
      /\ arg' = [arg EXCEPT ![c] = [sched |-> s, body |-> NoConfig]]
      /\ UNCHANGED <<rows, cfg, fresh, used, edits, crashes>>
  BY DEF Unregister, RemoveJob, Proceed, table
<1>2. /\ adrift \subseteq adrift' /\ adrift' \subseteq adrift \cup {s}
      /\ Contended(c, s) => s \in adrift'
  BY DEF Unregister, Overlap
<1>3. Engine
  BY DEF IInv, Engine
<1>4. /\ jobs' \subseteq [id : Nat, sched : Schedules, cfg : Config]
      /\ entries' \in [Schedules -> Nat] /\ nextEntry' \in Nat \ {0}
      /\ Numbering' /\ JobsMatchMap'
      /\ Runs(s)' = {} /\ \A t \in Schedules \ {s} : Runs(t)' = Runs(t)
  BY <1>1, <1>3, Removed
<1>5. Types'
  <2>1. [sched |-> s, body |-> NoConfig] \in [sched : Schedules \cup {"none"}, body : Config]
    BY SchedulerAssumption DEF NoConfig, Config
  <2> QED BY <1>1, <1>2, <1>4, <2>1 DEF IInv, Types, TypeOK
<1>6. /\ \A d \in Callers \ {c} : pc'[d] = pc[d] /\ arg'[d] = arg[d]
      /\ pc'[c] = "erase" /\ arg'[c].sched = s
  BY <1>1 DEF IInv, Types, TypeOK
<1>7. Alone'
  <2>1. \A d \in Callers : pc'[d] # "idle" => arg'[d].sched \in Schedules \ fresh'
    BY <1>1, <1>6 DEF IInv, Alone
  <2>2. ASSUME NEW d \in Callers, NEW e \in Callers, d # e, pc'[d] # "idle", pc'[e] # "idle",
               arg'[d].sched = arg'[e].sched
        PROVE  arg'[d].sched \in adrift'
    <3>1. CASE d = c \/ e = c
      BY <1>2, <1>6, <2>2, <3>1 DEF Contended
    <3>2. CASE d # c /\ e # c
      BY <1>2, <1>6, <2>2, <3>2 DEF IInv, Alone
    <3> QED BY <3>1, <3>2
  <2>3. adrift' \cap fresh' = {}
    BY <1>1, <1>2 DEF IInv, Alone
  <2> QED BY <2>1, <2>2, <2>3 DEF Alone
<1>8. ASSUME NEW d \in Callers PROVE Follows(d)'
  <2>1. CASE d = c
    BY <1>4, <1>6, <2>1 DEF Follows
  <2>2. CASE pc'[d] = "idle"
    BY <2>2 DEF Follows
  <2>3. CASE d # c /\ pc'[d] # "idle"
    <3>1. pc'[d] = pc[d] /\ arg'[d] = arg[d] /\ Follows(d)
      BY <1>6, <2>3 DEF IInv
    <3>2. arg[d].sched \in Schedules /\ (arg[d].sched = s => s \in adrift')
      BY <1>2, <2>3, <3>1 DEF IInv, Alone, Contended
    <3>3. PICK u \in Schedules : u = arg[d].sched /\ u = arg'[d].sched
      BY <3>1, <3>2
    <3>4. u \notin adrift' => u # s /\ u \notin adrift
      BY <1>2, <3>2, <3>3
    <3>5. u \notin adrift' /\ pc'[d] = "erase" => Runs(u)' = {}
      BY <1>4, <3>1, <3>3, <3>4 DEF Follows
    <3>6. u \notin adrift' /\ pc'[d] = "add" =>
             u \in rows' /\ cfg'[u] \in {arg'[d].body, [arg'[d].body EXCEPT !.complete = TRUE]}
      BY <1>1, <3>1, <3>3, <3>4 DEF Follows
    <3> QED BY <3>3, <3>5, <3>6 DEF Follows
  <2> QED BY <2>1, <2>2, <2>3
<1>9. EngineFollowsTable'
  <2> SUFFICES ASSUME NEW t \in Schedules, t \notin adrift', Idle(t)' PROVE Followed(t)'
    BY DEF EngineFollowsTable, Followed
  <2>1. t # s /\ Idle(t)
    BY <1>1, <1>6 DEF Idle
  <2>2. Followed(t)
    BY <1>2, <2>1 DEF IInv, EngineFollowsTable, Followed
  <2>3. (t \in Startable' <=> t \in Startable) /\ Asked(t)' = Asked(t)
    BY <1>1 DEF Startable, Asked
  <2> QED BY <1>4, <2>1, <2>2, <2>3 DEF Followed
<1> QED BY <1>4, <1>5, <1>7, <1>8, <1>9 DEF IInv

\* A step that leaves the engine alone keeps what is said about it.
LEMMA SameEngine ==
    ASSUME UNCHANGED engine
    PROVE  (Numbering => Numbering') /\ (JobsMatchMap => JobsMatchMap') /\ \A t : Runs(t)' = Runs(t)
BY DEF engine, Numbering, JobsMatchMap, Runs

\* handleCreate: the schedule is new, so that nobody else has it.
LEMMA CreateRowStep ==
    ASSUME IInv, NEW c \in Callers, NEW s \in Schedules, NEW parses \in BOOLEAN, CreateRow(c, s, parses)
    PROVE  IInv'
<1> DEFINE f == [enabled |-> TRUE, parses |-> parses, edit |-> edits + 1, complete |-> TRUE]
<1>1. /\ pc[c] = "idle" /\ s \in fresh /\ edits < MaxEdits /\ edits' = edits + 1
      /\ rows' = rows \cup {s} /\ fresh' = fresh \ {s} /\ cfg' = [cfg EXCEPT ![s] = f]
      /\ pc' = [pc EXCEPT ![c] = "add"] /\ arg' = [arg EXCEPT ![c] = [sched |-> s, body |-> f]]
      /\ UNCHANGED <<used, engine, crashes, adrift>>
  BY DEF CreateRow, Proceed
<1>2. f \in Config
  BY <1>1, SchedulerAssumption DEF IInv, Types, TypeOK, Config
<1> HIDE DEF f
<1>3. Types'
  BY <1>1, <1>2, SchedulerAssumption, FS_AddElement DEF IInv, Types, TypeOK, engine
<1>4. Numbering' /\ JobsMatchMap' /\ \A t : Runs(t)' = Runs(t)
  BY <1>1, SameEngine DEF IInv
<1>5. /\ \A d \in Callers \ {c} : pc'[d] = pc[d] /\ arg'[d] = arg[d]
      /\ pc'[c] = "add" /\ arg'[c] = [sched |-> s, body |-> f]
  BY <1>1 DEF IInv, Types, TypeOK
<1>6. \A d \in Callers : pc[d] # "idle" => arg[d].sched \in Schedules \ {s}
  BY <1>1 DEF IInv, Alone
<1>7. Alone'
  BY <1>1, <1>5, <1>6 DEF IInv, Alone
<1>8. ASSUME NEW d \in Callers PROVE Follows(d)'
  <2>1. CASE d = c
    BY <1>1, <1>2, <1>5, <2>1 DEF IInv, Types, TypeOK, Follows
  <2>2. CASE pc'[d] = "idle"
    BY <2>2 DEF Follows
  <2>3. CASE d # c /\ pc'[d] # "idle"
    <3>1. pc'[d] = pc[d] /\ arg'[d] = arg[d] /\ Follows(d)
      BY <1>5, <2>3 DEF IInv
    <3>2. PICK u \in Schedules \ {s} : u = arg[d].sched /\ u = arg'[d].sched
      BY <1>6, <2>3, <3>1
    <3>3. cfg'[u] = cfg[u] /\ Runs(u)' = Runs(u)
      BY <1>1, <1>4 DEF IInv, Types, TypeOK
    <3>4. u \notin adrift' /\ pc'[d] = "erase" => Runs(u)' = {}
      BY <1>1, <3>1, <3>2, <3>3 DEF Follows
    <3>5. u \notin adrift' /\ pc'[d] = "add" =>
             u \in rows' /\ cfg'[u] \in {arg'[d].body, [arg'[d].body EXCEPT !.complete = TRUE]}
      BY <1>1, <3>1, <3>2, <3>3 DEF Follows
    <3> QED BY <3>2, <3>4, <3>5 DEF Follows
  <2> QED BY <2>1, <2>2, <2>3
<1>9. EngineFollowsTable'
  <2> SUFFICES ASSUME NEW t \in Schedules, t \notin adrift', Idle(t)' PROVE Followed(t)'
    BY DEF EngineFollowsTable, Followed
  <2>1. t # s /\ Idle(t)
    BY <1>1, <1>5 DEF Idle
  <2>2. Followed(t)
    BY <1>1, <2>1 DEF IInv, EngineFollowsTable, Followed
  <2>3. (t \in Startable' <=> t \in Startable) /\ Asked(t)' = Asked(t)
    BY <1>1, <2>1 DEF Startable, Asked, IInv
  <2> QED BY <1>4, <2>2, <2>3 DEF Followed
<1> QED BY <1>3, <1>4, <1>7, <1>8, <1>9 DEF IInv

\* handleUpdate: whoever finds no row, or another handler at work, sets the
\* schedule adrift; whoever is alone with it will follow the row.
LEMMA UpdateRowStep ==
    ASSUME IInv, NEW c \in Callers, NEW s \in Schedules, NEW f \in Config, UpdateRow(c, s, f)
    PROVE  IInv'
<1>1. /\ pc[c] = "idle" /\ s \notin fresh /\ edits < MaxEdits /\ edits' = edits + 1
      /\ cfg' = IF s \in rows THEN [cfg EXCEPT ![s] = [f EXCEPT !.complete = TRUE]] ELSE cfg
      /\ adrift' = IF s \in rows /\ ~Contended(c, s) THEN adrift \ {s} ELSE adrift \cup {s}
      /\ pc' = [pc EXCEPT ![c] = "add"] /\ arg' = [arg EXCEPT ![c] = [sched |-> s, body |-> f]]
      /\ UNCHANGED <<rows, fresh, used, engine, crashes>>
  BY DEF UpdateRow, Proceed
<1>2. [f EXCEPT !.complete = TRUE] \in Config
  BY DEF Config
<1>3. Types'
  <2>1. cfg' \in [Schedules -> Config]
    BY <1>1, <1>2 DEF IInv, Types, TypeOK
  <2>2. adrift' \subseteq Schedules
    BY <1>1 DEF IInv, Types, TypeOK
  <2>3. edits' \in 0 .. MaxEdits
    BY <1>1, SchedulerAssumption DEF IInv, Types, TypeOK
  <2> QED BY <1>1, <2>1, <2>2, <2>3 DEF IInv, Types, TypeOK, engine
<1>4. Numbering' /\ JobsMatchMap' /\ \A t : Runs(t)' = Runs(t)
  BY <1>1, SameEngine DEF IInv
<1>5. /\ \A d \in Callers \ {c} : pc'[d] = pc[d] /\ arg'[d] = arg[d]
      /\ pc'[c] = "add" /\ arg'[c] = [sched |-> s, body |-> f]
  BY <1>1 DEF IInv, Types, TypeOK
<1>6. \A t \in Schedules \ {s} : cfg'[t] = cfg[t] /\ (t \in adrift' <=> t \in adrift)
  BY <1>1 DEF IInv, Types, TypeOK
<1>6a. ASSUME s \notin adrift' PROVE s \in rows /\ cfg'[s] = [f EXCEPT !.complete = TRUE] /\ ~Contended(c, s)
  BY <1>1, <1>6a DEF IInv, Types, TypeOK
<1>7. Alone'
  <2>1. \A d \in Callers : pc'[d] # "idle" => arg'[d].sched \in Schedules \ fresh'
    BY <1>1, <1>5 DEF IInv, Alone
  <2>2. ASSUME NEW d \in Callers, NEW e \in Callers, d # e, pc'[d] # "idle", pc'[e] # "idle",
               arg'[d].sched = arg'[e].sched
        PROVE  arg'[d].sched \in adrift'
    <3>1. CASE d = c \/ e = c
      BY <1>5, <1>6a, <2>2, <3>1 DEF Contended
    <3>2. CASE d # c /\ e # c
      <4>1. arg'[d].sched \in adrift /\ arg'[d].sched \in Schedules
        BY <1>5, <2>2, <3>2 DEF IInv, Alone
      <4>2. arg'[d].sched = s => Contended(c, s)
        BY <1>5, <2>2, <3>2 DEF Contended
      <4> QED BY <1>6, <1>6a, <4>1, <4>2
    <3> QED BY <3>1, <3>2
  <2>3. adrift' \cap fresh' = {}
    BY <1>1 DEF IInv, Alone
  <2> QED BY <2>1, <2>2, <2>3 DEF Alone
<1>8. ASSUME NEW d \in Callers PROVE Follows(d)'
  <2>1. CASE d = c
    <3>1. arg'[d].sched = s /\ arg'[d].body = f /\ pc'[d] = "add"
      BY <1>5, <2>1
    <3>2. s \notin adrift' => s \in rows' /\ cfg'[s] = [f EXCEPT !.complete = TRUE]
      BY <1>1, <1>6a
    <3> QED BY <3>1, <3>2 DEF Follows
  <2>2. CASE pc'[d] = "idle"
    BY <2>2 DEF Follows
  <2>3. CASE d # c /\ pc'[d] # "idle"
    <3>1. pc'[d] = pc[d] /\ arg'[d] = arg[d] /\ Follows(d)
      BY <1>5, <2>3 DEF IInv
    <3>2. PICK u \in Schedules : u = arg[d].sched /\ u = arg'[d].sched
      BY <2>3, <3>1 DEF IInv, Alone
    <3>3. u = s => s \in adrift'
      BY <1>6a, <2>3, <3>1, <3>2 DEF Contended
    <3>4. Runs(u)' = Runs(u) /\ (u \notin adrift' => u \notin adrift /\ cfg'[u] = cfg[u])
      BY <1>4, <1>6, <3>3
    <3>5. u \notin adrift' /\ pc'[d] = "erase" => Runs(u)' = {}
      BY <3>1, <3>2, <3>4 DEF Follows
    <3>6. u \notin adrift' /\ pc'[d] = "add" =>
             u \in rows' /\ cfg'[u] \in {arg'[d].body, [arg'[d].body EXCEPT !.complete = TRUE]}
      BY <1>1, <3>1, <3>2, <3>4 DEF Follows
    <3> QED BY <3>2, <3>5, <3>6 DEF Follows
  <2> QED BY <2>1, <2>2, <2>3
<1>9. EngineFollowsTable'
  <2> SUFFICES ASSUME NEW t \in Schedules, t \notin adrift', Idle(t)' PROVE Followed(t)'
    BY DEF EngineFollowsTable, Followed
  <2>1. t # s /\ Idle(t)
    BY <1>1, <1>5 DEF Idle
  <2>2. Followed(t)
    BY <1>6, <2>1 DEF IInv, EngineFollowsTable, Followed
  <2>3. (t \in Startable' <=> t \in Startable) /\ Asked(t)' = Asked(t)
    BY <1>1, <1>6, <2>1 DEF Startable, Asked
  <2> QED BY <1>4, <2>2, <2>3 DEF Followed
<1> QED BY <1>3, <1>4, <1>7, <1>8, <1>9 DEF IInv

\* EraseRow: the row goes, as the job has, or the schedule is adrift.
LEMMA EraseRowStep == ASSUME IInv, NEW c \in Callers, EraseRow(c) PROVE IInv'
<1>0. PICK s \in Schedules \ fresh : s = arg[c].sched
  BY DEF EraseRow, IInv, Alone
<1>1. /\ pc[c] = "erase"
      /\ rows' = IF s \in used THEN rows ELSE rows \ {s}
      /\ adrift' = IF s \in used THEN adrift \cup {s} ELSE adrift
      /\ pc' = [pc EXCEPT ![c] = "idle"] /\ arg' = [arg EXCEPT ![c] = NoArg]
      /\ UNCHANGED <<cfg, fresh, used, engine, edits, crashes>>
  BY <1>0 DEF EraseRow, Return
<1>2. s \notin adrift' => s \notin rows' /\ s \notin adrift /\ Runs(s) = {}
  BY <1>0, <1>1 DEF IInv, Follows
<1>3. Types'
  <2>1. NoArg \in [sched : Schedules \cup {"none"}, body : Config]
    BY SchedulerAssumption DEF NoArg, NoConfig, Config
  <2>2. IsFiniteSet(rows')
    BY <1>1, FS_Subset DEF IInv, Types
  <2>3. rows' \subseteq Schedules /\ fresh \subseteq Schedules \ rows' /\ used \subseteq rows'
    BY <1>1 DEF IInv, Types, TypeOK
  <2>4. adrift' \subseteq Schedules
    BY <1>1 DEF IInv, Types, TypeOK
  <2> QED BY <1>1, <2>1, <2>2, <2>3, <2>4 DEF IInv, Types, TypeOK, engine
<1>4. Numbering' /\ JobsMatchMap' /\ \A t : Runs(t)' = Runs(t)
  BY <1>1, SameEngine DEF IInv
<1>5. (\A d \in Callers \ {c} : pc'[d] = pc[d] /\ arg'[d] = arg[d]) /\ pc'[c] = "idle"
  BY <1>1 DEF IInv, Types, TypeOK
<1>6. \A t \in Schedules \ {s} : (t \in rows' <=> t \in rows) /\ (t \in adrift' <=> t \in adrift)
  BY <1>1
<1>7. Alone'
  BY <1>1, <1>5 DEF IInv, Alone
<1>8. ASSUME NEW d \in Callers PROVE Follows(d)'
  <2>1. CASE pc'[d] = "idle"
    BY <2>1 DEF Follows
  <2>2. CASE pc'[d] # "idle"
    <3>1. d # c /\ pc'[d] = pc[d] /\ arg'[d] = arg[d] /\ Follows(d)
      BY <1>5, <2>2 DEF IInv
    <3>2. PICK u \in Schedules : u = arg[d].sched /\ u = arg'[d].sched
      BY <2>2, <3>1 DEF IInv, Alone
    <3>3. u = s => s \in adrift
      BY <1>0, <1>1, <2>2, <3>1, <3>2 DEF IInv, Alone
    <3>4. Runs(u)' = Runs(u)
      BY <1>4
    <3> QED BY <1>1, <1>6, <3>1, <3>2, <3>3, <3>4 DEF Follows
  <2> QED BY <2>1, <2>2
<1>9. EngineFollowsTable'
  <2> SUFFICES ASSUME NEW t \in Schedules, t \notin adrift', Idle(t)' PROVE Followed(t)'
    BY DEF EngineFollowsTable, Followed
  <2>1. CASE t = s
    BY <1>2, <1>4, <2>1 DEF Followed, Startable
  <2>2. CASE t # s
    <3>1. Idle(t)
      BY <1>0, <1>5, <2>2 DEF Idle
    <3>2. Followed(t)
      BY <1>6, <2>2, <3>1 DEF IInv, EngineFollowsTable, Followed
    <3>3. (t \in Startable' <=> t \in Startable) /\ Asked(t)' = Asked(t)
      BY <1>1, <1>6, <2>2 DEF Startable, Asked
    <3> QED BY <1>4, <3>2, <3>3 DEF Followed
  <2> QED BY <2>1, <2>2
<1> QED BY <1>3, <1>4, <1>7, <1>8, <1>9 DEF IInv

\* Backups that come and go, and steps that change nothing.
LEMMA UsedStep ==
    ASSUME IInv, used' \subseteq rows,
           UNCHANGED <<rows, cfg, fresh, engine, callers, edits, crashes, adrift>>
    PROVE  IInv'
<1> USE DEF callers
<1>1. Types' BY DEF IInv, Types, TypeOK, engine
<1>2. Numbering' /\ JobsMatchMap' /\ \A t : Runs(t)' = Runs(t)
  BY SameEngine DEF IInv
<1>3. Alone' BY DEF IInv, Alone
<1>4. ASSUME NEW d \in Callers PROVE Follows(d)'
  BY <1>2 DEF IInv, Follows
<1>5. EngineFollowsTable'
  BY <1>2 DEF IInv, EngineFollowsTable, Idle, Startable, Asked
<1> QED BY <1>1, <1>2, <1>3, <1>4, <1>5 DEF IInv

\* Start: the engine is numbered afresh, and runs what the table asks for.
LEMMA RestartStep == ASSUME IInv, Restart PROVE IInv'
<1> DEFINE N == Cardinality(Startable)
<1>1. PICK num \in [Startable -> 1 .. N] :
        /\ \A s, t \in Startable : num[s] = num[t] => s = t
        /\ jobs' = {Job(num[s], s, cfg[s]) : s \in Startable}
        /\ entries' = [s \in Schedules |-> IF s \in Startable THEN num[s] ELSE 0]
  BY DEF Restart
<1>2. /\ nextEntry' = N + 1 /\ adrift' = {} /\ crashes < MaxCrashes /\ crashes' = crashes + 1
      /\ pc' = [c \in Callers |-> "idle"] /\ arg' = [c \in Callers |-> NoArg]
      /\ UNCHANGED <<rows, cfg, fresh, used, edits>>
  BY DEF Restart, table
<1>3. Startable \subseteq rows /\ Startable \subseteq Schedules /\ N \in Nat
  BY FS_Subset, FS_CardinalityType DEF Startable, IInv, Types, TypeOK
<1> HIDE DEF N
<1>4. Types'
  <2>1. NoArg \in [sched : Schedules \cup {"none"}, body : Config]
    BY SchedulerAssumption DEF NoArg, NoConfig, Config
  <2>2. jobs' \subseteq [id : Nat, sched : Schedules, cfg : Config]
    BY <1>1, <1>3 DEF Job, IInv, Types, TypeOK
  <2>3. entries' \in [Schedules -> Nat] /\ nextEntry' \in Nat \ {0}
    BY <1>1, <1>2, <1>3
  <2>4. crashes' \in 0 .. MaxCrashes
    BY <1>2, SchedulerAssumption DEF IInv, Types, TypeOK
  <2> QED BY <1>2, <2>1, <2>2, <2>3, <2>4 DEF IInv, Types, TypeOK
<1>5. Numbering'
  <2>1. \A j \in jobs' : j.id # 0
    BY <1>1, <1>3 DEF Job
  <2>2. \A s \in Schedules : entries'[s] < nextEntry'
    BY <1>1, <1>2, <1>3
  <2>3. \A s, t \in Schedules : entries'[s] = entries'[t] /\ entries'[s] # 0 => s = t
    BY <1>1, <1>3
  <2> QED BY <2>1, <2>2, <2>3 DEF Numbering
<1>6. JobsMatchMap'
  <2>1. ASSUME NEW j \in jobs' PROVE entries'[j.sched] = j.id
    <3>1. PICK s \in Startable : j = [id |-> num[s], sched |-> s, cfg |-> cfg[s]]
      BY <1>1 DEF Job
    <3> QED BY <1>1, <1>3, <3>1
  <2>2. ASSUME NEW s \in Schedules, entries'[s] # 0
        PROVE  \E j \in jobs' : j.id = entries'[s] /\ j.sched = s
    <3>1. s \in Startable /\ entries'[s] = num[s]
      BY <1>1, <2>2
    <3>2. Job(num[s], s, cfg[s]) \in jobs'
      BY <1>1, <3>1
    <3> QED BY <3>1, <3>2 DEF Job
  <2> QED BY <2>1, <2>2 DEF JobsMatchMap
<1>7. Alone' /\ \A c \in Callers : Follows(c)'
  BY <1>2 DEF Alone, Follows
<1>8. EngineFollowsTable'
  <2> SUFFICES ASSUME NEW s \in Schedules PROVE Followed(s)'
    BY DEF EngineFollowsTable, Followed
  <2>1. Runs(s)' = IF s \in Startable THEN {cfg[s]} ELSE {}
    <3>1. \A j \in jobs' : j.sched = s => s \in Startable /\ j.cfg = cfg[s]
      BY <1>1 DEF Job
    <3>2. ASSUME s \in Startable PROVE \E j \in jobs' : j.sched = s
      <4>1. Job(num[s], s, cfg[s]) \in jobs'
        BY <1>1, <3>2
      <4> QED BY <4>1 DEF Job
    <3> QED BY <3>1, <3>2 DEF Runs
  <2>2. (s \in Startable' <=> s \in Startable) /\ cfg'[s] = cfg[s]
    BY <1>2 DEF Startable
  <2> QED BY <2>1, <2>2 DEF Followed, Asked
<1> QED BY <1>4, <1>5, <1>6, <1>7, <1>8 DEF IInv

\* IInv holds in every reachable state, however the handlers, the jobs and
\* restarts interleave.
THEOREM Invariance == Spec => []IInv
<1>1. IInv /\ [Next]_vars => IInv'
  <2> SUFFICES ASSUME IInv, [Next]_vars PROVE IInv'
    OBVIOUS
  <2>0. used \subseteq rows /\ rows \subseteq Schedules /\ jobs \subseteq [id : Nat, sched : Schedules, cfg : Config]
    BY DEF IInv, Types, TypeOK
  <2>1. ASSUME NEW c \in Callers, Handler(c) PROVE IInv'
    BY <2>1, CreateRowStep, UpdateRowStep, RegisterStep, UnregisterStep, EraseRowStep DEF Handler
  <2>2. ASSUME NEW j \in jobs, Fire(j) PROVE IInv'
    BY <2>0, <2>2, UsedStep DEF Fire, Execute
  <2>3. ASSUME NEW s \in Schedules, RunNow(s) \/ BackupsGone(s) PROVE IInv'
    BY <2>0, <2>3, UsedStep DEF RunNow, BackupsGone, Execute
  <2>4. CASE UNCHANGED vars
    BY <2>0, <2>4, UsedStep DEF vars, table
  <2> QED BY <2>1, <2>2, <2>3, <2>4, RestartStep DEF Next
<1> QED BY InitInv, <1>1, PTL DEF Spec

\* Rows, jobs, the map and the handlers keep their types; backups only refer
\* to schedules that have a row.
THEOREM TypeCorrect == Spec => []TypeOK
<1>1. IInv => TypeOK
  BY DEF IInv, Types
<1> QED BY Invariance, <1>1, PTL

\* The engine and the scheduler's map never part: AddJob and RemoveJob find
\* the live job of a schedule, and only that one.
THEOREM EngineMatchesMap == Spec => []JobsMatchMap
<1>1. IInv => JobsMatchMap
  BY DEF IInv
<1> QED BY Invariance, <1>1, PTL

\* The jobs of a schedule at rest are those its row asks for, unless requests
\* have overlapped, a delete was refused or an update met no row.
THEOREM RowsFollowed == Spec => []EngineFollowsTable
<1>1. IInv => EngineFollowsTable
  BY DEF IInv
<1> QED BY Invariance, <1>1, PTL
=============================================================================
