----------------------------- MODULE Collector -----------------------------
(***************************************************************************)
(* The monitoring collector (internal/monitoring/collector.go) and the     *)
(* tables it writes (store.go, db.go), beside the requests for connections.*)
(*                                                                         *)
(* The loop and the goroutines of POST /api/monitoring/collect each run    *)
(* cycles: list the connections, and one by one read the row again, check  *)
(* the server's health and collect six kinds of metrics, each with a new   *)
(* connection to the server.  Between the reads and the kinds connections  *)
(* are edited or deleted, servers fail, and the process stops.  The tables *)
(* are made by every start of the process, some only with TimescaleDB, and *)
(* most statements that make them may fail unnoticed.                      *)
(***************************************************************************)
EXTENDS Connections, Sequences

CONSTANTS Triggers,     \* goroutines of TriggerCollect
          MaxCycles,    \* bound: cycles
          MaxBoots,     \* bound: starts of the process
          MaxFaults,    \* bound: statements that fail
          MayFail,      \* bound: the statements of migrate among them
          MaxBeside     \* bound: requests and outages, together

Goroutines == {"loop"} \cup Triggers
P2Tables == {"autovacuum_info", "lock_info", "replication_lag", "table_metrics"}
AddedColumns == {"max_connections", "conn_usage_percent"}
Hypertables == {"health_checks", "db_metrics", "performance_metrics"} \cup P2Tables

\* The statements of migrate whose errors are dropped: an ALTER for each added
\* column, a CREATE for each table of P2.
Unchecked == AddedColumns \cup P2Tables

ASSUME CollectorAssumption ==
    /\ "loop" \notin Triggers /\ MayFail \subseteq Unchecked
    /\ MaxCycles \in Nat /\ MaxBoots \in Nat /\ MaxFaults \in Nat /\ MaxBeside \in Nat

VARIABLES
    timescale,      \* pg_extension has timescaledb
    tables,         \* the tables of the monitoring
    proper,         \* those of P2 that have the columns of migrate
    columns,        \* the columns of AddedColumns that db_metrics has
    running, closed, \* Collector.running, and whether stopCh is closed
    at, todo, cur,  \* goroutines: the next step, connections left, the *Connection
    report,         \* goroutines: the rows of this connection, all with one time
    made,           \* history: the first start with all of createHypertables
    lost,           \* history: <<start, statement>>, failed and forgotten
    pending,        \* history: connections of the cycle not yet seen to
    boots, cycles, faults

schema == <<timescale, tables, proper, columns>>
history == <<made, lost, boots>>
collectorVars == <<schema, running, closed, at, todo, cur, report, pending, history, cycles, faults>>
vars == <<connVars, collectorVars>>

NoWork == [conn |-> "none", copy |-> NoConnection]

\* What was stored of a connection: the status and the server that it is of,
\* and the servers that the rows of metrics are of; and the tables that refused
\* a row there was.  For reference, the server that the row named when the turn
\* of the connection came, and the start of the process.
NoReport == [status |-> "none", health |-> NoServer, from |-> {}, refused |-> {},
             server |-> NoServer, boot |-> 0]

-----------------------------------------------------------------------------
(* The schema. *)
Failing(n) == faults + n <= MaxFaults /\ faults' = faults + n
Fault == Failing(1)
Fine == UNCHANGED faults

\* ALTER TABLE db_metrics fails, silently, before the table is there.
AlteredBug(broken) == columns \* the ALTERs forgotten

Altered(broken) == columns \cup {c \in AddedColumns \ broken : "db_metrics" \in tables}

\* migrate, of which the statements in broken fail, then createHypertables,
\* which gets as far as the tables in reached, and gives those that are not
\* there yet columns that do not suit P2.  IF NOT EXISTS keeps them as they are.
Open(broken, reached) ==
    /\ columns' = Altered(broken)
    /\ proper' = proper \cup (P2Tables \ (tables \cup broken))
    /\ tables' = tables \cup (P2Tables \ broken) \cup reached
    /\ made' = IF made = 0 /\ reached = Hypertables THEN boots + 1 ELSE made
    /\ boots' = boots + 1
    /\ lost' = lost \cup ({boots'} \X broken)

\* The order of createHypertables.
Order == <<"health_checks", "db_metrics", "performance_metrics", "autovacuum_info",
           "lock_info", "replication_lag", "table_metrics">>
FirstTables(n) == {Order[i] : i \in 1 .. n}

Init ==
    /\ ConnInit
    /\ timescale \in BOOLEAN /\ tables = {} /\ proper = {} /\ columns = {}
    /\ running = FALSE /\ closed = FALSE
    /\ at = [g \in Goroutines |-> "off"] /\ todo = [g \in Goroutines |-> {}]
    /\ cur = [g \in Goroutines |-> NoWork]
    /\ report = [g \in Goroutines |-> NoReport] /\ pending = [g \in Goroutines |-> {}]
    /\ made = 0 /\ lost = {} /\ boots = 0 /\ cycles = 0 /\ faults = 0

Alive == at["loop"] # "off" \/ closed

-----------------------------------------------------------------------------
(* Life of the collector. *)
\* Start, in main after Open: the first cycle at once.  A query of pg_extension
\* that fails counts as no TimescaleDB.
Start ==
    /\ ~Alive /\ boots < MaxBoots /\ cycles < MaxCycles
    /\ \E ext \in {timescale, TRUE}, broken \in SUBSET MayFail :
        /\ timescale' = ext
        /\ \/ Failing(Cardinality(broken)) /\ Open(broken, IF ext THEN Hypertables ELSE {})
           \/ Failing(Cardinality(broken) + 1) /\ Open(broken, {})
    /\ cycles' = cycles + 1
    /\ running' = TRUE
    /\ at' = [at EXCEPT !["loop"] = "list"]
    /\ UNCHANGED <<connVars, closed, todo, cur, report, pending>>

\* A CREATE of createHypertables fails, and with it Open and the process; the
\* tables before it stay.
StartFails ==
    /\ ~Alive /\ boots < MaxBoots
    /\ \E n \in 0 .. Len(Order) - 1, broken \in SUBSET MayFail :
        Failing(Cardinality(broken) + 1) /\ Open(broken, FirstTables(n))
    /\ timescale' = TRUE
    /\ UNCHANGED <<connVars, running, closed, at, todo, cur, report, pending, cycles>>

StopBug == \* the channel is not closed
    /\ running
    /\ running' = FALSE /\ UNCHANGED closed
    /\ UNCHANGED <<connVars, schema, at, todo, cur, report, pending, history, cycles, faults>>

Stop ==
    /\ running
    /\ running' = FALSE /\ closed' = TRUE
    /\ UNCHANGED <<connVars, schema, at, todo, cur, report, pending, history, cycles, faults>>

\* The end of the process, after the shutdown or in the middle of anything.
Exit ==
    /\ Alive
    /\ running' = FALSE /\ closed' = FALSE
    /\ at' = [g \in Goroutines |-> "off"] /\ todo' = [g \in Goroutines |-> {}]
    /\ cur' = [g \in Goroutines |-> NoWork] /\ report' = [g \in Goroutines |-> NoReport]
    /\ pending' = [g \in Goroutines |-> {}]
    /\ CallersLost
    /\ UNCHANGED <<schema, history, cycles, faults>>

\* The select of the loop: a tick, or the closed channel.  A tick may have
\* come during the cycle, and of two cases that are ready Go takes any.
Tick ==
    /\ at["loop"] = "select" /\ cycles < MaxCycles
    /\ cycles' = cycles + 1
    /\ at' = [at EXCEPT !["loop"] = "list"]
    /\ UNCHANGED <<connVars, schema, running, closed, todo, cur, report, pending, history, faults>>

LoopReturns ==
    /\ at["loop"] = "select" /\ closed
    /\ at' = [at EXCEPT !["loop"] = "off"]
    /\ UNCHANGED <<connVars, schema, running, closed, todo, cur, report, pending, history, cycles, faults>>

TriggerCollect(g) ==
    /\ Alive /\ at[g] = "off" /\ cycles < MaxCycles
    /\ cycles' = cycles + 1
    /\ at' = [at EXCEPT ![g] = "list"]
    /\ UNCHANGED <<connVars, schema, running, closed, todo, cur, report, pending, history, faults>>

-----------------------------------------------------------------------------
(* A cycle. *)
CycleEnd(g) == IF g = "loop" THEN "select" ELSE "off"

\* After one connection the next one.
NextConnection(g, left) ==
    /\ todo' = [todo EXCEPT ![g] = left]
    /\ cur' = [cur EXCEPT ![g] = NoWork]
    /\ at' = [at EXCEPT ![g] = IF left = {} THEN CycleEnd(g) ELSE "fetch"]

\* List may fail, and then the cycle is over.
List(g) ==
    /\ at[g] = "list"
    /\ \/ Fine /\ NextConnection(g, conns) /\ pending' = [pending EXCEPT ![g] = conns]
       \/ Fault /\ NextConnection(g, {}) /\ UNCHANGED pending
    /\ UNCHANGED <<connVars, schema, running, closed, report, history, cycles>>

\* What a failure for one connection leaves of the cycle.
LeftBug(g, c) == {} \* return instead of continue

Left(g, c) == todo[g] \ {c}

\* ORDER BY name.
First(S) == CHOOSE c \in S : TRUE

\* GetByID, with the password.
GetByID(g) ==
    /\ at[g] = "fetch"
    /\ LET c == First(todo[g]) IN
        /\ pending' = [pending EXCEPT ![g] = @ \ {c}]
        /\ \/ /\ Fine /\ c \in conns
              /\ cur' = [cur EXCEPT ![g] = [conn |-> c, copy |-> rec[c]]]
              /\ at' = [at EXCEPT ![g] = "health"]
              /\ report' = [report EXCEPT ![g] = [NoReport EXCEPT !.server = rec[c].server,
                                                                   !.boot = boots]]
              /\ UNCHANGED todo
           \/ /\ IF c \in conns THEN Fault ELSE Fine
              /\ NextConnection(g, Left(g, c)) /\ UNCHANGED report
    /\ UNCHANGED <<connVars, schema, running, closed, history, cycles>>

\* All the steps for a connection use the copy.
TargetBug(g) == rec[cur[g].conn] \* the row is read again

Target(g) == cur[g].copy

\* collectHealth and RecordHealthCheck.  A server that cannot be opened or
\* pinged, or that takes 5 seconds, is down; "healthy" and "degraded" are "up".
Statuses(g) == IF Reachable(Target(g)) THEN {"up", "down"} ELSE {"down"}

GoesOn(status) == status # "down"

\* An INSERT that the schema admits.
Recordable(t) ==
    /\ t \in tables
    /\ t = "db_metrics" => AddedColumns \subseteq columns
    /\ t \in P2Tables => t \in proper

CheckHealth(g) ==
    /\ at[g] = "health"
    /\ IF ~Recordable("health_checks")
       THEN /\ Fine
            /\ report' = [report EXCEPT ![g].refused = {"health_checks"}]
            /\ at' = [at EXCEPT ![g] = "done"]
       ELSE \/ \E s \in Statuses(g) :
                /\ Fine
                /\ report' = [report EXCEPT ![g].status = s, ![g].health = Target(g).server]
                /\ at' = [at EXCEPT ![g] = IF GoesOn(s) THEN "db_metrics" ELSE "done"]
            \/ Fault /\ UNCHANGED report /\ at' = [at EXCEPT ![g] = "done"]
    /\ UNCHANGED <<connVars, schema, running, closed, todo, cur, pending, history, cycles>>

\* One kind of metrics: query the server and insert the rows.  There may be
\* none: nothing to report, no answer, a query that this server does not know.
\* Errors of queries and of INSERTs are logged and forgotten.
Collect(g, t, next) ==
    /\ at[g] = t
    /\ \/ UNCHANGED report
       \/ /\ Reachable(Target(g))
          /\ report' = IF Recordable(t)
                       THEN [report EXCEPT ![g].from = @ \cup {Target(g).server}]
                       ELSE [report EXCEPT ![g].refused = @ \cup {t}]
    /\ at' = [at EXCEPT ![g] = next]
    /\ UNCHANGED <<connVars, schema, running, closed, todo, cur, pending, history, cycles, faults>>

collectDBMetrics(g) == Collect(g, "db_metrics", "performance_metrics")
collectPerformance(g) == Collect(g, "performance_metrics", "autovacuum_info")
collectAutovacuumAsync(g) == Collect(g, "autovacuum_info", "lock_info")
collectLocksAsync(g) == Collect(g, "lock_info", "replication_lag")
collectReplicationLagAsync(g) == Collect(g, "replication_lag", "table_metrics")
collectTableMetricsAsync(g) == Collect(g, "table_metrics", "done")

\* The connection is counted, as succeeded or failed, and the next one is due.
Counted(g) ==
    /\ at[g] = "done"
    /\ report' = [report EXCEPT ![g] = NoReport]
    /\ NextConnection(g, Left(g, cur[g].conn))
    /\ UNCHANGED <<connVars, schema, running, closed, pending, history, cycles, faults>>

CycleStep(g) ==
    \/ List(g) \/ GetByID(g) \/ CheckHealth(g)
    \/ collectDBMetrics(g) \/ collectPerformance(g) \/ collectAutovacuumAsync(g)
    \/ collectLocksAsync(g) \/ collectReplicationLagAsync(g) \/ collectTableMetricsAsync(g)
    \/ Counted(g)

-----------------------------------------------------------------------------
Next ==
    \/ Start \/ StartFails \/ Stop \/ Exit \/ Tick \/ LoopReturns
    \/ \E g \in Triggers : TriggerCollect(g)
    \/ \E g \in Goroutines : CycleStep(g)
    \/ /\ Alive /\ ConnNext /\ requests' + outages' <= MaxBeside
       /\ UNCHANGED collectorVars

Spec == Init /\ [][Next]_vars

\* Goroutines go on, and the select of a loop that comes back to it again and
\* again takes the closed channel at last.
FairSpec ==
    /\ Spec
    /\ \A g \in Goroutines : WF_vars(CycleStep(g))
    /\ SF_vars(LoopReturns)

-----------------------------------------------------------------------------
\* Types, and the foreign keys of connections.
TypeOK ==
    /\ ConnTypeOK
    /\ timescale \in BOOLEAN /\ tables \subseteq Hypertables
    /\ proper \subseteq P2Tables /\ columns \subseteq AddedColumns
    /\ running \in BOOLEAN /\ closed \in BOOLEAN
    /\ at \in [Goroutines -> ({"off", "list", "fetch", "health", "done", "select"}
                            \cup (Hypertables \ {"health_checks"}))]
    /\ todo \in [Goroutines -> SUBSET Conns]
    /\ cur \in [Goroutines -> [conn : Conns \cup {"none"}, copy : Connection]]

\* What is stored for a connection under one time is of one server, the one
\* that the connection named when its turn came: the health check is of it, and
\* so are all metrics, which are stored only if the check found it up.  Edits
\* of the connection, another cycle and a server that fails or comes back on
\* the way do not mix reports.
ReportOfOneServer ==
    \A g \in Goroutines : LET r == report[g] IN
        /\ r.status # "none" => r.health = r.server
        /\ r.from # {} => r.status = "up" /\ r.from = {r.health}

\* What the server has given is stored, unless a statement fails, with these
\* exceptions.  While no start has got through createHypertables, its own
\* tables may be missing, and without health_checks nothing is collected.  The
\* start that makes db_metrics has altered it before it was there, so that the
\* metrics of databases are lost until the next start, or until one whose
\* ALTERs do not fail.  And a table of P2 is missing or unfit only if the very
\* first start failed to make it: what was made right stays right.
MissingExplained ==
    \A g \in Goroutines : \A t \in report[g].refused :
        \/ t \notin P2Tables /\ made = 0
        \/ t = "db_metrics" /\ (\/ report[g].boot = made
                                \/ \E c \in AddedColumns : <<report[g].boot, c>> \in lost)
        \/ t \in P2Tables /\ <<1, t>> \in lost

\* A cycle that ends has seen to every connection that it listed: one that is
\* gone, down or refused does not hide those after it.
NobodySkipped == \A g \in Goroutines : at[g] \in {"select", "off"} => pending[g] = {}

\* After Stop the loop ends, in the middle of a cycle as between two.
LoopStops == (~running /\ at["loop"] # "off") ~> (at["loop"] = "off")
=============================================================================
