-------------------------- MODULE CollectorProofs --------------------------
(***************************************************************************)
(* Proofs about Connections and about Collector, which composes it with    *)
(* the collector, for every number of connections, servers, databases,     *)
(* callers, goroutines, starts of the process, faults and outages.         *)
(***************************************************************************)
EXTENDS Collector, TLAPS

-----------------------------------------------------------------------------
(* Connections. *)

\* The types of the rows, the foreign keys, and what a discovery has in hand.
ConnInv ==
    /\ ConnTypeOK
    /\ arg \in [Callers -> [conn : Conns \cup {"none"}, found : SUBSET Databases]]

LEMMA ConnInitInv == ConnInit => ConnInv
<1> SUFFICES ASSUME ConnInit PROVE ConnInv
  OBVIOUS
<1> USE ConnectionsAssumption
<1>1. rec \in [Conns -> Connection]
  BY DEF ConnInit, Connection, NoConnection
<1>2. dbs \subseteq [conn : conns, name : Databases]
  BY DEF ConnInit
<1>3. ConnTypeOK
  BY <1>1, <1>2 DEF ConnInit, ConnTypeOK
<1> QED BY <1>3 DEF ConnInit, ConnInv, NoArg

\* Every request and every change of a server keeps the foreign keys.
LEMMA ConnStep == ConnInv /\ [ConnNext]_connVars => ConnInv'
<1> SUFFICES ASSUME ConnInv, [ConnNext]_connVars PROVE ConnInv'
  OBVIOUS
<1> USE ConnectionsAssumption DEF connRows
<1>1. ASSUME NEW k \in Callers, handleCreate(k) PROVE ConnInv'
  <2>1. ConnTypeOK' BY <1>1 DEF handleCreate, ConnInv, Connection, ConnTypeOK
  <2>2. arg' \in [Callers -> [conn : Conns \cup {"none"}, found : SUBSET Databases]]
    BY <1>1 DEF handleCreate, ConnInv
  <2> QED BY <2>1, <2>2 DEF ConnInv
<1>2. ASSUME NEW k \in Callers, handleUpdate(k) PROVE ConnInv'
  <2>1. ConnTypeOK' BY <1>2 DEF handleUpdate, ConnInv, Connection, ConnTypeOK
  <2>2. arg' \in [Callers -> [conn : Conns \cup {"none"}, found : SUBSET Databases]]
    BY <1>2 DEF handleUpdate, ConnInv
  <2> QED BY <2>1, <2>2 DEF ConnInv
<1>3. ASSUME NEW k \in Callers, handleDelete(k) PROVE ConnInv'
  <2>1. ConnTypeOK' BY <1>3 DEF handleDelete, ConnInv, ConnTypeOK
  <2>2. arg' \in [Callers -> [conn : Conns \cup {"none"}, found : SUBSET Databases]]
    BY <1>3 DEF handleDelete, ConnInv
  <2> QED BY <2>1, <2>2 DEF ConnInv
<1>4. ASSUME NEW k \in Callers, handleUpdateDatabase(k) PROVE ConnInv'
  <2>1. ConnTypeOK' BY <1>4 DEF handleUpdateDatabase, ConnInv, ConnTypeOK
  <2>2. arg' \in [Callers -> [conn : Conns \cup {"none"}, found : SUBSET Databases]]
    BY <1>4 DEF handleUpdateDatabase, ConnInv
  <2> QED BY <2>1, <2>2 DEF ConnInv
<1>5. ASSUME NEW k \in Callers, handleDiscover(k) PROVE ConnInv'
  <2>1. ConnTypeOK' BY <1>5 DEF handleDiscover, ConnInv, ConnTypeOK
  <2>2. arg' \in [Callers -> [conn : Conns \cup {"none"}, found : SUBSET Databases]]
    BY <1>5 DEF handleDiscover, ConnInv, discoverDatabases, Reachable, ConnTypeOK
  <2> QED BY <2>1, <2>2 DEF ConnInv
<1>6. ASSUME NEW k \in Callers, UpsertDatabases(k) PROVE ConnInv'
  <2>1. ConnTypeOK' BY <1>6 DEF UpsertDatabases, ConnInv, Upserted, ConnTypeOK
  <2>2. arg' \in [Callers -> [conn : Conns \cup {"none"}, found : SUBSET Databases]]
    BY <1>6 DEF UpsertDatabases, ConnInv, NoArg
  <2> QED BY <2>1, <2>2 DEF ConnInv
<1>7. ASSUME NEW k \in Callers, Refer(k) PROVE ConnInv'
  <2>1. ConnTypeOK' BY <1>7 DEF Refer, ConnInv, ConnTypeOK
  <2>2. arg' \in [Callers -> [conn : Conns \cup {"none"}, found : SUBSET Databases]]
    BY <1>7 DEF Refer, ConnInv
  <2> QED BY <2>1, <2>2 DEF ConnInv
<1>8. ASSUME NEW s \in Servers, ServerFails(s) PROVE ConnInv'
  BY <1>8 DEF ServerFails, ConnInv, ConnTypeOK
<1>9. ASSUME NEW s \in Servers, ServerReturns(s) PROVE ConnInv'
  BY <1>9 DEF ServerReturns, ConnInv, ConnTypeOK
<1>10. CASE UNCHANGED connVars
  BY <1>10 DEF connVars, ConnInv, ConnTypeOK
<1> QED BY <1>1, <1>2, <1>3, <1>4, <1>5, <1>6, <1>7, <1>8, <1>9, <1>10 DEF ConnNext

\* ConnInv holds in every reachable state of the connections, whatever the
\* requests and the servers do between the steps of a discovery.
THEOREM ConnInvariance == ConnSpec => []ConnInv
BY ConnInitInv, ConnStep, PTL DEF ConnSpec

\* The foreign keys of connections, databases, schedules and backups hold,
\* although a discovery saves what it read before a deletion.
THEOREM ForeignKeysHold == ConnSpec => []ConnTypeOK
<1>1. ConnInv => ConnTypeOK
  BY DEF ConnInv
<1> QED BY ConnInvariance, <1>1, PTL

-----------------------------------------------------------------------------
(* The collector: the inductive invariant, in parts. *)

Kinds == Hypertables \ {"health_checks"}
Places == {"off", "list", "fetch", "health", "done", "select"} \cup Kinds
Work == [conn : Conns \cup {"none"}, copy : Connection]

ReportType ==
    [status : {"none", "up", "down"}, health : Servers \cup {NoServer},
     from : SUBSET (Servers \cup {NoServer}), refused : SUBSET Hypertables,
     server : Servers \cup {NoServer}, boot : Nat]

CollectorTypes ==
    /\ TypeOK
    /\ report \in [Goroutines -> ReportType]
    /\ pending \in [Goroutines -> SUBSET Conns]
    /\ made \in Nat /\ boots \in Nat

\* A goroutine runs only in a process that runs, and what it has reported goes
\* with the process.
OfThisProcess ==
    /\ Alive => boots # 0
    /\ running => Alive
    /\ ~Alive => \A g \in Goroutines : at[g] = "off" /\ report[g] = NoReport

\* What the starts have made.  All tables are there after the first start with
\* all of createHypertables.  A table of P2 is right from the first start on,
\* if its statement did not fail then.  And after the start that made
\* db_metrics a column of it is missing only if its ALTER has just failed.
SchemaHistory ==
    /\ made <= boots
    /\ boots = 0 => tables = {}
    /\ made # 0 => Hypertables \subseteq tables
    /\ proper \subseteq tables
    /\ boots # 0 => \A t \in P2Tables : t \in proper \/ <<1, t>> \in lost
    /\ made # 0 /\ made # boots => \A c \in AddedColumns : c \in columns \/ <<boots, c>> \in lost

\* The connections that a cycle has yet to see are those it still has in hand,
\* and the report is of the copy it has in hand.
CycleInv(g) ==
    /\ at[g] \in {"off", "list", "select"} => pending[g] = {}
    /\ at[g] = "fetch" => pending[g] = todo[g]
    /\ at[g] \in {"health", "done"} \cup Kinds => /\ pending[g] = todo[g] \ {cur[g].conn}
                                                 /\ report[g].boot = boots
    /\ at[g] = "health" => /\ report[g].from = {} /\ report[g].refused = {}
                           /\ report[g].server = cur[g].copy.server
    /\ at[g] \in Kinds => /\ report[g].status = "up"
                          /\ report[g].health = cur[g].copy.server

\* ReportOfOneServer and MissingExplained, for one report.
OneServer(r) ==
    /\ r.status # "none" => r.health = r.server
    /\ r.from # {} => r.status = "up" /\ r.from = {r.health}
Explained(r) ==
    \A t \in r.refused :
        \/ t \notin P2Tables /\ made = 0
        \/ t = "db_metrics" /\ (r.boot = made \/ \E c \in AddedColumns : <<r.boot, c>> \in lost)
        \/ t \in P2Tables /\ <<1, t>> \in lost

IInv ==
    /\ ConnInv /\ CollectorTypes
    /\ OfThisProcess /\ SchemaHistory
    /\ \A g \in Goroutines : CycleInv(g) /\ OneServer(report[g]) /\ Explained(report[g])

-----------------------------------------------------------------------------
(* The steps of the proof. *)

LEMMA CollectorInit == Init => IInv
<1> SUFFICES ASSUME Init PROVE IInv
  OBVIOUS
<1>1. ConnInv BY ConnInitInv DEF Init
<1>2. NoWork \in Work /\ NoReport \in ReportType
  BY DEF NoWork, NoReport, Work, ReportType, NoConnection, Connection
<1>3. CollectorTypes
  BY <1>1, <1>2 DEF Init, CollectorTypes, TypeOK, ConnInv, Work
<1>4. OfThisProcess /\ SchemaHistory
  BY DEF Init, OfThisProcess, SchemaHistory, Alive, Goroutines
<1>5. \A g \in Goroutines : CycleInv(g) /\ OneServer(report[g]) /\ Explained(report[g])
  BY DEF Init, CycleInv, Kinds, Hypertables, P2Tables, OneServer, Explained, NoReport
<1> QED BY <1>1, <1>3, <1>4, <1>5 DEF IInv

\* What a goroutine has in hand is well typed.
LEMMA InHand ==
    ASSUME IInv, NEW g \in Goroutines
    PROVE  /\ at \in [Goroutines -> Places] /\ todo[g] \in SUBSET Conns /\ cur[g] \in Work
           /\ report[g] \in ReportType /\ pending[g] \in SUBSET Conns
           /\ CycleInv(g) /\ OneServer(report[g]) /\ Explained(report[g])
BY DEF IInv, CollectorTypes, TypeOK, Places, Kinds, Work

\* A step of the goroutine g.
Other(g) ==
    /\ at' = [at EXCEPT ![g] = at'[g]] /\ todo' = [todo EXCEPT ![g] = todo'[g]]
    /\ cur' = [cur EXCEPT ![g] = cur'[g]] /\ report' = [report EXCEPT ![g] = report'[g]]
    /\ pending' = [pending EXCEPT ![g] = pending'[g]]
    /\ UNCHANGED <<connVars, schema, running, closed, history>>

LEMMA GoroutineStep ==
    ASSUME IInv, NEW g \in Goroutines, Other(g), at[g] # "off",
           at'[g] \in Places, at'[g] = "off" => g # "loop",
           todo'[g] \in SUBSET Conns, cur'[g] \in Work, report'[g] \in ReportType,
           pending'[g] \in SUBSET Conns,
           CycleInv(g)', OneServer(report'[g]), Explained(report'[g])
    PROVE  IInv'
<1>1. ConnInv'
  BY DEF IInv, ConnInv, ConnTypeOK, Other, connVars, connRows
<1>2. CollectorTypes'
  BY <1>1 DEF IInv, CollectorTypes, TypeOK, ConnInv, Other, schema, history, Places, Kinds, Work
<1>3. OfThisProcess'
  <2>1. Alive /\ boots' # 0
    BY DEF IInv, OfThisProcess, Other, history
  <2>2. at'["loop"] # "off" \/ closed'
    <3>1. at \in [Goroutines -> Places] /\ at' = [at EXCEPT ![g] = at'[g]] /\ UNCHANGED closed
      BY InHand DEF Other
    <3>2. CASE g = "loop"
      BY <3>2
    <3>3. CASE g # "loop"
      BY <2>1, <3>1, <3>3 DEF Alive, Goroutines
    <3> QED BY <3>2, <3>3
  <2> QED BY <2>1, <2>2 DEF OfThisProcess, Alive
<1>4. SchemaHistory'
  BY DEF IInv, SchemaHistory, Other, schema, history
<1>5. ASSUME NEW h \in Goroutines PROVE (CycleInv(h) /\ OneServer(report[h]) /\ Explained(report[h]))'
  <2>1. CASE h = g
    <3>1. CycleInv(h)' BY <2>1 DEF CycleInv
    <3>2. OneServer(report[h])' /\ Explained(report[h])'
      BY <2>1 DEF OneServer, Explained, Other, history
    <3> QED BY <3>1, <3>2
  <2>2. CASE h # g
    <3>1. UNCHANGED <<at[h], todo[h], cur[h], report[h], pending[h], made, lost, boots>>
      BY <2>2 DEF Other, history, IInv, CollectorTypes, TypeOK
    <3>2. CycleInv(h)' BY <3>1 DEF IInv, CycleInv
    <3>3. OneServer(report[h])' BY <3>1 DEF IInv, OneServer
    <3>4. Explained(report[h])' BY <3>1 DEF IInv, Explained
    <3> QED BY <3>2, <3>3, <3>4
  <2> QED BY <2>1, <2>2
<1> QED BY <1>1, <1>2, <1>3, <1>4, <1>5 DEF IInv

\* The goroutine goes on to the connections in S.
LEMMA MoveOn ==
    ASSUME IInv, NEW g \in Goroutines, NEW S \in SUBSET Conns, at[g] # "off",
           NextConnection(g, S),
           report' = [report EXCEPT ![g] = report'[g]], pending' = [pending EXCEPT ![g] = S],
           report'[g] \in ReportType, OneServer(report'[g]), Explained(report'[g]),
           UNCHANGED <<connVars, schema, running, closed, history>>
    PROVE  IInv'
<1>1. at'[g] \in {"fetch", CycleEnd(g)} /\ (at'[g] # "fetch" => S = {})
  BY InHand DEF NextConnection
<1>2. at'[g] \in {"fetch", "off", "select"} /\ (at'[g] = "off" => g # "loop")
  BY <1>1 DEF CycleEnd
<1>3. todo'[g] = S /\ pending'[g] = S /\ cur'[g] = NoWork
  BY DEF NextConnection, IInv, CollectorTypes, TypeOK
<1>4. NoWork \in Work
  BY DEF NoWork, Work, NoConnection, Connection
<1>5. Other(g)
  BY <1>3 DEF Other, NextConnection, IInv
<1>6. CycleInv(g)'
  BY <1>1, <1>2, <1>3 DEF CycleInv, Kinds, Hypertables, P2Tables
<1> QED BY <1>2, <1>3, <1>4, <1>5, <1>6, GoroutineStep DEF Places

LEMMA ListStep == ASSUME IInv, NEW g \in Goroutines, List(g) PROVE IInv'
<1>1. report' = [report EXCEPT ![g] = report'[g]] /\ report'[g] = report[g]
  BY DEF List, IInv, CollectorTypes
<1>2. PICK S \in {conns, {}} : NextConnection(g, S) /\ pending' = [pending EXCEPT ![g] = S]
  <2>1. pending = [pending EXCEPT ![g] = {}]
    BY InHand DEF List, CycleInv, IInv, CollectorTypes
  <2> QED BY <2>1 DEF List
<1>3. S \in SUBSET Conns
  BY <1>2 DEF IInv, ConnInv, ConnTypeOK
<1>4. at[g] # "off" /\ UNCHANGED <<connVars, schema, running, closed, history>>
  BY DEF List
<1> QED BY <1>1, <1>2, <1>3, <1>4, InHand, MoveOn

LEMMA GetByIDStep == ASSUME IInv, NEW g \in Goroutines, GetByID(g) PROVE IInv'
<1> DEFINE c == First(todo[g])
<1>1. /\ at[g] = "fetch" /\ UNCHANGED <<connVars, schema, running, closed, history>>
      /\ pending' = [pending EXCEPT ![g] = @ \ {c}]
  BY DEF GetByID
<1>2. pending[g] = todo[g] /\ pending' = [pending EXCEPT ![g] = todo[g] \ {c}]
  BY <1>1, InHand DEF CycleInv, IInv, CollectorTypes
<1>3. CASE NextConnection(g, Left(g, c)) /\ UNCHANGED report
  <2>1. report' = [report EXCEPT ![g] = report'[g]] /\ report'[g] = report[g]
    BY <1>3 DEF IInv, CollectorTypes
  <2> QED BY <1>1, <1>2, <1>3, <2>1, InHand, MoveOn DEF Left
<1>4. ASSUME c \in conns, cur' = [cur EXCEPT ![g] = [conn |-> c, copy |-> rec[c]]],
             at' = [at EXCEPT ![g] = "health"], UNCHANGED todo,
             report' = [report EXCEPT ![g] = [NoReport EXCEPT !.server = rec[c].server, !.boot = boots]]
      PROVE  IInv'
  <2>1. /\ at'[g] = "health" /\ todo'[g] = todo[g] /\ pending'[g] = todo[g] \ {c}
        /\ cur'[g] = [conn |-> c, copy |-> rec[c]]
        /\ report'[g] = [status |-> "none", health |-> NoServer, from |-> {}, refused |-> {},
                         server |-> rec[c].server, boot |-> boots]
    BY <1>2, <1>4, InHand DEF NoReport, IInv, CollectorTypes, TypeOK
  <2>2. c \in Conns /\ rec[c] \in Connection /\ rec[c].server \in Servers \cup {NoServer}
    BY <1>4 DEF IInv, ConnInv, ConnTypeOK, Connection
  <2>3. cur'[g] \in Work
    BY <2>1, <2>2 DEF Work
  <2>4. report'[g] \in ReportType /\ OneServer(report'[g]) /\ Explained(report'[g])
    BY <2>1, <2>2 DEF ReportType, OneServer, Explained, IInv, CollectorTypes
  <2>5. Other(g)
    BY <1>1, <1>2, <1>4, <2>1 DEF Other, IInv, CollectorTypes, TypeOK
  <2>6. CycleInv(g)'
    BY <1>1, <2>1 DEF CycleInv, Kinds, Hypertables, P2Tables, history
  <2>7. todo'[g] \in SUBSET Conns /\ pending'[g] \in SUBSET Conns
    BY <2>1, InHand
  <2> QED BY <1>1, <2>1, <2>3, <2>4, <2>5, <2>6, <2>7, GoroutineStep DEF Places
<1> QED BY <1>3, <1>4 DEF GetByID

\* A step within one connection: only the place and the report change.
LEMMA WithinStep ==
    ASSUME IInv, NEW g \in Goroutines, NEW u \in {"done"} \cup Kinds,
           at[g] \in {"health"} \cup Kinds, at' = [at EXCEPT ![g] = u],
           report' = [report EXCEPT ![g] = report'[g]], report'[g] \in ReportType,
           UNCHANGED <<connVars, schema, running, closed, todo, cur, pending, history>>,
           report'[g].boot = boots, OneServer(report'[g]), Explained(report'[g]),
           u # "done" => report'[g].status = "up" /\ report'[g].health = cur[g].copy.server
    PROVE  IInv'
<1>1. at'[g] = u /\ UNCHANGED <<cur[g], todo[g], pending[g], boots>> /\ u \in Places
  BY InHand DEF Places, history
<1>2. Other(g)
  BY DEF Other, IInv, CollectorTypes, TypeOK
<1>3. u \notin {"off", "list", "fetch", "select", "health"} /\ "done" \notin Kinds
  BY DEF Kinds, Hypertables, P2Tables
<1>4. CycleInv(g)'
  <2>1. pending[g] = todo[g] \ {cur[g].conn}
    BY InHand DEF CycleInv
  <2>2. /\ pending'[g] = todo'[g] \ {cur'[g].conn} /\ report'[g].boot = boots'
        /\ u # "done" => report'[g].status = "up" /\ report'[g].health = cur'[g].copy.server
    BY <1>1, <2>1
  <2> QED BY <1>1, <1>3, <2>2 DEF CycleInv
<1>5. at[g] # "off"
  BY DEF Kinds, Hypertables, P2Tables
<1> QED BY <1>1, <1>2, <1>3, <1>4, <1>5, InHand, GoroutineStep

LEMMA CheckHealthStep == ASSUME IInv, NEW g \in Goroutines, CheckHealth(g) PROVE IInv'
<1> DEFINE R == report[g]
           srv == cur[g].copy.server
<1>1. /\ at[g] = "health"
      /\ UNCHANGED <<connVars, schema, running, closed, todo, cur, pending, history>>
  BY DEF CheckHealth
<1>2. /\ R \in ReportType /\ R.from = {} /\ R.refused = {} /\ R.server = srv /\ R.boot = boots
      /\ OneServer(R) /\ Explained(R) /\ srv \in Servers \cup {NoServer}
  BY <1>1, InHand DEF CycleInv, Work, Connection
<1>3. CASE ~Recordable("health_checks")
  <2>1. report' = [report EXCEPT ![g].refused = {"health_checks"}] /\ at' = [at EXCEPT ![g] = "done"]
    BY <1>3 DEF CheckHealth
  <2>2. report'[g] = [R EXCEPT !.refused = {"health_checks"}] /\ report' = [report EXCEPT ![g] = report'[g]]
    BY <2>1 DEF IInv, CollectorTypes
  <2>3. report'[g] \in ReportType /\ OneServer(report'[g]) /\ report'[g].boot = boots
    BY <1>2, <2>2 DEF ReportType, OneServer, Hypertables
  <2>4. made = 0 /\ "health_checks" \notin P2Tables
    BY <1>3 DEF Recordable, IInv, SchemaHistory, Hypertables, P2Tables
  <2>5. Explained(report'[g])
    BY <1>2, <2>2, <2>4 DEF Explained, ReportType
  <2> QED BY <1>1, <2>1, <2>2, <2>3, <2>5, WithinStep
<1>4. CASE UNCHANGED report /\ at' = [at EXCEPT ![g] = "done"]
  <2>1. report' = [report EXCEPT ![g] = report'[g]] /\ report'[g] = R
    BY <1>4 DEF IInv, CollectorTypes
  <2> QED BY <1>1, <1>2, <1>4, <2>1, WithinStep
<1>5. ASSUME NEW s \in {"up", "down"},
             report' = [report EXCEPT ![g].status = s, ![g].health = Target(g).server],
             at' = [at EXCEPT ![g] = IF s = "up" THEN "db_metrics" ELSE "done"]
      PROVE  IInv'
  <2>1. report'[g] = [R EXCEPT !.status = s, !.health = srv] /\ report' = [report EXCEPT ![g] = report'[g]]
    BY <1>5 DEF Target, IInv, CollectorTypes
  <2>2. /\ report'[g] \in ReportType /\ report'[g].status = s /\ report'[g].health = srv
        /\ report'[g].server = srv /\ report'[g].from = {} /\ report'[g].boot = boots
        /\ report'[g].refused = {}
    <3> HIDE DEF R, srv
    <3> QED BY <1>2, <2>1 DEF ReportType
  <2>3. OneServer(report'[g]) /\ Explained(report'[g])
    BY <2>2 DEF OneServer, Explained
  <2>4. "db_metrics" \in Kinds
    BY DEF Kinds, Hypertables
  <2>5. CASE s = "up"
    BY <1>1, <1>5, <2>1, <2>2, <2>3, <2>4, <2>5, WithinStep
  <2>6. CASE s # "up"
    BY <1>1, <1>5, <2>1, <2>2, <2>3, <2>6, WithinStep
  <2> QED BY <2>5, <2>6
<1>6. \A s \in Statuses(g) : s \in {"up", "down"} /\ (GoesOn(s) <=> s = "up")
  BY DEF Statuses, GoesOn
<1> QED BY <1>3, <1>4, <1>5, <1>6 DEF CheckHealth

\* An INSERT into a table of metrics is refused for a reason that is known.
LEMMA Refused ==
    ASSUME IInv, NEW t \in Kinds, ~Recordable(t), Alive
    PROVE  \/ t \notin P2Tables /\ made = 0
           \/ t = "db_metrics" /\ (boots = made \/ \E c \in AddedColumns : <<boots, c>> \in lost)
           \/ t \in P2Tables /\ <<1, t>> \in lost
<1>1. boots # 0
  BY DEF IInv, OfThisProcess
<1>2. CASE t \in P2Tables
  BY <1>1, <1>2 DEF Recordable, IInv, SchemaHistory, P2Tables
<1>3. CASE t \notin P2Tables /\ made # 0
  <2>1. t \in tables /\ t = "db_metrics" /\ ~(AddedColumns \subseteq columns)
    BY <1>3 DEF Recordable, IInv, SchemaHistory, Kinds
  <2> QED BY <1>3, <2>1 DEF IInv, SchemaHistory
<1> QED BY <1>2, <1>3

\* One kind of metrics adds to the report only the server of the copy, which
\* is that of the health check.
LEMMA CollectStep ==
    ASSUME IInv, NEW g \in Goroutines, NEW t \in Kinds, NEW u \in {"done"} \cup Kinds,
           Collect(g, t, u)
    PROVE  IInv'
<1> DEFINE R == report[g]
           srv == cur[g].copy.server
<1>1. /\ at[g] = t /\ at' = [at EXCEPT ![g] = u]
      /\ UNCHANGED <<connVars, schema, running, closed, todo, cur, pending, history>>
  BY DEF Collect
<1>2. /\ R \in ReportType /\ R.status = "up" /\ R.health = srv /\ R.boot = boots
      /\ Explained(R) /\ OneServer(R) /\ srv \in Servers \cup {NoServer}
  BY <1>1, InHand DEF CycleInv, Work, Connection
<1>3. R.from \subseteq {srv} /\ R.server = srv
  BY <1>2 DEF OneServer
<1>4. CASE UNCHANGED report
  <2>1. report' = [report EXCEPT ![g] = report'[g]] /\ report'[g] = R
    BY <1>4 DEF IInv, CollectorTypes
  <2> QED BY <1>1, <1>2, <2>1, WithinStep
<1>5. CASE report' = [report EXCEPT ![g].from = @ \cup {Target(g).server}]
  <2>1. report'[g] = [R EXCEPT !.from = R.from \cup {srv}] /\ report' = [report EXCEPT ![g] = report'[g]]
    BY <1>5 DEF Target, IInv, CollectorTypes
  <2>2. R.from \cup {srv} = {srv}
    BY <1>3
  <2>3. /\ report'[g] \in ReportType /\ report'[g].from = {srv} /\ report'[g].status = "up"
        /\ report'[g].health = srv /\ report'[g].server = srv
        /\ report'[g].boot = boots /\ report'[g].refused = R.refused
    <3> HIDE DEF R, srv
    <3> QED BY <1>2, <1>3, <2>1, <2>2 DEF ReportType
  <2>4. OneServer(report'[g])
    BY <2>3 DEF OneServer
  <2>5. Explained(report'[g])
    BY <1>2, <2>3 DEF Explained
  <2> QED BY <1>1, <2>1, <2>3, <2>4, <2>5, WithinStep
<1>6. CASE ~Recordable(t) /\ report' = [report EXCEPT ![g].refused = @ \cup {t}]
  <2>1. report'[g] = [R EXCEPT !.refused = R.refused \cup {t}] /\ report' = [report EXCEPT ![g] = report'[g]]
    BY <1>6 DEF IInv, CollectorTypes
  <2>2. t \in Hypertables
    BY DEF Kinds
  <2>3. /\ report'[g] \in ReportType /\ report'[g].from = R.from /\ report'[g].status = "up"
        /\ report'[g].health = srv /\ report'[g].server = srv
        /\ report'[g].boot = boots /\ report'[g].refused = R.refused \cup {t}
    <3> HIDE DEF R, srv
    <3> QED BY <1>2, <1>3, <2>1, <2>2 DEF ReportType
  <2>4. OneServer(report'[g])
    BY <1>2, <2>3 DEF OneServer
  <2>5. Alive
    BY <1>1, InHand DEF IInv, OfThisProcess, Kinds, Hypertables, P2Tables
  <2>6. Explained(report'[g])
    <3> HIDE DEF R, srv
    <3>1. SUFFICES ASSUME NEW x \in R.refused \cup {t}
                   PROVE  \/ x \notin P2Tables /\ made = 0
                          \/ x = "db_metrics" /\ (\/ boots = made
                                                  \/ \E c \in AddedColumns : <<boots, c>> \in lost)
                          \/ x \in P2Tables /\ <<1, x>> \in lost
      BY <2>3 DEF Explained
    <3>2. CASE x = t
      BY <1>6, <2>5, <3>2, Refused
    <3>3. CASE x \in R.refused
      BY <1>2, <3>3 DEF Explained
    <3> QED BY <3>2, <3>3
  <2> QED BY <1>1, <2>1, <2>3, <2>4, <2>6, WithinStep
<1> QED BY <1>4, <1>5, <1>6 DEF Collect

LEMMA CountedStep == ASSUME IInv, NEW g \in Goroutines, Counted(g) PROVE IInv'
<1>1. /\ at[g] = "done" /\ NextConnection(g, Left(g, cur[g].conn))
      /\ UNCHANGED <<connVars, schema, running, closed, pending, history>>
  BY DEF Counted
<1>2. report' = [report EXCEPT ![g] = report'[g]] /\ report'[g] = NoReport
  BY DEF Counted, IInv, CollectorTypes
<1>3. NoReport \in ReportType /\ OneServer(NoReport) /\ Explained(NoReport)
  BY DEF NoReport, ReportType, OneServer, Explained
<1>4. pending = [pending EXCEPT ![g] = Left(g, cur[g].conn)] /\ Left(g, cur[g].conn) \in SUBSET Conns
  BY <1>1, InHand DEF CycleInv, Left, IInv, CollectorTypes
<1> QED BY <1>1, <1>2, <1>3, <1>4, MoveOn

LEMMA CycleStepInv == ASSUME IInv, NEW g \in Goroutines, CycleStep(g) PROVE IInv'
<1>1. {"db_metrics", "performance_metrics", "autovacuum_info", "lock_info", "replication_lag",
       "table_metrics"} \subseteq Kinds
  BY DEF Kinds, Hypertables, P2Tables
<1>2. CASE collectDBMetrics(g) \/ collectPerformance(g) \/ collectAutovacuumAsync(g)
           \/ collectLocksAsync(g) \/ collectReplicationLagAsync(g) \/ collectTableMetricsAsync(g)
  BY <1>1, <1>2, CollectStep DEF collectDBMetrics, collectPerformance, collectAutovacuumAsync,
             collectLocksAsync, collectReplicationLagAsync, collectTableMetricsAsync
<1> QED BY <1>2, ListStep, GetByIDStep, CheckHealthStep, CountedStep DEF CycleStep

\* What the statements of a start that fail unnoticed do to the schema.
LEMMA OpenHistory ==
    ASSUME IInv, NEW broken \in SUBSET MayFail, NEW reached \in SUBSET Hypertables,
           Open(broken, reached)
    PROVE  /\ columns' \subseteq AddedColumns /\ proper' \subseteq P2Tables
           /\ tables' \subseteq Hypertables /\ made' \in Nat /\ boots' = boots + 1
           /\ SchemaHistory'
<1>1. /\ boots \in Nat /\ made \in Nat /\ SchemaHistory
      /\ tables \subseteq Hypertables /\ columns \subseteq AddedColumns /\ proper \subseteq P2Tables
  BY DEF IInv, CollectorTypes, TypeOK
<1>2. /\ boots' = boots + 1
      /\ made' = IF made = 0 /\ reached = Hypertables THEN boots + 1 ELSE made
      /\ tables' = tables \cup (P2Tables \ broken) \cup reached
      /\ proper' = proper \cup (P2Tables \ (tables \cup broken))
      /\ columns' = columns \cup {c \in AddedColumns \ broken : "db_metrics" \in tables}
  BY DEF Open, Altered
<1>3. \A s \in broken : <<boots + 1, s>> \in lost'
  BY <1>2 DEF Open
<1>4. lost \subseteq lost'
  BY DEF Open
<1>5. P2Tables \subseteq Hypertables /\ "db_metrics" \in Hypertables
  BY DEF Hypertables
<1>6. /\ columns' \subseteq AddedColumns /\ proper' \subseteq P2Tables
      /\ tables' \subseteq Hypertables /\ made' \in Nat
  BY <1>1, <1>2, <1>5
<1>7. /\ made' <= boots' /\ boots' # 0
      /\ made' # 0 => Hypertables \subseteq tables'
      /\ proper' \subseteq tables'
  BY <1>1, <1>2 DEF SchemaHistory
<1>8. ASSUME NEW t \in P2Tables PROVE t \in proper' \/ <<1, t>> \in lost'
  <2>1. CASE boots = 0
    BY <1>1, <1>2, <1>3, <2>1 DEF SchemaHistory
  <2>2. CASE boots # 0
    BY <1>1, <1>2, <1>4, <2>2 DEF SchemaHistory
  <2> QED BY <2>1, <2>2
<1>9. ASSUME made' # 0 /\ made' # boots', NEW c \in AddedColumns
      PROVE  c \in columns' \/ <<boots', c>> \in lost'
  <2>1. "db_metrics" \in tables
    BY <1>1, <1>2, <1>5, <1>9 DEF SchemaHistory
  <2> QED BY <1>2, <1>3, <2>1
<1> QED BY <1>2, <1>6, <1>7, <1>8, <1>9 DEF SchemaHistory

\* A start finds no report.
LEMMA StartStep == ASSUME IInv, Start PROVE IInv'
<1> USE DEF Goroutines
<1>1. ConnInv'
  BY DEF Start, IInv, ConnInv, ConnTypeOK, connVars, connRows
<1>2. /\ at' = [at EXCEPT !["loop"] = "list"] /\ running' = TRUE
      /\ UNCHANGED <<todo, cur, report, pending, closed>>
  BY DEF Start
<1>3. \A g \in Goroutines : at[g] = "off" /\ report[g] = NoReport
  BY DEF Start, IInv, OfThisProcess
<1>4. PICK ext \in {timescale, TRUE}, broken \in SUBSET MayFail :
        /\ timescale' = ext
        /\ Open(broken, IF ext THEN Hypertables ELSE {}) \/ Open(broken, {})
  BY DEF Start
<1>5. /\ columns' \subseteq AddedColumns /\ proper' \subseteq P2Tables
      /\ tables' \subseteq Hypertables /\ made' \in Nat /\ boots' = boots + 1
      /\ SchemaHistory'
  BY <1>4, OpenHistory
<1>6. CollectorTypes'
  <2>1. boots' \in Nat
    BY <1>5 DEF IInv, CollectorTypes
  <2>2. timescale' \in BOOLEAN
    BY <1>4, Zenon DEF IInv, CollectorTypes, TypeOK
  <2> QED BY <1>1, <1>2, <1>5, <2>1, <2>2 DEF IInv, CollectorTypes, TypeOK, ConnInv
<1>7. OfThisProcess'
  BY <1>2, <1>5 DEF OfThisProcess, Alive, IInv, CollectorTypes, TypeOK
<1>8. ASSUME NEW g \in Goroutines PROVE (CycleInv(g) /\ OneServer(report[g]) /\ Explained(report[g]))'
  <2>1. at'[g] \in {"off", "list"} /\ pending'[g] = {} /\ report'[g] = NoReport
    BY <1>2, <1>3 DEF IInv, CycleInv
  <2> QED BY <2>1 DEF CycleInv, OneServer, Explained, NoReport, Kinds, Hypertables, P2Tables
<1> QED BY <1>1, <1>5, <1>6, <1>7, <1>8 DEF IInv

LEMMA StartFailsStep == ASSUME IInv, StartFails PROVE IInv'
<1>1. ConnInv'
  BY DEF StartFails, IInv, ConnInv, ConnTypeOK, connVars, connRows
<1>2. UNCHANGED <<at, running, closed, todo, cur, report, pending>> /\ timescale' = TRUE
  BY DEF StartFails
<1>3. ~Alive /\ \A g \in Goroutines : at[g] = "off" /\ report[g] = NoReport
  BY DEF StartFails, IInv, OfThisProcess
<1>4. /\ columns' \subseteq AddedColumns /\ proper' \subseteq P2Tables
      /\ tables' \subseteq Hypertables /\ made' \in Nat /\ boots' = boots + 1
      /\ SchemaHistory'
  <2>1. PICK n \in 0 .. Len(Order) - 1, broken \in SUBSET MayFail : Open(broken, FirstTables(n))
    BY DEF StartFails
  <2>2. Len(Order) = 7 /\ \A i \in 1 .. 7 : Order[i] \in Hypertables
    BY DEF Order, Hypertables, P2Tables
  <2>3. FirstTables(n) \subseteq Hypertables
    BY <2>2 DEF FirstTables
  <2> QED BY <2>1, <2>3, OpenHistory
<1>5. CollectorTypes'
  BY <1>1, <1>2, <1>4 DEF IInv, CollectorTypes, TypeOK, ConnInv
<1>6. OfThisProcess'
  BY <1>2, <1>3 DEF OfThisProcess, Alive, IInv
<1>7. ASSUME NEW g \in Goroutines PROVE (CycleInv(g) /\ OneServer(report[g]) /\ Explained(report[g]))'
  <2>1. at'[g] = "off" /\ pending'[g] = {} /\ report'[g] = NoReport
    BY <1>2, <1>3 DEF IInv, CycleInv
  <2> QED BY <2>1 DEF CycleInv, OneServer, Explained, NoReport, Kinds, Hypertables, P2Tables
<1> QED BY <1>1, <1>4, <1>5, <1>6, <1>7 DEF IInv

LEMMA ExitStep == ASSUME IInv, Exit PROVE IInv'
<1>1. ConnInv'
  BY DEF Exit, CallersLost, IInv, ConnInv, ConnTypeOK, connRows, NoArg
<1>2. NoWork \in Work /\ NoReport \in ReportType
  BY DEF NoWork, NoReport, Work, ReportType, NoConnection, Connection
<1>3. CollectorTypes'
  BY <1>1, <1>2 DEF Exit, schema, history, IInv, CollectorTypes, TypeOK, ConnInv, Work
<1>4. OfThisProcess' /\ SchemaHistory'
  BY DEF Exit, schema, history, IInv, OfThisProcess, SchemaHistory, Alive, Goroutines
<1>5. ASSUME NEW g \in Goroutines PROVE (CycleInv(g) /\ OneServer(report[g]) /\ Explained(report[g]))'
  BY DEF Exit, CycleInv, OneServer, Explained, NoReport, Kinds, Hypertables, P2Tables
<1> QED BY <1>1, <1>3, <1>4, <1>5 DEF IInv

LEMMA StopStep == ASSUME IInv, Stop PROVE IInv'
<1> USE DEF Stop, schema, history, connVars, connRows
<1>1. ConnInv' BY DEF IInv, ConnInv, ConnTypeOK
<1>2. CollectorTypes' BY <1>1 DEF IInv, CollectorTypes, TypeOK, ConnInv
<1>3. OfThisProcess' BY DEF IInv, OfThisProcess, Alive
<1>4. SchemaHistory' BY DEF IInv, SchemaHistory
<1>5. (\A g \in Goroutines : CycleInv(g) /\ OneServer(report[g]) /\ Explained(report[g]))'
  BY DEF IInv, CycleInv, OneServer, Explained
<1> QED BY <1>1, <1>2, <1>3, <1>4, <1>5 DEF IInv

\* A goroutine that begins a cycle, or the loop that ends.
LEMMA PlaceStep ==
    ASSUME IInv, NEW g \in Goroutines, NEW l \in {"list", "off"}, at[g] \in {"off", "select"},
           Alive, l = "off" => closed,
           at' = [at EXCEPT ![g] = l],
           UNCHANGED <<connVars, schema, running, closed, todo, cur, report, pending, history>>
    PROVE  IInv'
<1> USE DEF schema, history, connVars, connRows
<1>1. ConnInv' BY DEF IInv, ConnInv, ConnTypeOK
<1>2. CollectorTypes' BY <1>1 DEF IInv, CollectorTypes, TypeOK, ConnInv
<1>3. OfThisProcess' BY DEF IInv, CollectorTypes, TypeOK, OfThisProcess, Alive
<1>4. SchemaHistory' BY DEF IInv, SchemaHistory
<1>5. ASSUME NEW h \in Goroutines PROVE (CycleInv(h) /\ OneServer(report[h]) /\ Explained(report[h]))'
  BY DEF IInv, CollectorTypes, TypeOK, CycleInv, OneServer, Explained, Kinds, Hypertables, P2Tables
<1> QED BY <1>1, <1>2, <1>3, <1>4, <1>5 DEF IInv

\* A request for connections, or a server, beside the collector.
LEMMA BesideStep == ASSUME IInv, [ConnNext]_connVars, UNCHANGED collectorVars PROVE IInv'
<1> USE DEF collectorVars, schema, history
<1>1. ConnInv' BY ConnStep DEF IInv
<1>2. CollectorTypes' BY <1>1 DEF IInv, CollectorTypes, TypeOK, ConnInv
<1>3. OfThisProcess' BY DEF IInv, OfThisProcess, Alive
<1>4. SchemaHistory' BY DEF IInv, SchemaHistory
<1>5. (\A g \in Goroutines : CycleInv(g) /\ OneServer(report[g]) /\ Explained(report[g]))'
  BY DEF IInv, CycleInv, OneServer, Explained
<1> QED BY <1>1, <1>2, <1>3, <1>4, <1>5 DEF IInv

\* IInv holds in every reachable state, whatever the requests, the servers,
\* the goroutines, faults and restarts do.
THEOREM Invariance == Spec => []IInv
<1>1. IInv /\ [Next]_vars => IInv'
  <2> SUFFICES ASSUME IInv, [Next]_vars PROVE IInv'
    OBVIOUS
  <2>1. CASE Tick
    BY <2>1, PlaceStep DEF Tick, Alive, Goroutines
  <2>2. CASE LoopReturns
    BY <2>2, PlaceStep DEF LoopReturns, Alive, Goroutines
  <2>3. ASSUME NEW g \in Triggers, TriggerCollect(g) PROVE IInv'
    BY <2>3, PlaceStep DEF TriggerCollect, Goroutines
  <2>4. CASE ConnNext /\ UNCHANGED collectorVars
    BY <2>4, BesideStep
  <2>5. CASE UNCHANGED vars
    BY <2>5, BesideStep DEF vars
  <2> QED BY <2>1, <2>2, <2>3, <2>4, <2>5, StartStep, StartFailsStep, StopStep, ExitStep, CycleStepInv
      DEF Next
<1> QED BY CollectorInit, <1>1, PTL DEF Spec

\* The rows that a goroutine of the collector stores for a connection at one
\* time, the health check and the metrics, are of the one server that the row
\* named when it was read, and the metrics only of a server that was found up.
THEOREM OneServerReported == Spec => []ReportOfOneServer
<1>1. IInv => ReportOfOneServer
  BY DEF IInv, OneServer, ReportOfOneServer
<1> QED BY Invariance, <1>1, PTL

\* An INSERT of the collector is refused only where the order of migrate and
\* createHypertables, or a statement of theirs that failed, explains it.
THEOREM RefusalsExplained == Spec => []MissingExplained
<1>1. IInv => MissingExplained
  BY DEF IInv, Explained, MissingExplained
<1> QED BY Invariance, <1>1, PTL

\* A cycle sees to every connection that it has listed.
THEOREM EveryConnectionSeen == Spec => []NobodySkipped
<1>1. IInv => NobodySkipped
  BY DEF IInv, CycleInv, NobodySkipped
<1> QED BY Invariance, <1>1, PTL

\* The foreign keys hold beside the collector, too, which lists and reads the
\* rows while discoveries and deletions change them.
THEOREM CollectorTypeCorrect == Spec => []TypeOK
<1>1. IInv => TypeOK
  BY DEF IInv, CollectorTypes
<1> QED BY Invariance, <1>1, PTL
=============================================================================
