---------------------------- MODULE Connections ----------------------------
(***************************************************************************)
(* Connections to database servers and the databases found there           *)
(* (internal/connection, repository/postgres/connection.go).               *)
(*                                                                         *)
(* A request is one statement, except for a discovery, which reads the     *)
(* row, asks the server that it names, and saves what it has found in one  *)
(* transaction; other requests come between.  Schedules, backups and       *)
(* restores refer to the rows (db.go) and keep them.                       *)
(*                                                                         *)
(* Collector composes this module with the collector, which reads the      *)
(* same rows and asks the same servers.                                    *)
(***************************************************************************)
EXTENDS Naturals, FiniteSets

CONSTANTS Conns,        \* the IDs of connections
          Existing,     \* those that were created and discovered before
          Servers,
          Home,         \* Home[c]: the server that c, one of those, names
          Databases,    \* names of databases
          Holds,        \* Holds[s]: the databases of server s
          Callers,
          MaxRequests,  \* bound: requests
          MaxOutages    \* bound: servers that become unreachable

ASSUME ConnectionsAssumption ==
    /\ Existing \subseteq Conns /\ Home \in [Existing -> Servers]
    /\ Holds \in [Servers -> SUBSET Databases]
    /\ MaxRequests \in Nat /\ MaxOutages \in Nat

VARIABLES
    conns, rec,     \* the rows of connections, each with the server and whether
                    \* it has the right password
    dbs, selected,  \* the rows of connection_databases, and those with is_selected
    refs,           \* rows of connection_databases that schedules or backups name
    up,             \* servers that answer
    pc, arg,        \* callers: the next step, and what a discovery has found
    requests, outages

connRows == <<conns, rec, dbs, selected, refs>>
connVars == <<connRows, up, pc, arg, requests, outages>>

(* Definitions named "...Bug" are variants with a plausible mistake, which a *)
(* property must reject; no specification uses them.                         *)

NoServer == "none"
Connection == [server : Servers \cup {NoServer}, pass : BOOLEAN]
NoConnection == [server |-> NoServer, pass |-> FALSE]
NoArg == [conn |-> "none", found |-> {}]

\* A connection that can be opened and pinged.
Reachable(r) == r.server \in up /\ r.pass

ConnInit ==
    /\ conns = Existing
    /\ rec = [c \in Conns |-> IF c \in Existing THEN [server |-> Home[c], pass |-> TRUE]
                             ELSE NoConnection]
    /\ dbs = UNION {[conn : {c}, name : Holds[Home[c]]] : c \in Existing}
    /\ selected = dbs /\ refs = {}
    /\ up = Servers
    /\ pc = [k \in Callers |-> "idle"] /\ arg = [k \in Callers |-> NoArg]
    /\ requests = 0 /\ outages = 0

Request(k) ==
    /\ pc[k] = "idle" /\ requests < MaxRequests
    /\ requests' = requests + 1

-----------------------------------------------------------------------------
\* The connection is tested, then inserted under a new UUID.
handleCreate(k) ==
    \E c \in Conns, s \in up :
        /\ Request(k)
        /\ rec[c] = NoConnection
        /\ conns' = conns \cup {c}
        /\ rec' = [rec EXCEPT ![c] = [server |-> s, pass |-> TRUE]]
        /\ UNCHANGED <<dbs, selected, refs, up, pc, arg, outages>>

\* Nothing is tested.  The whole row is written from the body, in which the
\* password is missing when it is what handleGet returned.
handleUpdate(k) ==
    \E c \in conns, s \in Servers, p \in BOOLEAN :
        /\ Request(k)
        /\ rec' = [rec EXCEPT ![c] = [server |-> s, pass |-> p]]
        /\ UNCHANGED <<conns, dbs, selected, refs, up, pc, arg, outages>>

handleDeleteBug(k) == \* the references are not looked at
    \E c \in conns :
        /\ Request(k)
        /\ conns' = conns \ {c}
        /\ dbs' = {d \in dbs : d.conn # c} /\ selected' = {d \in selected : d.conn # c}
        /\ UNCHANGED <<rec, refs, up, pc, arg, outages>>

\* ON DELETE CASCADE takes the databases along; schedules, backups and
\* restores have no such clause, and the statement fails if there are any.
handleDelete(k) ==
    \E c \in conns :
        /\ Request(k)
        /\ c \notin {d.conn : d \in refs}
        /\ conns' = conns \ {c}
        /\ dbs' = {d \in dbs : d.conn # c} /\ selected' = {d \in selected : d.conn # c}
        /\ UNCHANGED <<rec, refs, up, pc, arg, outages>>

handleUpdateDatabase(k) ==
    \E d \in dbs, s \in BOOLEAN :
        /\ Request(k)
        /\ selected' = IF s THEN selected \cup {d} ELSE selected \ {d}
        /\ UNCHANGED <<conns, rec, dbs, refs, up, pc, arg, outages>>

-----------------------------------------------------------------------------
(* Discovery. *)
\* All but templates and system schemas.
discoverDatabases(r) == Holds[r.server]

handleDiscover(k) ==
    \E c \in conns :
        /\ Request(k)
        /\ IF Reachable(rec[c])
           THEN /\ pc' = [pc EXCEPT ![k] = "save"]
                /\ arg' = [arg EXCEPT ![k] = [conn |-> c, found |-> discoverDatabases(rec[c])]]
           ELSE UNCHANGED <<pc, arg>>
        /\ UNCHANGED <<connRows, up, outages>>

Upserted(k) == [conn : {arg[k].conn}, name : arg[k].found]

\* The transaction: ON CONFLICT(connection_id, db_name) selects the row again,
\* one that a user has deselected, too.
\* Databases that the server no longer has keep their rows.  A connection that
\* has gone makes the first INSERT fail.
UpsertDatabases(k) ==
    /\ pc[k] = "save"
    /\ IF arg[k].conn \in conns
       THEN /\ dbs' = dbs \cup Upserted(k)
            /\ selected' = selected \cup Upserted(k)
       ELSE UNCHANGED <<dbs, selected>>
    /\ pc' = [pc EXCEPT ![k] = "idle"] /\ arg' = [arg EXCEPT ![k] = NoArg]
    /\ UNCHANGED <<conns, rec, refs, up, requests, outages>>

-----------------------------------------------------------------------------
\* A request creates a schedule or a backup of the database.
Refer(k) ==
    \E d \in dbs \ refs :
        /\ Request(k)
        /\ refs' = refs \cup {d}
        /\ UNCHANGED <<conns, rec, dbs, selected, up, pc, arg, outages>>

ServerFails(s) ==
    /\ s \in up /\ outages < MaxOutages
    /\ up' = up \ {s} /\ outages' = outages + 1
    /\ UNCHANGED <<connRows, pc, arg, requests>>

ServerReturns(s) ==
    /\ s \in Servers \ up
    /\ up' = up \cup {s}
    /\ UNCHANGED <<connRows, pc, arg, requests, outages>>

\* The callers of a process that has ended are gone, their statements are not.
CallersLost ==
    /\ pc' = [k \in Callers |-> "idle"] /\ arg' = [k \in Callers |-> NoArg]
    /\ UNCHANGED <<connRows, up, requests, outages>>

ConnNext ==
    \/ \E k \in Callers :
        \/ handleCreate(k) \/ handleUpdate(k) \/ handleDelete(k)
        \/ handleUpdateDatabase(k) \/ handleDiscover(k) \/ UpsertDatabases(k)
        \/ Refer(k)
    \/ \E s \in Servers : ServerFails(s) \/ ServerReturns(s)

ConnSpec == ConnInit /\ [][ConnNext]_connVars

-----------------------------------------------------------------------------
\* The foreign keys hold, whatever a discovery saves after a deletion: each
\* database has its connection, and what schedules and backups name is there.
ConnTypeOK ==
    /\ conns \subseteq Conns /\ rec \in [Conns -> Connection]
    /\ dbs \subseteq [conn : conns, name : Databases]
    /\ selected \subseteq dbs /\ refs \subseteq dbs
    /\ up \subseteq Servers /\ pc \in [Callers -> {"idle", "save"}]
=============================================================================
