---------------------- MODULE IncrementalEnginesProofs ----------------------
(***************************************************************************)
(* Proofs about IncrementalEngines, for every number of runs, connections  *)
(* and providers, whatever the connections are called and whichever names  *)
(* come out as the same stanza.                                            *)
(***************************************************************************)
EXTENDS IncrementalEngines, TLAPS

-----------------------------------------------------------------------------
(* The inductive invariant, in parts. *)

Types ==
    /\ TypeOK
    /\ from \in [Runs -> Conns \cup {"none"}]
    /\ at \in [Runs -> Repos \cup {NoRepo}]

\* Between its writes and its commands a run finds in the file what it wrote
\* itself, or has a rival to blame.
Found(r) ==
    /\ pc[r] = "fill" /\ rivals[r] = {} => conf = Empty
    /\ pc[r] \in {"stanza", "backup"} =>
          conf = Mine(r) \/ \E s \in rivals[r] : conf \in {Mine(s), Empty, Garbled}

\* What a command takes for its own configuration.
Passes(r, f) == f = Mine(r) \/ \E s \in rivals[r] : f = Mine(s) /\ f.stanza = Mine(r).stanza

Used(r) == pc[r] = "copying" => Passes(r, using[r])

Streaming(r) == pc[r] = "stream" => ~Postgres(r)

Reported(r) ==
    row[r] = "success" /\ Postgres(r) =>
        \E f \in Configs : Passes(r, f) /\ from[r] = f.conn /\ at[r] = Repo(f)

IInv == Types /\ \A r \in Runs : Found(r) /\ Used(r) /\ Streaming(r) /\ Reported(r)

-----------------------------------------------------------------------------
(* Configurations. *)

LEMMA MineConfig == ASSUME Types, NEW r \in Runs PROVE Mine(r) \in Configs
BY DEF Types, TypeOK, Mine, Configs

LEMMA ConfigFields ==
    ASSUME NEW f \in Configs
    PROVE  /\ f \notin {Empty, Garbled}
           /\ f.conn \in Conns /\ Repo(f) \in Repos
<1>1. PICK c \in Conns, p \in Provs : f = Config(c, p)
  BY DEF Configs
<1>2. f.conn = c /\ DOMAIN f = {"conn", "stanza", "prov", "path"}
  BY <1>1 DEF Config
<1>3. DOMAIN Empty = {"conn"} /\ DOMAIN Garbled = {"conn"}
  BY DEF Empty, Garbled
<1> QED BY <1>1, <1>2, <1>3 DEF Repos

\* What the file says once a command has found its --stanza there.
LEMMA ReadablePasses ==
    ASSUME IInv, NEW r \in Runs, pc[r] = "backup", Readable(r)
    PROVE  conf \in Configs /\ Passes(r, conf)
<1>1. conf \in Configs /\ conf.stanza = Mine(r).stanza
  BY DEF Readable
<1>2. conf \notin {Empty, Garbled}
  BY <1>1, ConfigFields
<1> QED BY <1>1, <1>2 DEF IInv, Found, Passes

-----------------------------------------------------------------------------
(* The steps of the proof. *)

LEMMA InitInv == Init => IInv
<1> SUFFICES ASSUME Init PROVE IInv
  OBVIOUS
<1>1. Types
  BY EnginesAssumption DEF Init, Types, TypeOK
<1>2. \A r \in Runs : Found(r) /\ Used(r) /\ Streaming(r) /\ Reported(r)
  BY DEF Init, Found, Used, Streaming, Reported
<1> QED BY <1>1, <1>2 DEF IInv

\* The steps of a run do not reach into the others, but for the file and the
\* note that it was written.
LEMMA OtherRuns ==
    ASSUME IInv, NEW r \in Runs, NEW q \in Runs, q # r,
           UNCHANGED <<pc[q], conn, prov, row[q], using[q], from[q], at[q]>>,
           \/ UNCHANGED <<conf, rivals>>
           \/ Disturb(r) /\ conf' \in {conf, Mine(r), Empty, Garbled}
    PROVE  Found(q)' /\ Used(q)' /\ Streaming(q)' /\ Reported(q)'
<1>1. \A s \in Runs : Mine(s)' = Mine(s)
  BY DEF Mine
<1>2. rivals[q] \subseteq rivals'[q] /\ rivals[q] \subseteq Runs
  BY DEF Disturb, IInv, Types, TypeOK
<1>3. \A f : Passes(q, f) => f = Mine(q) \/ \E s \in rivals'[q] : f = Mine(s) /\ f.stanza = Mine(q).stanza
  BY <1>2 DEF Passes
<1>4. rivals'[q] \subseteq Runs
  BY <1>2 DEF Disturb
<1>5. \A f : Passes(q, f) => Passes(q, f)'
  BY <1>1, <1>3, <1>4 DEF Passes
<1>6. Found(q)'
  <2>1. CASE UNCHANGED <<conf, rivals>>
    BY <1>1, <1>2, <2>1 DEF IInv, Found
  <2>2. CASE Disturb(r) /\ conf' \in {conf, Mine(r), Empty, Garbled}
    <3>1. CASE pc[q] \in Writing
      <4>1. r \in rivals'[q]
        BY <2>2, <3>1 DEF Disturb
      <4> QED BY <1>1, <1>2, <2>2, <4>1 DEF IInv, Found
    <3>2. CASE pc[q] \notin Writing
      BY <3>2 DEF Found, Writing
    <3> QED BY <3>1, <3>2
  <2> QED BY <2>1, <2>2
<1>7. Used(q)' /\ Streaming(q)' /\ Reported(q)'
  <2>1. Used(q)' BY <1>5 DEF IInv, Used
  <2>2. Streaming(q)' BY DEF IInv, Streaming, Postgres
  <2>3. Reported(q)' BY <1>5 DEF IInv, Reported, Postgres
  <2> QED BY <2>1, <2>2, <2>3
<1> QED BY <1>6, <1>7

LEMMA StepInv == ASSUME IInv, NEW r \in Runs, Step(r) PROVE IInv'
<1>0. Types /\ Found(r) /\ Used(r) /\ Streaming(r) /\ Reported(r)
  BY DEF IInv
<1>a. Mine(r) \in Configs
  BY <1>0, MineConfig
<1> USE DEF Goto, End, runVars, toolVars
<1>1. UNCHANGED <<conn, prov>> /\ \A q \in Runs \ {r} : UNCHANGED <<pc[q], row[q], using[q], from[q], at[q]>>
  BY <1>0 DEF Step, RunEngine, EngineUnavailable, Stream, TruncateConfig, WriteConfig, StanzaCreate,
              BackupReads, BackupDone, BackupFails, Types, TypeOK
<1>2. \/ UNCHANGED <<conf, rivals>>
      \/ Disturb(r) /\ conf' \in {conf, Mine(r), Empty, Garbled}
  BY DEF Step, RunEngine, EngineUnavailable, Stream, TruncateConfig, WriteConfig, StanzaCreate,
         BackupReads, BackupDone, BackupFails
<1>3. \A q \in Runs \ {r} : Found(q)' /\ Used(q)' /\ Streaming(q)' /\ Reported(q)'
  BY <1>1, <1>2, OtherRuns
<1>b. Mine(r)' = Mine(r) /\ (Postgres(r)' <=> Postgres(r))
  BY <1>1 DEF Mine, Postgres
<1>c. rivals'[r] = rivals[r]
  BY <1>0, <1>2 DEF Disturb, Types, TypeOK
<1>d. \A f : Passes(r, f) => Passes(r, f)'
  <2>1. \A s \in Runs : Mine(s)' = Mine(s)
    BY <1>1 DEF Mine
  <2> QED BY <1>0, <1>c, <2>1 DEF Passes, Types, TypeOK
<1>4. CASE RunEngine(r)
  <2>1. Types' BY <1>0, <1>4 DEF RunEngine, Types, TypeOK
  <2>2. Found(r)' /\ Used(r)' BY <1>0, <1>4 DEF RunEngine, Found, Used, Types, TypeOK
  <2>3. Streaming(r)' BY <1>0, <1>4, <1>b DEF RunEngine, Streaming, Types, TypeOK
  <2>4. Reported(r)' BY <1>0, <1>4, <1>b, <1>d DEF RunEngine, Reported, Types, TypeOK
  <2> QED BY <1>3, <2>1, <2>2, <2>3, <2>4 DEF IInv
<1>5. CASE EngineUnavailable(r) \/ BackupFails(r)
  <2>1. Types' BY <1>0, <1>5 DEF EngineUnavailable, BackupFails, Types, TypeOK
  <2>2. Found(r)' /\ Used(r)' /\ Streaming(r)' /\ Reported(r)'
    BY <1>0, <1>5 DEF EngineUnavailable, BackupFails, Found, Used, Streaming, Reported, Types, TypeOK
  <2> QED BY <1>3, <2>1, <2>2 DEF IInv
<1>6. CASE Stream(r)
  <2>1. Types' BY <1>0, <1>6 DEF Stream, Types, TypeOK
  <2>2. Found(r)' /\ Used(r)' /\ Streaming(r)' BY <1>0, <1>6 DEF Stream, Found, Used, Streaming, Types, TypeOK
  <2>3. Reported(r)' BY <1>0, <1>6, <1>b DEF Stream, Streaming, Reported
  <2> QED BY <1>3, <2>1, <2>2, <2>3 DEF IInv
<1>7. CASE TruncateConfig(r)
  <2>1. Types' BY <1>0, <1>7 DEF TruncateConfig, Disturb, Types, TypeOK
  <2>2. Found(r)' /\ Used(r)' /\ Streaming(r)'
    BY <1>0, <1>7 DEF TruncateConfig, Found, Used, Streaming, Types, TypeOK
  <2>3. Reported(r)' BY <1>0, <1>7, <1>b, <1>d DEF TruncateConfig, Reported
  <2> QED BY <1>3, <2>1, <2>2, <2>3 DEF IInv
<1>8. CASE WriteConfig(r)
  <2>1. Types' BY <1>0, <1>8, <1>a DEF WriteConfig, Disturb, Types, TypeOK
  <2>2. Found(r)' BY <1>0, <1>8, <1>b, <1>c DEF WriteConfig, Found, Types, TypeOK
  <2>3. Used(r)' /\ Streaming(r)' BY <1>0, <1>8 DEF WriteConfig, Used, Streaming, Types, TypeOK
  <2>4. Reported(r)' BY <1>0, <1>8, <1>b, <1>d DEF WriteConfig, Reported, Types, TypeOK
  <2> QED BY <1>3, <2>1, <2>2, <2>3, <2>4 DEF IInv
<1>9. CASE StanzaCreate(r)
  <2>1. Types'
    <3>1. stanza' \in [Repos -> Conns \cup {"none"}]
      BY <1>0, <1>9, ConfigFields DEF StanzaCreate, Readable, Types, TypeOK
    <3> QED BY <1>0, <1>9, <3>1 DEF StanzaCreate, Types, TypeOK
  <2>2. Found(r)'
    <3>1. conf = Mine(r) \/ \E s \in rivals[r] : conf \in {Mine(s), Empty, Garbled}
      BY <1>0, <1>9 DEF StanzaCreate, Found
    <3>2. pc'[r] = "backup" /\ UNCHANGED conf
      BY <1>0, <1>9 DEF StanzaCreate, Types, TypeOK
    <3>3. \A s \in rivals[r] : Mine(s)' = Mine(s)
      BY <1>1 DEF Mine
    <3> QED BY <1>b, <1>c, <3>1, <3>2, <3>3 DEF Found
  <2>3. Used(r)' /\ Streaming(r)' BY <1>0, <1>9 DEF StanzaCreate, Used, Streaming, Types, TypeOK
  <2>4. Reported(r)' BY <1>0, <1>9, <1>b, <1>d DEF StanzaCreate, Reported
  <2> QED BY <1>3, <2>1, <2>2, <2>3, <2>4 DEF IInv
<1>10. CASE BackupReads(r)
  <2>1. Types' BY <1>0, <1>10 DEF BackupReads, Readable, Types, TypeOK
  <2>2. Found(r)' /\ Streaming(r)' BY <1>0, <1>10 DEF BackupReads, Found, Streaming, Types, TypeOK
  <2>3. Used(r)'
    <3>1. CASE pc'[r] = "copying"
      <4>1. using'[r] = conf /\ Passes(r, conf)
        BY <1>0, <1>10, <3>1, ReadablePasses DEF BackupReads, Types, TypeOK
      <4> QED BY <1>d, <4>1 DEF Used
    <3>2. CASE pc'[r] # "copying"
      BY <3>2 DEF Used
    <3> QED BY <3>1, <3>2
  <2>4. Reported(r)' BY <1>0, <1>10, <1>b, <1>d DEF BackupReads, Reported, Types, TypeOK
  <2> QED BY <1>3, <2>1, <2>2, <2>3, <2>4 DEF IInv
<1>11. CASE BackupDone(r)
  <2>1. PICK f \in Configs : f = using[r] /\ Passes(r, f)
    <3>1. Passes(r, using[r])
      BY <1>0, <1>11 DEF BackupDone, Used
    <3>2. \A s \in rivals[r] : Mine(s) \in Configs
      BY <1>0, MineConfig DEF Types, TypeOK
    <3> QED BY <1>a, <3>1, <3>2 DEF Passes
  <2>2. f.conn \in Conns /\ Repo(f) \in Repos
    BY ConfigFields
  <2>3. from'[r] = f.conn /\ at'[r] = Repo(f)
    BY <1>0, <1>11, <2>1 DEF BackupDone, Types
  <2>4. Types' BY <1>0, <1>11, <2>1, <2>2 DEF BackupDone, Types, TypeOK
  <2>5. Found(r)' /\ Used(r)' /\ Streaming(r)'
    BY <1>0, <1>11 DEF BackupDone, Found, Used, Streaming, Types, TypeOK
  <2>6. Reported(r)' BY <1>d, <2>1, <2>3 DEF Reported
  <2> QED BY <1>3, <2>4, <2>5, <2>6 DEF IInv
<1> QED BY <1>4, <1>5, <1>6, <1>7, <1>8, <1>9, <1>10, <1>11 DEF Step

\* IInv holds in every reachable state, however the runs of the engines
\* interleave over the one pgbackrest.conf.
THEOREM Invariance == Spec => []IInv
<1>1. IInv /\ [Next]_vars => IInv'
  <2> SUFFICES ASSUME IInv, UNCHANGED vars PROVE IInv'
    BY StepInv DEF Next, AllEnded
  <2>1. Types' BY DEF vars, runVars, toolVars, IInv, Types, TypeOK
  <2>2. \A r \in Runs : (Found(r) /\ Used(r) /\ Streaming(r) /\ Reported(r))'
    BY DEF vars, runVars, toolVars, IInv, Found, Used, Streaming, Reported, Passes, Mine, Postgres
  <2> QED BY <2>1, <2>2 DEF IInv
<1> QED BY InitInv, <1>1, PTL DEF Spec

\* Runs, the file, the stanzas and the commands keep their types.
THEOREM TypeCorrect == Spec => []TypeOK
<1>1. IInv => TypeOK
  BY DEF IInv, Types
<1> QED BY Invariance, <1>1, PTL

\* Unless another run has written the file since a run began to, its commands
\* find there what it wrote.
THEOREM OwnConfigFound == Spec => []OwnConfig
<1>1. IInv => OwnConfig
  BY DEF IInv, Found, OwnConfig
<1> QED BY Invariance, <1>1, PTL

\* A run that reports success has backed up its own connection, or one whose
\* name sanitizeStanzaName makes the same stanza of.
THEOREM OnlyNamesakesMislead == Spec => []MisdirectedOnlyByNamesake
<1>1. ASSUME IInv PROVE MisdirectedOnlyByNamesake
  <2> SUFFICES ASSUME NEW r \in Runs, row[r] = "success", Postgres(r)
               PROVE  \/ from[r] = conn[r] /\ at[r] = Repo(Mine(r))
                      \/ \E s \in rivals[r] : Mine(s).stanza = Mine(r).stanza
    BY DEF MisdirectedOnlyByNamesake
  <2>1. PICK f \in Configs : Passes(r, f) /\ from[r] = f.conn /\ at[r] = Repo(f)
    BY <1>1 DEF IInv, Reported
  <2>2. Mine(r).conn = conn[r]
    BY DEF Mine, Config
  <2> QED BY <2>1, <2>2 DEF Passes
<1> QED BY Invariance, <1>1, PTL
=============================================================================
