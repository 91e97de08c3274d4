--------------------------- MODULE RestoreProofs ---------------------------
(***************************************************************************)
(* Proofs about Restore, for every number of restores, targets, backups    *)
(* and objects, whatever the backups are made of, and for any number of    *)
(* crashes and of updates that fail.                                       *)
(***************************************************************************)
EXTENDS Restore, TLAPS

-----------------------------------------------------------------------------
(* The inductive invariant, in parts. *)

Types == TypeOK /\ rivals \in [Restores -> SUBSET Restores]

\* What the row of a restore says, by the step its goroutine is at.
RowFollows ==
    \A r \in Restores :
        /\ pc[r] \in {"idle", "create"} => row[r] = "none"
        /\ pc[r] \in {"download", "decompress", "tool", "apply"} => row[r] = "running"

\* Two tools at work on one target are rivals.
RivalsSeen ==
    \A r, s \in Restores :
        r # s /\ target[r] = target[s] /\ pc[r] = "apply" /\ pc[s] = "apply" => s \in rivals[r]

\* Without rivals, what a tool has replaced is the backup's.
Replaced ==
    \A r \in Restores : pc[r] = "apply" /\ rivals[r] = {} =>
        \A o \in Objects \ left[r] : database[target[r]][o] = backup[r]

\* What MixtureExplained asks of the table of restores.
Reason(r, c) == target[r] = c /\ row[r] # "none" /\ (row[r] \in {"running", "failed"} \/ rivals[r] # {})

IInv == Types /\ RowFollows /\ RivalsSeen /\ Replaced /\ MixtureExplained

-----------------------------------------------------------------------------
(* The steps of the proof. *)

LEMMA InitInv == Init => IInv
<1> SUFFICES ASSUME Init PROVE IInv
  OBVIOUS
<1>1. Types
  BY RestoreAssumption DEF Init, Types, TypeOK, Forms
<1>2. RowFollows /\ RivalsSeen /\ Replaced
  BY DEF Init, RowFollows, RivalsSeen, Replaced
<1>3. MixtureExplained
  BY <1>1 DEF Init, Types, TypeOK, MixtureExplained
<1> QED BY <1>1, <1>2, <1>3 DEF IInv

\* Steps before the tool's work, and those that break it off, keep what is
\* said about contents: what was explained before has the same explanation.
LEMMA ContentsKept ==
    ASSUME IInv, UNCHANGED <<args, left, database, rivals>>,
           \A r \in Restores :
              /\ pc'[r] = "apply" => pc[r] = "apply"
              /\ row[r] \in {"running", "failed"} => row'[r] \in {"running", "failed"}
              /\ row[r] = "success" => row'[r] = "success"
    PROVE  RivalsSeen' /\ Replaced' /\ MixtureExplained'
<1>1. RivalsSeen'
  BY DEF IInv, RivalsSeen, args
<1>2. Replaced'
  BY DEF IInv, Replaced, args
<1>3. \A q \in Restores, c \in Conns : Reason(q, c) => Reason(q, c)'
  BY DEF IInv, Types, TypeOK, Reason, args
<1>4. MixtureExplained'
  <2> SUFFICES ASSUME NEW c \in Conns, (\E o, p \in Objects : database[c][o] # database[c][p])
               PROVE  \E q \in Restores : Reason(q, c)'
    BY DEF MixtureExplained, Reason
  <2> QED BY <1>3 DEF IInv, MixtureExplained, Reason
<1> QED BY <1>1, <1>2, <1>4

\* A restore that begins, ends without a verdict of success, or goes on to
\* the next step before the tool.
LEMMA StepAside ==
    ASSUME IInv, NEW r \in Restores, NEW l, NEW v,
           UNCHANGED <<stores, args, left, database, rivals>>,
           pc' = [pc EXCEPT ![r] = l], row' = [row EXCEPT ![r] = v],
           data' \in [Restores -> Forms],
           \/ l = "create" /\ v = "none" /\ pc[r] = "idle"
           \/ l = "download" /\ v = "running" /\ pc[r] = "create"
           \/ l \in {"decompress", "tool"} /\ v = "running" /\ row[r] = "running"
           \/ l = "ended" /\ v = "failed" /\ row[r] = "running"
           \/ l = "ended" /\ v \in {"none", "running"} /\ v = row[r]
    PROVE  IInv'
<1>1. Types'
  BY DEF IInv, Types, TypeOK, stores, args
<1>2. RowFollows'
  BY DEF IInv, RowFollows, Types, TypeOK
<1>3. \A q \in Restores :
        /\ pc'[q] = "apply" => pc[q] = "apply"
        /\ row[q] \in {"running", "failed"} => row'[q] \in {"running", "failed"}
        /\ row[q] = "success" => row'[q] = "success"
  BY DEF IInv, RowFollows, Types, TypeOK
<1> QED BY <1>1, <1>2, <1>3, ContentsKept DEF IInv

LEMMA BeginInv == ASSUME IInv, NEW r \in Restores, StartRestore(r) \/ CreateRestore(r) PROVE IInv'
<1>1. UNCHANGED <<stores, args, data, left, database, rivals>> /\ data' \in [Restores -> Forms]
  BY DEF StartRestore, CreateRestore, run, IInv, Types, TypeOK
<1>2. \E l, v :
        /\ pc' = [pc EXCEPT ![r] = l] /\ row' = [row EXCEPT ![r] = v]
        /\ \/ l = "create" /\ v = "none" /\ pc[r] = "idle"
           \/ l = "download" /\ v = "running" /\ pc[r] = "create"
           \/ l = "ended" /\ v \in {"none", "running"} /\ v = row[r]
  <2>1. row' = [row EXCEPT ![r] = row[r]] \/ row' = [row EXCEPT ![r] = "running"]
    BY DEF StartRestore, CreateRestore, IInv, Types, TypeOK
  <2> QED BY <2>1 DEF StartRestore, CreateRestore, Goto, IInv, RowFollows, Types, TypeOK
<1> QED BY <1>1, <1>2, StepAside

LEMMA PrepareInv ==
    ASSUME IInv, NEW r \in Restores,
           DownloadFails(r) \/ Download(r) \/ decompressData(r) \/ UpdateFails(r)
               \/ (executeRestore(r) /\ ~Accepted(r)) \/ ToolFails(r)
    PROVE  IInv'
<1>1. UNCHANGED <<stores, args, left, database, rivals>>
  BY DEF DownloadFails, Download, decompressData, UpdateFails, executeRestore, ToolFails, run
<1>2. data' \in [Restores -> Forms]
  <2>1. CASE Download(r)
    BY <2>1, RestoreAssumption DEF Download, IInv, Types, TypeOK
  <2>2. CASE decompressData(r)
    BY <2>2 DEF decompressData, run, IInv, Types, TypeOK
  <2>3. CASE UNCHANGED data
    BY <2>3 DEF IInv, Types, TypeOK
  <2> QED BY <2>1, <2>2, <2>3 DEF DownloadFails, UpdateFails, executeRestore, ToolFails, run
<1>3. row[r] = "running" /\ row = [row EXCEPT ![r] = "running"]
  BY DEF DownloadFails, Download, decompressData, UpdateFails, executeRestore, ToolFails,
         IInv, RowFollows, Types, TypeOK
<1>4. \E l, v :
        /\ pc' = [pc EXCEPT ![r] = l] /\ row' = [row EXCEPT ![r] = v]
        /\ \/ l \in {"decompress", "tool"} /\ v = "running"
           \/ l = "ended" /\ v = "failed"
           \/ l = "ended" /\ v = "running"
  BY <1>3 DEF DownloadFails, Download, decompressData, UpdateFails, executeRestore, ToolFails,
         Goto, Conclude, failRestore
<1> QED BY <1>1, <1>2, <1>3, <1>4, StepAside

\* The tool begins: it and those at work on its target become rivals.
LEMMA ToolInv == ASSUME IInv, NEW r \in Restores, executeRestore(r), Accepted(r) PROVE IInv'
<1> USE DEF executeRestore, Goto, stores, args
<1>a. /\ rivals'[r] = AtWorkWith(r)
      /\ \A q \in AtWorkWith(r) : rivals'[q] = rivals[q] \cup {r}
      /\ \A q \in Restores \ {r} : rivals[q] \subseteq rivals'[q] /\ rivals'[q] \subseteq Restores
      /\ AtWorkWith(r) \subseteq Restores \ {r}
  BY DEF IInv, Types, AtWorkWith
<1>b. /\ \A q \in Restores \ {r} : pc'[q] = pc[q] /\ left'[q] = left[q]
      /\ pc'[r] = "apply" /\ left'[r] = Objects
  BY DEF IInv, Types, TypeOK
<1>1. Types'
  <2>1. rivals' \in [Restores -> SUBSET Restores]
    BY <1>a
  <2>2. pc' \in [Restores -> {"idle", "create", "download", "decompress", "tool", "apply", "ended"}]
    BY DEF IInv, Types, TypeOK
  <2> QED BY <2>1, <2>2 DEF IInv, Types, TypeOK
<1>2. row[r] = "running" /\ pc[r] = "tool" /\ row' = row
  BY DEF IInv, RowFollows
<1>3. RowFollows'
  BY <1>2 DEF IInv, RowFollows, Types, TypeOK
<1>4. RivalsSeen'
  <2> SUFFICES ASSUME NEW p \in Restores, NEW q \in Restores, p # q, target[p] = target[q],
                      pc'[p] = "apply", pc'[q] = "apply"
               PROVE  q \in rivals'[p]
    BY DEF RivalsSeen
  <2>1. CASE p = r
    BY <1>a, <1>b, <2>1 DEF AtWorkWith
  <2>2. CASE q = r
    BY <1>a, <1>b, <2>2 DEF AtWorkWith
  <2>3. CASE r \notin {p, q}
    BY <1>a, <1>b, <2>3 DEF IInv, RivalsSeen
  <2> QED BY <2>1, <2>2, <2>3
<1>5. Replaced'
  <2> SUFFICES ASSUME NEW q \in Restores, pc'[q] = "apply", rivals'[q] = {}, NEW o \in Objects \ left'[q]
               PROVE  database[target[q]][o] = backup[q]
    BY DEF Replaced
  <2>1. q # r /\ rivals[q] = {}
    BY <1>a, <1>b
  <2> QED BY <1>b, <2>1 DEF IInv, Replaced
<1>6. MixtureExplained'
  <2> SUFFICES ASSUME NEW c \in Conns, (\E o, p \in Objects : database[c][o] # database[c][p])
               PROVE  \E q \in Restores : Reason(q, c)'
    BY <1>2 DEF MixtureExplained, Reason
  <2>1. PICK q \in Restores : Reason(q, c)
    BY DEF IInv, MixtureExplained, Reason
  <2>2. CASE q = r
    BY <1>2, <2>1, <2>2 DEF Reason
  <2>3. CASE q # r
    BY <1>2, <1>a, <2>1, <2>3 DEF Reason
  <2> QED BY <2>2, <2>3
<1> QED BY <1>1, <1>3, <1>4, <1>5, <1>6 DEF IInv

LEMMA ReplaceInv ==
    ASSUME IInv, NEW r \in Restores, NEW o \in Objects, ReplaceObject(r, o)
    PROVE  IInv'
<1> USE DEF ReplaceObject, stores, args, bounds
<1>1. Types'
  BY DEF IInv, Types, TypeOK
<1>2. row[r] = "running" /\ pc[r] = "apply"
  BY DEF IInv, RowFollows
<1>3. RowFollows'
  BY <1>2 DEF IInv, RowFollows, Types, TypeOK
<1>4. RivalsSeen'
  BY DEF IInv, RivalsSeen
<1>5. Replaced'
  <2> SUFFICES ASSUME NEW q \in Restores, pc[q] = "apply", rivals[q] = {}, NEW p \in Objects \ left'[q]
               PROVE  database'[target[q]][p] = backup[q]
    BY DEF Replaced
  <2>1. CASE q = r
    BY <2>1 DEF IInv, Replaced, Types, TypeOK
  <2>2. CASE q # r
    <3>1. target[q] # target[r]
      BY <1>2, <2>2 DEF IInv, RivalsSeen
    <3>2. database'[target[q]] = database[target[q]] /\ left'[q] = left[q]
      BY <2>2, <3>1 DEF IInv, Types, TypeOK
    <3> QED BY <3>2 DEF IInv, Replaced
  <2> QED BY <2>1, <2>2
<1>6. MixtureExplained'
  <2> SUFFICES ASSUME NEW c \in Conns, (\E p, q \in Objects : database'[c][p] # database'[c][q])
               PROVE  \E q \in Restores : Reason(q, c)
    BY DEF MixtureExplained, Reason
  <2>1. CASE target[r] = c
    BY <1>2, <2>1 DEF Reason
  <2>2. CASE target[r] # c
    <3>1. database'[c] = database[c]
      BY <2>2 DEF IInv, Types, TypeOK
    <3> QED BY <3>1 DEF IInv, MixtureExplained, Reason
  <2> QED BY <2>1, <2>2
<1> QED BY <1>1, <1>3, <1>4, <1>5, <1>6 DEF IInv

\* The one step that takes away an explanation: by then the objects are all
\* the backup's.
LEMMA SucceedInv == ASSUME IInv, NEW r \in Restores, Succeed(r) PROVE IInv'
<1> USE DEF Succeed, Conclude, Goto, stores, args, run
<1>1. Types'
  BY DEF IInv, Types, TypeOK
<1>2. RowFollows'
  BY DEF IInv, RowFollows, Types, TypeOK
<1>3. \A q \in Restores : pc'[q] = "apply" => pc[q] = "apply"
  BY DEF IInv, Types, TypeOK
<1>4. RivalsSeen'
  BY <1>3 DEF IInv, RivalsSeen
<1>5. Replaced'
  BY <1>3 DEF IInv, Replaced
<1>6. row'[r] = "success" /\ \A q \in Restores \ {r} : row'[q] = row[q]
  BY DEF IInv, RowFollows, Types, TypeOK
<1>7. MixtureExplained'
  <2> SUFFICES ASSUME NEW c \in Conns, NEW p \in Objects, NEW o \in Objects, database[c][p] # database[c][o]
               PROVE  \E q \in Restores : Reason(q, c)'
    BY DEF MixtureExplained, Reason
  <2>1. PICK q \in Restores : Reason(q, c)
    BY DEF IInv, MixtureExplained, Reason
  <2>2. CASE q # r \/ rivals[q] # {}
    BY <1>6, <2>1, <2>2 DEF Reason
  <2>3. CASE q = r /\ rivals[r] = {}
    <3>1. database[c][p] = backup[r] /\ database[c][o] = backup[r]
      BY <2>1, <2>3 DEF IInv, Replaced, Reason
    <3> QED BY <3>1
  <2> QED BY <2>2, <2>3
<1> QED BY <1>1, <1>2, <1>4, <1>5, <1>7 DEF IInv

LEMMA DeleteInv == ASSUME IInv, NEW b \in Backups, Purge(b) \/ Drop(b) PROVE IInv'
<1>1. UNCHANGED <<pc, args, run, row, database, rivals>> /\ table' \subseteq table /\ bucket' \subseteq bucket
  BY DEF Purge, Drop
<1>2. Types'
  BY <1>1 DEF IInv, Types, TypeOK, args, run
<1>3. RowFollows'
  BY <1>1 DEF IInv, RowFollows, run
<1> QED BY <1>1, <1>2, <1>3, ContentsKept DEF IInv, run

LEMMA CrashInv == ASSUME IInv, Crash PROVE IInv'
<1>1. Types'
  BY DEF Crash, IInv, Types, TypeOK, stores, args, run
<1>2. RowFollows'
  BY DEF Crash, IInv, RowFollows, run
<1>3. \A q \in Restores : pc'[q] = "apply" => pc[q] = "apply"
  BY DEF Crash
<1> QED BY <1>1, <1>2, <1>3, ContentsKept DEF Crash, IInv, run

LEMMA NextInv == IInv /\ [Next]_vars => IInv'
<1> SUFFICES ASSUME IInv, [Next]_vars PROVE IInv'
  OBVIOUS
<1>1. ASSUME NEW r \in Restores, StartRestore(r) \/ CreateRestore(r) PROVE IInv'
  BY <1>1, BeginInv
<1>2. ASSUME NEW r \in Restores, runRestore(r) PROVE IInv'
  BY <1>2, PrepareInv, ToolInv, ReplaceInv, SucceedInv DEF runRestore
<1>3. ASSUME NEW b \in Backups, Purge(b) \/ Drop(b) PROVE IInv'
  BY <1>3, DeleteInv
<1>4. CASE UNCHANGED vars
  <2>1. Types'
    BY <1>4 DEF vars, stores, args, run, IInv, Types, TypeOK
  <2>2. RowFollows'
    BY <1>4 DEF vars, run, IInv, RowFollows
  <2> QED BY <1>4, <2>1, <2>2, ContentsKept DEF vars, args, run, IInv
<1> QED BY <1>1, <1>2, <1>3, <1>4, CrashInv DEF Next

-----------------------------------------------------------------------------
\* IInv holds in every reachable state, whichever restores run beside each
\* other (StartRestore's goroutines), and whenever backups are deleted.
THEOREM Invariance == Spec => []IInv
BY InitInv, NextInv, PTL DEF Spec

\* The variables keep their types.
THEOREM TypeCorrect == Spec => []TypeOK
<1>1. IInv => TypeOK
  BY DEF IInv, Types
<1> QED BY <1>1, Invariance, PTL

\* When runRestore writes success every object of the dump is in place, unless
\* another restore's tool was at work on the target at the same time.
THEOREM SuccessIsWhole == Spec => RestoredWhole
<1>1. ASSUME IInv, [Next]_vars, NEW r \in Restores, row[r] # "success", row'[r] = "success", rivals'[r] = {},
             NEW o \in Objects
      PROVE  database'[target[r]][o] = backup[r]
  <2>1. Succeed(r)
    BY <1>1 DEF Next, vars, stores, args, run, bounds, IInv, Types, TypeOK, StartRestore, CreateRestore,
           runRestore, DownloadFails, Download, decompressData, executeRestore, ReplaceObject, ToolFails,
           Succeed, UpdateFails, Purge, Drop, Crash, failRestore, Conclude
  <2> QED BY <1>1, <2>1 DEF Succeed, args, run, IInv, Replaced
<1>2. IInv /\ [Next]_vars => [\A r \in Restores : row[r] # "success" /\ row'[r] = "success" /\ rivals'[r] = {} =>
                                 \A o \in Objects : database'[target[r]][o] = backup[r]]_vars
  BY <1>1
<1> QED BY <1>2, Invariance, PTL DEF Spec, RestoredWhole

\* A database that is a mixture has, in the table of restores, one to it that
\* failed or did not end, or two whose tools were at work at a time: restores
\* that succeed one after the other leave none.
THEOREM MixturesHaveReasons == Spec => []MixtureExplained
<1>1. IInv => MixtureExplained
  BY DEF IInv
<1> QED BY <1>1, Invariance, PTL
=============================================================================
