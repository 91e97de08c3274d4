-------------------------- MODULE BackupLifecycle --------------------------
(***************************************************************************)
(* What the API promises of one backup, with everything behind it hidden:  *)
(* the status a client reads in GET /api/backups/{id} (src/internal/backup *)
(* /model.go, field Status) and how it may change.  A backup is reported   *)
(* "running", settles once, may be verified when the schema admits that    *)
(* status, and may disappear at any time, for good.                        *)
(***************************************************************************)
EXTENDS Naturals

CONSTANTS Ids,         \* the backups
          Verifiable   \* whether a backup can ever be "verifying"

VARIABLE phase         \* "none", a status, or "gone"

Reported == {"running", "success", "failed", "verifying"}

Init == phase = [b \in Ids |-> "none"]

Start(b) ==
    /\ phase[b] = "none"
    /\ phase' = [phase EXCEPT ![b] = "running"]

Settle(b) ==
    /\ phase[b] = "running"
    /\ \E s \in {"success", "failed"} : phase' = [phase EXCEPT ![b] = s]

\* Verifications of one backup may overlap, so each may find the status as
\* another one has left it.
Verify(b) ==
    /\ Verifiable /\ phase[b] \in {"success", "failed", "verifying"}
    /\ \E s \in {"success", "failed", "verifying"} : phase' = [phase EXCEPT ![b] = s]

Remove(b) ==
    /\ phase[b] \in Reported
    /\ phase' = [phase EXCEPT ![b] = "gone"]

Next == \E b \in Ids : Start(b) \/ Settle(b) \/ Verify(b) \/ Remove(b)

Spec == Init /\ [][Next]_phase
=============================================================================
