-------------------------- MODULE PipelineContract --------------------------
(***************************************************************************)
(* What runBackup relies on when it runs a dump pipeline: the pipeline     *)
(* returns at most once, it may leave an object under the key whatever it  *)
(* returns, and it returns success only when that object is the whole      *)
(* dump.  BackupService's Upload and FailLate take these steps.            *)
(***************************************************************************)
VARIABLES object, result

Init == object = "none" /\ result = "pending"

Store ==
    /\ result = "pending" /\ object = "none"
    /\ object' \in {"truncated", "complete"}
    /\ UNCHANGED result

Succeed ==
    /\ result = "pending" /\ object = "complete"
    /\ result' = "success"
    /\ UNCHANGED object

Fail ==
    /\ result = "pending"
    /\ result' = "failed"
    /\ UNCHANGED object

Next == Store \/ Succeed \/ Fail

Spec == Init /\ [][Next]_<<object, result>>
=============================================================================
