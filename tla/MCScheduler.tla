----------------------------- MODULE MCScheduler -----------------------------
(* Small instances of Scheduler for TLC. *)
EXTENDS Scheduler, TLC

Symmetry == Permutations(Schedules) \cup Permutations(Callers)
=============================================================================
