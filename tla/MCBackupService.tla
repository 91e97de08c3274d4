-------------------------- MODULE MCBackupService --------------------------
(* Small instances of BackupService for TLC. *)
EXTENDS BackupService, TLC

\* The CHECK constraint on backups.verify_status as db.go creates it, which
\* refuses what StartVerification writes, and one with the value the API
\* reference lists as well.  Under the second the verification code runs as
\* it was written to run; the shipped program has the first.
ShippedCheck == {"pending", "passed", "failed"}
DocumentedCheck == ShippedCheck \cup {"verifying"}

CallerSymmetry == Permutations(Callers)
=============================================================================
