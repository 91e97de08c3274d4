--------------------------- MODULE MCDumpPipeline ---------------------------
(* Small instances of DumpPipeline for TLC. *)
EXTENDS DumpPipeline
=============================================================================
