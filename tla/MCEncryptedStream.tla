------------------------- MODULE MCEncryptedStream -------------------------
(* Small instances of EncryptedStream for TLC. *)
EXTENDS EncryptedStream
=============================================================================
