------------------------- MODULE MCStorageProviders -------------------------
(* Small instances of StorageProviders for TLC. *)
EXTENDS StorageProviders, TLC

Symmetry == Permutations(Callers) \cup Permutations(Ids) \cup Permutations(Keys)
=============================================================================
