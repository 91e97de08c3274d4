--------------------------- MODULE MCConnections ---------------------------
(* Small instances of Connections for TLC. *)
EXTENDS Connections, TLC

\* Two databases, one of which is on both servers.
Overlapping == [s \in Servers |-> IF s = "x" THEN {"d"} ELSE {"d", "e"}]

\* Every connection is created by a request.
NoHomes == [c \in Existing |-> "x"]

Symmetry == Permutations(Callers) \cup Permutations(Conns)
=============================================================================
