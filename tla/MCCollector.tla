---------------------------- MODULE MCCollector ----------------------------
(* Small instances of Collector for TLC. *)
EXTENDS Collector

\* The databases of the servers make no difference to the collector.
NoDatabases == [s \in Servers |-> {}]

\* Of two servers that differ in nothing, either.
Homes == [c \in Existing |-> "x"]
=============================================================================
