--------------------------- MODULE MCStatsMessage --------------------------
(* Instances of StatsMessage for TLC. *)
EXTENDS StatsMessage

CONSTANTS k1, k2, small

Sizes == [v \in Values |-> 1]
=============================================================================
