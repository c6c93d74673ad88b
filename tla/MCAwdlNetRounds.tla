--------------------------- MODULE MCAwdlNetRounds ---------------------------
(* As in MCAwdlNet: a foreign device outranks the nodes by its metric.     *)
EXTENDS AwdlNetRounds

MCMetric == [ d \in Device |-> IF d \in Foreign THEN 2 ELSE 1 ]
=============================================================================
