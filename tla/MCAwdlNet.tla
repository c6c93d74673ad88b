------------------------------ MODULE MCAwdlNet ------------------------------
(* Nodes running this code, of equal rank, and devices of higher rank.       *)
EXTENDS AwdlNet

MCMetric == [ d \in Device |-> IF d \in Foreign THEN 2 ELSE 1 ]
=============================================================================
