----------------------------- MODULE MCHashMap -----------------------------
(* Four keys in chains of two places: 7, 7 and 24 share places when the    *)
(* table has 4 or 8, wrap around its end, and make it grow again while it  *)
(* is growing to 16.                                                       *)
EXTENDS HashMap

MCKey == {"a", "b", "c", "d"}
MCHash == [ a |-> 7, b |-> 7, c |-> 24, d |-> 0 ]
=============================================================================
