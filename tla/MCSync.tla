------------------------------- MODULE MCSync -------------------------------
(* Two nodes, TUs of 2 us and four windows of one TU in an extended one.   *)
(* The window counter wraps after 2 extended windows of 8 us, an unsigned  *)
(* long with it and the clock after 4.  One node has its clock wrap while  *)
(* its daemon runs, and starts 3 us after the other.  The sequence is the  *)
(* static one of the daemon (state.c:41).                                  *)
EXTENDS Sync

CONSTANTS a, b
MCSequence == [ i \in 0 .. Slots - 1 |-> 6 ]
MCBooted == [ n \in Node |-> IF n = a THEN 0 ELSE 20 ]
MCStartTimes == [ n \in Node |-> IF n = a THEN {0} ELSE {3} ]
=============================================================================
