------------------------------ MODULE MCTxPath ------------------------------
(* Three slots of which the first is for multicast, and a peer that shares *)
(* none of them or two neighbouring ones.                                  *)
EXTENDS TxPath

CONSTANTS p
MCMeetings == { {}, {1, 2} }
=============================================================================
