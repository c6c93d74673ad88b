---------------------------- MODULE MCElectionRun ----------------------------
(* Three peers around the node's own address, with every combination of    *)
(* rank, height and parent that the loop tells apart.                      *)
EXTENDS ElectionRun

(* Heights below, at and above the limit, and the one that wraps to 0;     *)
(* parents that are and are not this node; ranks below, at and above this  *)
(* node's, by counter and by metric.                                       *)
MCPeerInfo ==
  [ master_addr : {9}, sync_addr : {Self, 9},
    height : {0, 1, MaxHeight, MaxUint32},
    master_counter : {0, 1}, master_metric : {1, 2}, is_valid : {TRUE} ]
  \cup
  [ master_addr : {9}, sync_addr : {9}, height : {0},
    master_counter : {1}, master_metric : {2}, is_valid : {FALSE} ]
=============================================================================
