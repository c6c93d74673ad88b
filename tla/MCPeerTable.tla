---------------------------- MODULE MCPeerTable ----------------------------
(* Two peers, half-second units, and signals below, within and above the   *)
(* grace of the RSSI filter.                                               *)
EXTENDS PeerTable, TLC

CONSTANTS a, b
Symmetry == Permutations(Peer)
MCRssi == {-71, -70, -65}
MCGrace == -5
MCThreshold == -65
=============================================================================
