---------------------------- MODULE MCReception ----------------------------
(* The two frames of this implementation, and frames of two other makers,  *)
(* one with a name that is too long; data frames of known and unknown      *)
(* devices, with an LLC header of another protocol, and A-MSDUs with and   *)
(* without padding; frames cut before, in and behind TLVs and subframes.   *)
EXTENDS Reception
MCActions ==
  { << "own", Psf, 0 >>, << "own", Mif, 2 >>, << "v1", Mif, 3 >>, << "steps", Mif, 1 >> }
m1 == [ id |-> 1, src |-> Peer, dst |-> Self, length |-> 3, llc |-> TRUE ]
m2 == [ id |-> 2, src |-> Stranger, dst |-> Self, length |-> 1, llc |-> TRUE ]
m3 == [ id |-> 3, src |-> Peer, dst |-> Self, length |-> 0, llc |-> TRUE ]
m4 == [ id |-> 4, src |-> Peer, dst |-> Self, length |-> 2, llc |-> FALSE ]
MCPayloads ==
  { << m1 >>, << m2 >>, << m2, m1, m3 >>, << m1, m4 >>, << m3, m1 >> }
(* The ends of the TLVs of a whole announcement.                           *)
Ends ==
  { Len(Header(ActionFrame, 1, 0)) + Len(ActionHeader(1, Mif)) + n : n \in
      { Len(SyncParamsTlv(1)),
        Len(SyncParamsTlv(1)) + Len(ElectionParamsTlv(1)),
        Len(SyncParamsTlv(1)) + Len(ElectionParamsTlv(1)) + Len(ChanSeqTlv(1)),
        Len(ElectionParamsTlv(1)),
        Len(SyncParamsTlv(1)) + Len(ElectionParamsTlv(1)) + Len(ChanSeqTlv(1))
          + Len(ElectionParamsV2Tlv(1)) } }
(* Headers of a signal at the threshold and just below it, at that for     *)
(* known peers and just below it, and far from both; with a checksum, a    *)
(* bad one or none.                                                        *)
MCHeaders ==
  { << "sent", 0, -30 >>, << "plain", 80, -60 >>, << "plain", 16, -70 >>,
    << "antennas", 16, -65 >>, << "antennas", 0, -71 >>, << "vendor", 16, -66 >>,
    << "within", 0, -65 >>, << "behind", 16, -71 >>, << "bare", 0, -60 >>, << "bare", 16, -60 >> }
MCHeld ==
  { [ flags |-> 0, rssi |-> -60, next_ns_data |-> 0 ],
    [ flags |-> 16, rssi |-> -75, next_ns_data |-> 0 ],
    [ flags |-> 64, rssi |-> -60, next_ns_data |-> 0 ] }
MCRssiThreshold == -65
MCRssiGrace == -5
MCHeaderCuts == { 3, 13 }
MCCuts == { 3, 26, 41, 47, 62 } \cup Ends
=============================================================================
