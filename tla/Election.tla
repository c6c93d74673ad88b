------------------------------ MODULE Election ------------------------------
(***************************************************************************)
(* The decision rules of the AWDL master election (election.c), as pure    *)
(* operators on election states.                                           *)
(*                                                                         *)
(* An election state is what a node announces about itself in its election *)
(* TLV and what its neighbours keep about it:                              *)
(*   self_addr       the node                                              *)
(*   master_addr     the root of the sync tree it is in                    *)
(*   sync_addr       its parent in that tree (itself at the root)          *)
(*   height          its distance from the root                            *)
(*   master_counter, master_metric   the rank of the root                  *)
(* A peer's own metric and counter are stored too by the code but never    *)
(* read, so they are left out.  Ethernet addresses are natural numbers:    *)
(* the code compares them with memcmp, which is a total order.             *)
(***************************************************************************)
EXTENDS Integers

CONSTANTS
  MaxHeight,   \* APPLE_P2P_ELECTION_TREE_MAX_HEIGHT (10 in the code)
  MaxUint32    \* the largest value of the uint32_t a height is kept in

ASSUME HeightAssumption ==
  /\ MaxHeight \in Nat
  /\ MaxUint32 \in Nat
  /\ MaxHeight < MaxUint32

(* Fault: a sum that is wider than the field it is stored in. *)
NextHeightWide(h) == h + 1

(* height + 1 in a uint32_t. *)
NextHeight(h) == IF h = MaxUint32 THEN 0 ELSE h + 1

Compare(a, b) == IF a < b THEN -1 ELSE IF a > b THEN 1 ELSE 0

(* The root with the higher counter wins, then the one with the higher     *)
(* metric.                                                                 *)
CompareMaster(a, b) ==
  IF a.master_counter # b.master_counter
    THEN Compare(a.master_counter, b.master_counter)
    ELSE Compare(a.master_metric, b.master_metric)

IsSyncMaster(s, addr) == s.sync_addr = addr

(* A node that is its own root, with its own counter and metric as rank.   *)
ResetSelf(self, counter, metric) ==
  [ self_addr      |-> self,
    master_addr    |-> self,
    sync_addr      |-> self,
    height         |-> 0,
    master_counter |-> counter,
    master_metric  |-> metric ]

(* Fault: the limit on the height is forgotten. *)
EligibleAtAnyHeight(self, is_valid, peer) ==
  is_valid /\ ~IsSyncMaster(peer, self)

(* The first three rejections of the election loop, which do not depend on *)
(* the best candidate seen so far.                                         *)
Eligible(self, is_valid, peer) ==
  /\ is_valid
  /\ NextHeight(peer.height) <= MaxHeight
  /\ ~IsSyncMaster(peer, self)

(* Fault: among masters of one rank the height is not looked at. *)
PreferredByAddress(peer, m) ==
  \/ CompareMaster(peer, m) > 0
  \/ CompareMaster(peer, m) = 0 /\ peer.self_addr > m.self_addr

(* Fault: the comparison of the heights is the wrong way round. *)
PreferredDeeper(peer, m) ==
  \/ CompareMaster(peer, m) > 0
  \/ /\ CompareMaster(peer, m) = 0
     /\ \/ peer.height > m.height
        \/ /\ peer.height = m.height
           /\ peer.self_addr > m.self_addr

(* The remaining rejections, negated: peer takes the place of m.           *)
Preferred(peer, m) ==
  \/ CompareMaster(peer, m) > 0
  \/ /\ CompareMaster(peer, m) = 0
     /\ \/ peer.height < m.height
        \/ /\ peer.height = m.height
           /\ peer.self_addr > m.self_addr

(* Fault: the rank of the new master is not taken over. *)
FollowKeepingMetric(own, m) ==
  IF m.self_addr = own.self_addr
    THEN own
    ELSE [ own EXCEPT !.master_addr    = m.master_addr,
                      !.sync_addr      = m.self_addr,
                      !.master_counter = m.master_counter,
                      !.height         = NextHeight(m.height) ]

(* Fault: the counter of the master is raised by whoever follows it. *)
FollowRaisingCounter(own, m) ==
  IF m.self_addr = own.self_addr
    THEN own
    ELSE [ own EXCEPT !.master_addr    = m.master_addr,
                      !.sync_addr      = m.self_addr,
                      !.master_metric  = m.master_metric,
                      !.master_counter = m.master_counter + 1,
                      !.height         = NextHeight(m.height) ]

(* What the node own becomes when m is the winner of its election.         *)
Follow(own, m) ==
  IF m.self_addr = own.self_addr
    THEN own
    ELSE [ own EXCEPT !.master_addr    = m.master_addr,
                      !.sync_addr      = m.self_addr,
                      !.master_metric  = m.master_metric,
                      !.master_counter = m.master_counter,
                      !.height         = NextHeight(m.height) ]

-----------------------------------------------------------------------------
(* What the election loop as a whole computes, free of the order in which  *)
(* the hash table yields the peers: the node follows a candidate that no   *)
(* candidate is preferred to.  ElectionProofs shows that there is exactly  *)
(* one outcome and that the loop ends in it.                               *)
IsBest(m, candidates) ==
  /\ m \in candidates
  /\ \A c \in candidates : ~Preferred(c, m)

(* own is the node after its reset, eligible the peers that passed the     *)
(* checks.                                                                 *)
Outcomes(own, eligible) ==
  { Follow(own, m) : m \in { c \in eligible \cup {own} :
                               IsBest(c, eligible \cup {own}) } }
=============================================================================
