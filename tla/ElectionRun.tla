----------------------------- MODULE ElectionRun -----------------------------
(***************************************************************************)
(* apple_p2p_election_run, one peer at a time.                             *)
(*                                                                         *)
(* The loop walks the peer table through the hash table's iterator, whose  *)
(* order is an accident of hashing: any order is possible here.  The loop  *)
(* keeps only one candidate, master_state, and compares every peer with    *)
(* it, so that its result depends on that order unless "preferred to" is a *)
(* strict total order on the candidates.                                   *)
(*                                                                         *)
(* A peer that is absent from the table is one that is not valid.          *)
(***************************************************************************)
EXTENDS Election

CONSTANTS
  Self,          \* the address of this node
  Peer,          \* the addresses of its possible peers
  SelfCounter,   \* self_counter and self_metric of this node
  SelfMetric,
  PeerInfo       \* the election states a peer may have announced

ASSUME NodeAssumption ==
  /\ Self \in Nat
  /\ Peer \subseteq Nat \ {Self}
  /\ SelfCounter \in Nat
  /\ SelfMetric \in Nat
  /\ PeerInfo \subseteq
       [ master_addr : Nat, sync_addr : Nat, height : 0 .. MaxUint32,
         master_counter : Nat, master_metric : Nat, is_valid : BOOLEAN ]

VARIABLES
  heard,         \* the peer table: what each peer announced, fixed during a run
  state,         \* the node's own election state
  master_state,  \* the best candidate so far: Self, or the address of a peer
  todo,          \* the peers the iterator has not yielded yet
  pc

runVars == << heard, state, master_state, todo, pc >>

(* The election state that the table entry of p holds. *)
Info(p) ==
  [ self_addr      |-> p,
    master_addr    |-> heard[p].master_addr,
    sync_addr      |-> heard[p].sync_addr,
    height         |-> heard[p].height,
    master_counter |-> heard[p].master_counter,
    master_metric  |-> heard[p].master_metric ]

OwnRoot == ResetSelf(Self, SelfCounter, SelfMetric)

(* The election state master_state points to. *)
Candidate == IF master_state = Self THEN state ELSE Info(master_state)

IsEligible(p) == Eligible(Self, heard[p].is_valid, Info(p))

RunState ==
  [ self_addr : Nat, master_addr : Nat, sync_addr : Nat,
    height : 0 .. MaxUint32, master_counter : Nat, master_metric : Nat ]

-----------------------------------------------------------------------------
(* The node comes to a run as itself or as a follower of some peer: what   *)
(* an earlier run left behind.                                             *)
RunInit ==
  /\ heard \in [ Peer -> PeerInfo ]
  /\ state \in { OwnRoot } \cup { Follow(OwnRoot, Info(p)) : p \in Peer }
  /\ master_state = Self
  /\ todo = Peer
  /\ pc = "start"

(* Fault: the run starts from what the last one left. *)
StartWithoutReset ==
  /\ pc = "start"
  /\ master_state' = Self
  /\ todo' = Peer
  /\ pc' = "loop"
  /\ UNCHANGED << heard, state >>

(* election_reset_self, and an iterator over the whole table. *)
Start ==
  /\ pc = "start"
  /\ state' = OwnRoot
  /\ master_state' = Self
  /\ todo' = Peer
  /\ pc' = "loop"
  /\ UNCHANGED heard

(* Fault: every peer is compared with the node itself. *)
VisitComparingOwn(p) ==
  /\ pc = "loop"
  /\ p \in todo
  /\ todo' = todo \ {p}
  /\ master_state' = IF IsEligible(p) /\ Preferred(Info(p), OwnRoot)
                       THEN p ELSE master_state
  /\ UNCHANGED << heard, state, pc >>

(* One turn of the loop: p is rejected or becomes the candidate. *)
Visit(p) ==
  /\ pc = "loop"
  /\ p \in todo
  /\ todo' = todo \ {p}
  /\ master_state' = IF IsEligible(p) /\ Preferred(Info(p), Candidate)
                       THEN p ELSE master_state
  /\ UNCHANGED << heard, state, pc >>

(* The iterator is exhausted: adopt the candidate, if it is a peer. *)
Adopt ==
  /\ pc = "loop"
  /\ todo = {}
  /\ state' = Follow(state, Candidate)
  /\ pc' = "done"
  /\ UNCHANGED << heard, master_state, todo >>

(* The cleanup timer runs the election again. *)
Again ==
  /\ pc = "done"
  /\ pc' = "start"
  /\ UNCHANGED << heard, state, master_state, todo >>

RunNext == Start \/ (\E p \in Peer : Visit(p)) \/ Adopt \/ Again

RunSpec == RunInit /\ [][RunNext]_runVars

-----------------------------------------------------------------------------
Eligibles == { Info(p) : p \in { q \in Peer : IsEligible(q) } }

RunTypeOK ==
  /\ heard \in [ Peer -> PeerInfo ]
  /\ state \in RunState
  /\ master_state \in Peer \cup {Self}
  /\ todo \in SUBSET Peer
  /\ pc \in { "start", "loop", "done" }

(* Whatever order the hash table yields the peers in, the run ends in the  *)
(* only state that following the best of the eligible peers and the node   *)
(* itself gives: the order decides nothing, and no peer that passed the    *)
(* checks is lost to an earlier candidate (election.c:58-93).              *)
ResultIsTheOutcome == pc = "done" => Outcomes(OwnRoot, Eligibles) = { state }

(* The same, as the loop establishes it: among the peers seen so far and   *)
(* the node itself, none is preferred to the candidate, and the candidate  *)
(* passed the checks itself.                                               *)
CandidateIsBest ==
  pc = "loop" =>
    /\ state = OwnRoot
    /\ master_state # Self => master_state \notin todo /\ IsEligible(master_state)
    /\ ~Preferred(OwnRoot, Candidate)
    /\ \A p \in Peer \ todo : IsEligible(p) => ~Preferred(Info(p), Candidate)
=============================================================================
