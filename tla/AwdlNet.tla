------------------------------- MODULE AwdlNet -------------------------------
(***************************************************************************)
(* A network of AWDL devices electing a common master.                     *)
(*                                                                         *)
(* The nodes of Owl run this code: each announces its election state in    *)
(* the action frames it sends, keeps what it heard from its neighbours in  *)
(* its peer table (peers.c), and once per clean interval drops the peers   *)
(* it has not heard for a while and elects its master again (core.c).      *)
(* The nodes of Foreign are other AWDL devices: all that this code sees of *)
(* them is that they announce themselves as a master, come and go, and     *)
(* raise their counter while they are there.                               *)
(*                                                                         *)
(* The radio loses frames: any set of nodes may hear an announcement, so   *)
(* that every topology and every loss is included.  Time is counted in     *)
(* clean intervals; age is the time since the last frame of a peer.        *)
(***************************************************************************)
EXTENDS Election

CONSTANTS
  Owl,          \* the nodes that run this code
  Foreign,      \* other AWDL devices
  Metric,       \* the metric each device announces
  MaxCounter,   \* bound: the counter of a foreign device stops here
  Timeout       \* peers.timeout, in clean intervals

Device == Owl \cup Foreign

ASSUME NetAssumption ==
  /\ Owl \subseteq Nat
  /\ Foreign \subseteq Nat \ Owl
  /\ Metric \in [ Device -> Nat ]
  /\ MaxCounter \in Nat
  /\ Timeout \in Nat

VARIABLES
  up,        \* the nodes whose daemon runs
  on,        \* the foreign devices that are there
  counter,   \* the counter of each foreign device
  election,  \* election[n]: the election state of node n
  peers      \* peers[n][p]: the entry of p in the peer table of n

vars == << up, on, counter, election, peers >>

(* APPLE_P2P_ELECTION_COUNTER_INIT.  Nothing in the code ever raises it.   *)
CounterInit == 0

Own(n) == ResetSelf(n, CounterInit, Metric[n])

(* An entry that is not in the table. *)
NoPeer(p) ==
  [ known |-> FALSE, is_valid |-> FALSE, age |-> 0,
    election |-> ResetSelf(p, CounterInit, 0) ]

EmptyTable == [ p \in Device |-> NoPeer(p) ]

(* What a frame of device a says. *)
Announcement(a) ==
  IF a \in Owl THEN election[a] ELSE ResetSelf(a, counter[a], Metric[a])

ElectionState ==
  [ self_addr : Device, master_addr : Device, sync_addr : Device,
    height : 0 .. MaxHeight, master_counter : 0 .. MaxCounter,
    master_metric : Nat ]

PeerEntry ==
  [ known : BOOLEAN, is_valid : BOOLEAN, age : 0 .. Timeout + 1,
    election : ElectionState ]

-----------------------------------------------------------------------------
Init ==
  /\ up = Owl
  /\ on = {}
  /\ counter = [ f \in Foreign |-> 0 ]
  /\ election = [ n \in Owl |-> Own(n) ]
  /\ peers = [ n \in Owl |-> EmptyTable ]

(* rx_action at one receiver: the entry of the sender is created or        *)
(* refreshed, the election TLV overwrites what was known, and a master     *)
(* indication frame (MIF) makes the peer valid for as long as it stays in  *)
(* the table.                                                              *)
Heard(entry, a, isMif) ==
  [ known    |-> TRUE,
    is_valid |-> entry.is_valid \/ isMif,
    age      |-> 0,
    election |-> Announcement(a) ]

(* Device a sends a MIF or a periodic synchronization frame (PSF), which   *)
(* the nodes in R receive.                                                 *)
Announce(a, isMif, R) ==
  /\ a \in up \cup on
  /\ R \subseteq up \ {a}
  /\ peers' = [ n \in Owl |->
                  IF n \in R
                    THEN [ peers[n] EXCEPT ![a] = Heard(@, a, isMif) ]
                    ELSE peers[n] ]
  /\ UNCHANGED << up, on, counter, election >>

(* apple_p2p_peers_remove: drop the peers not heard within the timeout.    *)
Removed(table) ==
  [ p \in Device |-> IF table[p].age > Timeout THEN NoPeer(p) ELSE table[p] ]

Candidates(n, table) ==
  { table[p].election : p \in
      { q \in Device : Eligible(n, table[q].is_valid, table[q].election) } }

(* Fault: the election comes before the removal. *)
CleanPeersAfterElection(n) ==
  /\ n \in up
  /\ peers' = [ peers EXCEPT ![n] = Removed(peers[n]) ]
  /\ \E s \in Outcomes(Own(n), Candidates(n, peers[n])) :
       election' = [ election EXCEPT ![n] = s ]
  /\ UNCHANGED << up, on, counter >>

(* The cleanup timer: drop old peers, then elect from those that are left. *)
CleanPeers(n) ==
  /\ n \in up
  /\ LET table == Removed(peers[n])
     IN  /\ peers' = [ peers EXCEPT ![n] = table ]
         /\ \E s \in Outcomes(Own(n), Candidates(n, table)) :
              election' = [ election EXCEPT ![n] = s ]
  /\ UNCHANGED << up, on, counter >>

(* The daemon stops: its tables are lost with it. *)
Crash(n) ==
  /\ n \in up
  /\ up' = up \ {n}
  /\ election' = [ election EXCEPT ![n] = Own(n) ]
  /\ peers' = [ peers EXCEPT ![n] = EmptyTable ]
  /\ UNCHANGED << on, counter >>

(* The daemon starts (again), with itself as master and no peers. *)
Restart(n) ==
  /\ n \in Owl \ up
  /\ up' = up \cup {n}
  /\ election' = [ election EXCEPT ![n] = Own(n) ]
  /\ peers' = [ peers EXCEPT ![n] = EmptyTable ]
  /\ UNCHANGED << on, counter >>

Arrive(f) ==
  /\ f \in Foreign \ on
  /\ on' = on \cup {f}
  /\ counter' = [ counter EXCEPT ![f] = 0 ]
  /\ UNCHANGED << up, election, peers >>

Depart(f) ==
  /\ f \in on
  /\ on' = on \ {f}
  /\ counter' = [ counter EXCEPT ![f] = 0 ]
  /\ UNCHANGED << up, election, peers >>

(* A foreign master has been master for another while. *)
RaiseCounter(f) ==
  /\ f \in on
  /\ counter[f] < MaxCounter
  /\ counter' = [ counter EXCEPT ![f] = @ + 1 ]
  /\ UNCHANGED << up, on, election, peers >>

(* One clean interval passes. *)
Tick ==
  /\ peers' = [ n \in Owl |-> [ p \in Device |->
                  IF peers[n][p].known /\ peers[n][p].age <= Timeout
                    THEN [ peers[n][p] EXCEPT !.age = @ + 1 ]
                    ELSE peers[n][p] ] ]
  /\ UNCHANGED << up, on, counter, election >>

Next ==
  \/ \E a \in Device, isMif \in BOOLEAN, R \in SUBSET Owl : Announce(a, isMif, R)
  \/ \E n \in Owl : CleanPeers(n) \/ Crash(n) \/ Restart(n)
  \/ \E f \in Foreign : Arrive(f) \/ Depart(f) \/ RaiseCounter(f)
  \/ Tick

Spec == Init /\ [][Next]_vars

-----------------------------------------------------------------------------
TypeOK ==
  /\ up \in SUBSET Owl
  /\ on \in SUBSET Foreign
  /\ counter \in [ Foreign -> 0 .. MaxCounter ]
  /\ election \in [ Owl -> ElectionState ]
  /\ peers \in [ Owl -> [ Device -> PeerEntry ] ]

(* Compares r's root with its owner a, a node of this network, as root.    *)
EqualRank(r, a) == CompareMaster(r, Own(a)) = 0

(* However often it is passed on, what is said about a master is true of   *)
(* it: its metric is its own, and a master that runs this code has the     *)
(* initial counter.                                                        *)
RankBelongsToMaster ==
  \A a \in Device, n \in Owl :
    LET OwnRank(r) == /\ r.master_metric = Metric[r.master_addr]
                      /\ r.master_addr \in Owl => r.master_counter = CounterInit
    IN  /\ OwnRank(election[n])
        /\ peers[n][a].known => OwnRank(peers[n][a].election)

(* A node never takes part in a sync tree whose root it is itself, however *)
(* stale the announcements are that come back to it: the check of          *)
(* election.c:68 sees only the direct parent, the ranks do the rest.       *)
NeverFollowsItself ==
  \A n \in Owl : election[n].height > 0 => election[n].master_addr # n

(* Among nodes of equal rank, as all nodes running this code are, trees    *)
(* have depth one and point to the higher address, so they cannot contain  *)
(* a cycle; a node that hears no root elects itself, and two nodes out of  *)
(* each other's range do not join through a third.                         *)
EqualRankIsOneHop ==
  \A n \in Owl :
    election[n].height > 0 /\ EqualRank(election[n], n) =>
      /\ election[n].height = 1
      /\ election[n].sync_addr = election[n].master_addr
      /\ election[n].sync_addr > n

(* The node a daemon synchronises to is a valid peer in its table at all   *)
(* times: no peer is dropped without a new election.                       *)
ParentIsValidPeer ==
  \A n \in Owl :
    election[n].sync_addr # n =>
      /\ peers[n][election[n].sync_addr].known
      /\ peers[n][election[n].sync_addr].is_valid

(* What the comment at election.c:69 promises of the check it stands at    *)
(* ("do not allow cycles in sync tree").                                   *)
NoSyncCycle ==
  ~ \E m, n \in Owl : /\ m # n
                      /\ election[m].sync_addr = n
                      /\ election[n].sync_addr = m
=============================================================================
