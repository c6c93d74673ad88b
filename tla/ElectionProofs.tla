--------------------------- MODULE ElectionProofs ---------------------------
(***************************************************************************)
(* The election: what the nodes of a network believe about each other's    *)
(* masters, for any number of nodes and foreign devices, any metrics and   *)
(* any losses (AwdlNet); and that a run of the election computes the best  *)
(* of the eligible peers and the node itself, whatever the table holds and *)
(* in whatever order it is walked (ElectionRun).                           *)
(***************************************************************************)
EXTENDS AwdlNet, ElectionRun, TLAPS

(* The part of an election state that Preferred reads. *)
Ranked ==
  [ self_addr : Nat, master_addr : Nat, sync_addr : Nat,
    height : Nat, master_counter : Nat, master_metric : Nat ]

(* Two candidates neither of which is preferred have one address.          *)
LEMMA PreferredTotal ==
  ASSUME NEW a \in Ranked, NEW b \in Ranked,
         ~Preferred(a, b), ~Preferred(b, a)
  PROVE  a.self_addr = b.self_addr
BY DEF Ranked, Preferred, CompareMaster, Compare

(* What is true of every election state r that device a announces, and so  *)
(* of every copy of it in a peer table, however old.  The last conjunct is *)
(* the heart: a node follows another root only if that outranks it, or has *)
(* its rank, is heard directly and has a higher address.                   *)
InfoOK(r, a) ==
  /\ r \in ElectionState
  /\ r.self_addr = a
  /\ r.height = 0 => r.master_addr = a /\ r.sync_addr = a
  /\ r.height = 1 => r.sync_addr = r.master_addr
  /\ r.master_metric = Metric[r.master_addr]
  /\ r.master_addr \in Owl => r.master_counter = CounterInit
  /\ a \in Owl /\ r.height > 0 =>
       \/ CompareMaster(r, Own(a)) > 0
       \/ /\ CompareMaster(r, Own(a)) = 0
          /\ r.height = 1
          /\ r.sync_addr = r.master_addr
          /\ r.sync_addr > a

TableOK(n) ==
  \A a \in Device :
    /\ peers[n][a].is_valid => peers[n][a].known
    /\ peers[n][a].known => InfoOK(peers[n][a].election, a)

NetInv ==
  /\ TypeOK
  /\ \A n \in Owl : InfoOK(election[n], n) /\ TableOK(n)
  /\ ParentIsValidPeer

-----------------------------------------------------------------------------
LEMMA DeviceType ==
  /\ Device \subseteq Nat
  /\ \A d \in Device : Metric[d] \in Nat
BY NetAssumption DEF Device

LEMMA StateIsRanked ==
  ASSUME NEW r \in ElectionState
  PROVE  r \in Ranked
<1>1. 0 .. MaxHeight \subseteq Nat /\ 0 .. MaxCounter \subseteq Nat
  BY NetAssumption, HeightAssumption
<1>2. Device \subseteq Nat
  BY DeviceType
<1>3. QED
  BY <1>1, <1>2 DEF ElectionState, Ranked

(* A node that is its own root.                                            *)
LEMMA OwnOK ==
  ASSUME NEW n \in Owl
  PROVE  Own(n) \in ElectionState /\ InfoOK(Own(n), n)
BY DeviceType, NetAssumption, HeightAssumption
   DEF Own, ResetSelf, ElectionState, InfoOK, CounterInit, Device

(* A foreign device announces itself as root.                              *)
LEMMA ForeignOK ==
  ASSUME TypeOK, NEW f \in Foreign
  PROVE  InfoOK(ResetSelf(f, counter[f], Metric[f]), f)
BY DeviceType, NetAssumption, HeightAssumption
   DEF ResetSelf, ElectionState, InfoOK, Device, TypeOK

LEMMA NoPeerType ==
  ASSUME NEW p \in Device
  PROVE  NoPeer(p) \in PeerEntry /\ ~NoPeer(p).known /\ ~NoPeer(p).is_valid
BY NetAssumption, HeightAssumption
   DEF NoPeer, PeerEntry, ElectionState, ResetSelf, CounterInit

(* The step that passes information on: whatever a node adopts in an       *)
(* election from a well-informed table is again true, and its new parent   *)
(* is a valid peer of that table.                                          *)
LEMMA ElectionKeepsInfo ==
  ASSUME NEW n \in Owl,
         NEW table \in [ Device -> PeerEntry ],
         \A a \in Device : /\ table[a].is_valid => table[a].known
                           /\ table[a].known => InfoOK(table[a].election, a),
         NEW s \in Outcomes(Own(n), Candidates(n, table))
  PROVE  /\ InfoOK(s, n)
         /\ s.sync_addr # n => table[s.sync_addr].known /\ table[s.sync_addr].is_valid
<1> DEFINE C == Candidates(n, table) \cup {Own(n)}
<1>1. PICK m \in C : IsBest(m, C) /\ s = Follow(Own(n), m)
  BY DEF Outcomes
<1>2. /\ Own(n).self_addr = n /\ Own(n).sync_addr = n /\ Own(n).height = 0
      /\ Own(n).master_addr = n
      /\ Own(n).master_counter = CounterInit /\ Own(n).master_metric = Metric[n]
  BY DEF Own, ResetSelf
<1>3. n \in Nat /\ n \in Device
  BY NetAssumption DEF Device
<1>4. CASE m.self_addr = n
  <2>1. s = Own(n)
    BY <1>1, <1>2, <1>4 DEF Follow
  <2>2. QED
    BY <2>1, <1>2, OwnOK
<1>5. CASE m.self_addr # n
  <2>1. m \in Candidates(n, table)
    BY <1>1, <1>2, <1>5
  <2>2. PICK q \in Device : /\ m = table[q].election
                            /\ Eligible(n, table[q].is_valid, m)
    BY <2>1 DEF Candidates
  <2>3. table[q].is_valid /\ table[q].known /\ InfoOK(m, q)
    BY <2>2 DEF Eligible
  <2>4. m \in ElectionState /\ m.self_addr = q /\ q # n
    BY <2>3, <1>5 DEF InfoOK
  <2>5. Preferred(m, Own(n))
    <3>1. ~Preferred(Own(n), m)
      BY <1>1 DEF IsBest
    <3>2. m \in Ranked /\ Own(n) \in Ranked
      BY <2>4, OwnOK, StateIsRanked
    <3>3. QED
      BY <3>1, <3>2, <1>2, <1>5, PreferredTotal
  <2>6. /\ s.self_addr = n
        /\ s.master_addr = m.master_addr
        /\ s.sync_addr = q
        /\ s.height = NextHeight(m.height)
        /\ s.master_counter = m.master_counter
        /\ s.master_metric = m.master_metric
    BY <1>1, <1>2, <1>5, <2>4 DEF Follow, Own, ResetSelf
  <2>7. /\ m.height \in Nat /\ s.height = m.height + 1 /\ s.height \in 1 .. MaxHeight
    <3>1. m.height \in 0 .. MaxHeight
      BY <2>4 DEF ElectionState
    <3>2. NextHeight(m.height) = m.height + 1
      BY <3>1, HeightAssumption DEF NextHeight
    <3>3. NextHeight(m.height) <= MaxHeight
      BY <2>2 DEF Eligible
    <3>4. QED
      BY <3>1, <3>2, <3>3, <2>6, HeightAssumption
  <2>8. s \in ElectionState
    <3>1. s = [ self_addr |-> n, master_addr |-> m.master_addr, sync_addr |-> q,
                height |-> NextHeight(m.height),
                master_counter |-> m.master_counter,
                master_metric |-> m.master_metric ]
      BY <1>1, <1>2, <1>5, <2>4 DEF Follow, Own, ResetSelf
    <3>2. NextHeight(m.height) \in 0 .. MaxHeight
      BY <2>6, <2>7
    <3>3. QED
      BY <3>1, <3>2, <2>4, <1>3 DEF ElectionState
  <2>9. s.height = 1 => s.sync_addr = s.master_addr
    BY <2>3, <2>6, <2>7 DEF InfoOK
  <2>10. /\ s.master_metric = Metric[s.master_addr]
         /\ s.master_addr \in Owl => s.master_counter = CounterInit
    BY <2>3, <2>6 DEF InfoOK
  <2>11. CompareMaster(s, Own(n)) = CompareMaster(m, Own(n))
    BY <2>6 DEF CompareMaster
  <2>12. \/ CompareMaster(m, Own(n)) > 0
         \/ CompareMaster(m, Own(n)) = 0 /\ m.height = 0 /\ q > n
    BY <2>4, <2>5, <2>7, <1>2 DEF Preferred
  <2>13. \/ CompareMaster(s, Own(n)) > 0
         \/ /\ CompareMaster(s, Own(n)) = 0
            /\ s.height = 1
            /\ s.sync_addr = s.master_addr
            /\ s.sync_addr > n
    BY <2>6, <2>7, <2>9, <2>11, <2>12
  <2>14. InfoOK(s, n)
    BY <2>6, <2>7, <2>8, <2>9, <2>10, <2>13 DEF InfoOK
  <2>15. QED
    BY <2>3, <2>6, <2>14
<1>6. QED
  BY <1>4, <1>5

(* Every announcement in the network is true.                              *)
LEMMA AnnouncementOK ==
  ASSUME NetInv, NEW a \in Device
  PROVE  InfoOK(Announcement(a), a)
BY ForeignOK DEF Announcement, NetInv, Device
-----------------------------------------------------------------------------
LEMMA InitNetInv == Init => NetInv
<1> SUFFICES ASSUME Init PROVE NetInv
  OBVIOUS
<1>1. election \in [ Owl -> ElectionState ]
  BY OwnOK DEF Init
<1>2. EmptyTable \in [ Device -> PeerEntry ]
  BY NoPeerType DEF EmptyTable
<1>3. TypeOK
  BY <1>1, <1>2, NetAssumption DEF Init, TypeOK
<1>4. \A n \in Owl : InfoOK(election[n], n) /\ TableOK(n)
  BY OwnOK, NoPeerType DEF Init, EmptyTable, TableOK
<1>5. ParentIsValidPeer
  BY DEF Init, ParentIsValidPeer, Own, ResetSelf
<1>6. QED
  BY <1>3, <1>4, <1>5 DEF NetInv

(* A frame is heard: entries are replaced by true announcements, and a     *)
(* valid peer stays valid.                                                 *)
LEMMA AnnounceKeepsInv ==
  ASSUME NetInv, NEW a \in Device, NEW isMif \in BOOLEAN, NEW R \in SUBSET Owl,
         Announce(a, isMif, R)
  PROVE  NetInv'
<1>1. /\ TypeOK
      /\ \A n \in Owl : InfoOK(election[n], n) /\ TableOK(n)
      /\ ParentIsValidPeer
  BY DEF NetInv
<1>2. /\ up' = up /\ on' = on /\ counter' = counter /\ election' = election
      /\ \A r, d : InfoOK(r, d)' = InfoOK(r, d)
  BY DEF Announce, InfoOK
<1>3. InfoOK(Announcement(a), a)
  BY AnnouncementOK
<1>4. \A n \in Owl : Heard(peers[n][a], a, isMif) \in PeerEntry
  BY <1>1, <1>3, NetAssumption DEF Heard, PeerEntry, InfoOK, TypeOK
<1>5. \A n \in Owl, d \in Device :
        peers'[n][d] = IF n \in R /\ d = a THEN Heard(peers[n][a], a, isMif)
                                          ELSE peers[n][d]
  BY <1>1 DEF Announce, TypeOK
<1>6. peers' \in [ Owl -> [ Device -> PeerEntry ] ]
  BY <1>1, <1>4 DEF Announce, TypeOK
<1>7. TypeOK'
  BY <1>1, <1>2, <1>6 DEF TypeOK
<1>8. \A n \in Owl : InfoOK(election[n], n)'
  BY <1>1, <1>2
<1>9. ASSUME NEW n \in Owl, NEW d \in Device
      PROVE  /\ peers'[n][d].is_valid => peers'[n][d].known
             /\ peers'[n][d].known => InfoOK(peers'[n][d].election, d)
             /\ peers[n][d].is_valid /\ peers[n][d].known =>
                  peers'[n][d].is_valid /\ peers'[n][d].known
  <2>1. /\ peers[n][d].is_valid => peers[n][d].known
        /\ peers[n][d].known => InfoOK(peers[n][d].election, d)
    BY <1>1 DEF TableOK
  <2>2. CASE n \in R /\ d = a
    <3>1. peers'[n][d] = Heard(peers[n][d], a, isMif)
      BY <1>5, <2>2
    <3>2. /\ peers'[n][d].known
          /\ peers'[n][d].is_valid = (peers[n][d].is_valid \/ isMif)
          /\ peers'[n][d].election = Announcement(a)
      BY <3>1 DEF Heard
    <3>3. InfoOK(peers'[n][d].election, d)
      BY <3>2, <2>2, <1>3
    <3>4. QED
      BY <3>2, <3>3
  <2>3. CASE ~(n \in R /\ d = a)
    BY <2>1, <2>3, <1>5
  <2>4. QED
    BY <2>2, <2>3
<1>10. \A n \in Owl : TableOK(n)'
  BY <1>2, <1>9 DEF TableOK
<1>11. ParentIsValidPeer'
  <2> SUFFICES ASSUME NEW n \in Owl, election[n].sync_addr # n
               PROVE  /\ peers'[n][election[n].sync_addr].known
                      /\ peers'[n][election[n].sync_addr].is_valid
    BY <1>2 DEF ParentIsValidPeer
  <2>1. election[n].sync_addr \in Device
    BY <1>1 DEF TypeOK, ElectionState
  <2>2. QED
    BY <1>1, <1>9, <2>1 DEF ParentIsValidPeer
<1>12. QED
  BY <1>7, <1>8, <1>10, <1>11 DEF NetInv

(* The cleanup: entries vanish or stay, and the election follows.          *)
LEMMA CleanPeersKeepsInv ==
  ASSUME NetInv, NEW n \in Owl, CleanPeers(n)
  PROVE  NetInv'
<1> DEFINE table == Removed(peers[n])
<1>1. /\ TypeOK
      /\ \A k \in Owl : InfoOK(election[k], k) /\ TableOK(k)
      /\ ParentIsValidPeer
  BY DEF NetInv
<1>2. table \in [ Device -> PeerEntry ]
  BY <1>1, NoPeerType DEF Removed, TypeOK
<1>3. \A a \in Device : /\ table[a].is_valid => table[a].known
                        /\ table[a].known => InfoOK(table[a].election, a)
  BY <1>1, NoPeerType DEF Removed, TableOK
<1>4. PICK s \in Outcomes(Own(n), Candidates(n, table)) :
        election' = [ election EXCEPT ![n] = s ]
  BY DEF CleanPeers
<1>5. /\ up' = up /\ on' = on /\ counter' = counter
      /\ peers' = [ peers EXCEPT ![n] = table ]
      /\ \A r, d : InfoOK(r, d)' = InfoOK(r, d)
  BY DEF CleanPeers, InfoOK
<1> HIDE DEF table
<1>6. /\ InfoOK(s, n)
      /\ s.sync_addr # n => table[s.sync_addr].known /\ table[s.sync_addr].is_valid
  BY <1>2, <1>3, <1>4, ElectionKeepsInfo
<1>7. TypeOK'
  BY <1>1, <1>2, <1>4, <1>5, <1>6 DEF TypeOK, InfoOK
<1>8. \A k \in Owl : InfoOK(election[k], k)'
  BY <1>1, <1>4, <1>5, <1>6 DEF TypeOK
<1>9. ASSUME NEW k \in Owl PROVE TableOK(k)'
  <2>1. CASE k = n
    <3>1. peers'[k] = table
      BY <1>1, <1>5, <2>1 DEF TypeOK
    <3>2. \A a \in Device :
            /\ peers'[k][a].is_valid => peers'[k][a].known
            /\ peers'[k][a].known => InfoOK(peers'[k][a].election, a)
      BY <1>3, <3>1
    <3>3. QED
      BY <1>5, <3>2 DEF TableOK
  <2>2. CASE k # n
    <3>1. peers'[k] = peers[k]
      BY <1>1, <1>5, <2>2 DEF TypeOK
    <3>2. QED
      BY <1>1, <1>5, <3>1 DEF TableOK
  <2>3. QED
    BY <2>1, <2>2
<1>10. ParentIsValidPeer'
  BY <1>1, <1>4, <1>5, <1>6 DEF ParentIsValidPeer, TypeOK
<1>11. QED
  BY <1>7, <1>8, <1>9, <1>10 DEF NetInv

(* A daemon that stops or starts is its own root with an empty table.      *)
LEMMA ResetKeepsInv ==
  ASSUME NetInv, NEW n \in Owl, Crash(n) \/ Restart(n)
  PROVE  NetInv'
<1>1. /\ TypeOK
      /\ \A k \in Owl : InfoOK(election[k], k) /\ TableOK(k)
      /\ ParentIsValidPeer
  BY DEF NetInv
<1>2. /\ up' \in SUBSET Owl /\ on' = on /\ counter' = counter
      /\ election' = [ election EXCEPT ![n] = Own(n) ]
      /\ peers' = [ peers EXCEPT ![n] = EmptyTable ]
      /\ \A r, d : InfoOK(r, d)' = InfoOK(r, d)
  BY <1>1 DEF Crash, Restart, TypeOK, InfoOK
<1>3. EmptyTable \in [ Device -> PeerEntry ]
  BY NoPeerType DEF EmptyTable
<1>4. Own(n) \in ElectionState /\ InfoOK(Own(n), n) /\ Own(n).sync_addr = n
  BY OwnOK DEF Own, ResetSelf
<1>5. TypeOK'
  BY <1>1, <1>2, <1>3, <1>4 DEF TypeOK
<1>6. \A k \in Owl : InfoOK(election[k], k)'
  BY <1>1, <1>2, <1>4 DEF TypeOK
<1>7. \A k \in Owl : TableOK(k)'
  BY <1>1, <1>2, NoPeerType DEF TableOK, TypeOK, EmptyTable
<1>8. ParentIsValidPeer'
  BY <1>1, <1>2, <1>4 DEF ParentIsValidPeer, TypeOK
<1>9. QED
  BY <1>5, <1>6, <1>7, <1>8 DEF NetInv

(* What a foreign device does is only noticed when it is heard.            *)
LEMMA ForeignKeepsInv ==
  ASSUME NetInv, NEW f \in Foreign, Arrive(f) \/ Depart(f) \/ RaiseCounter(f)
  PROVE  NetInv'
<1>1. /\ up' = up /\ election' = election /\ peers' = peers
      /\ \A r, d : InfoOK(r, d)' = InfoOK(r, d)
  BY DEF Arrive, Depart, RaiseCounter, InfoOK
<1>2. on' \in SUBSET Foreign
  BY DEF NetInv, TypeOK, Arrive, Depart, RaiseCounter
<1>3. counter' \in [ Foreign -> 0 .. MaxCounter ]
  BY NetAssumption DEF NetInv, TypeOK, Arrive, Depart, RaiseCounter
<1>4. TypeOK'
  BY <1>1, <1>2, <1>3 DEF NetInv, TypeOK
<1>5. QED
  BY <1>1, <1>4 DEF NetInv, TableOK, ParentIsValidPeer

LEMMA TickKeepsInv ==
  ASSUME NetInv, Tick
  PROVE  NetInv'
<1>1. /\ TypeOK
      /\ \A k \in Owl : InfoOK(election[k], k) /\ TableOK(k)
      /\ ParentIsValidPeer
  BY DEF NetInv
<1>2. /\ up' = up /\ on' = on /\ counter' = counter /\ election' = election
      /\ \A r, d : InfoOK(r, d)' = InfoOK(r, d)
  BY DEF Tick, InfoOK
<1>3. ASSUME NEW n \in Owl, NEW d \in Device
      PROVE  /\ peers'[n][d] \in PeerEntry
             /\ peers'[n][d].known = peers[n][d].known
             /\ peers'[n][d].is_valid = peers[n][d].is_valid
             /\ peers'[n][d].election = peers[n][d].election
  <2>1. peers[n][d] \in PeerEntry
    BY <1>1 DEF TypeOK
  <2>2. peers'[n][d] = IF peers[n][d].known /\ peers[n][d].age <= Timeout
                         THEN [ peers[n][d] EXCEPT !.age = @ + 1 ]
                         ELSE peers[n][d]
    BY DEF Tick
  <2>3. QED
    BY <2>1, <2>2, NetAssumption DEF PeerEntry
<1>4. peers' \in [ Owl -> [ Device -> PeerEntry ] ]
  <2>1. peers' = [ n \in Owl |-> [ d \in Device |-> peers'[n][d] ] ]
    BY DEF Tick
  <2>2. QED
    BY <2>1, <1>3
<1>5. TypeOK'
  BY <1>1, <1>2, <1>4 DEF TypeOK
<1>6. \A k \in Owl : InfoOK(election[k], k)' /\ TableOK(k)'
  BY <1>1, <1>2, <1>3 DEF TableOK
<1>7. ParentIsValidPeer'
  BY <1>1, <1>2, <1>3 DEF ParentIsValidPeer, TypeOK, ElectionState
<1>8. QED
  BY <1>5, <1>6, <1>7 DEF NetInv

(* NetInv holds throughout.                                                *)
THEOREM NetInvariant == Spec => []NetInv
<1>1. NetInv /\ [Next]_vars => NetInv'
  <2> SUFFICES ASSUME NetInv, [Next]_vars PROVE NetInv'
    OBVIOUS
  <2>1. ASSUME NEW a \in Device, NEW isMif \in BOOLEAN, NEW R \in SUBSET Owl,
               Announce(a, isMif, R)
        PROVE  NetInv'
    BY <2>1, AnnounceKeepsInv
  <2>2. ASSUME NEW n \in Owl, CleanPeers(n) PROVE NetInv'
    BY <2>2, CleanPeersKeepsInv
  <2>3. ASSUME NEW n \in Owl, Crash(n) \/ Restart(n) PROVE NetInv'
    BY <2>3, ResetKeepsInv
  <2>4. ASSUME NEW f \in Foreign, Arrive(f) \/ Depart(f) \/ RaiseCounter(f)
        PROVE  NetInv'
    BY <2>4, ForeignKeepsInv
  <2>5. CASE Tick
    BY <2>5, TickKeepsInv
  <2>6. CASE UNCHANGED vars
    BY <2>6 DEF vars, NetInv, TypeOK, TableOK, InfoOK, ParentIsValidPeer
  <2>7. QED
    BY <2>1, <2>2, <2>3, <2>4, <2>5, <2>6 DEF Next
<1>2. QED
  BY InitNetInv, <1>1, PTL DEF Spec

-----------------------------------------------------------------------------
(* Types: in particular heights never exceed MaxHeight (election.c:63).    *)
THEOREM NetTypeCorrect == Spec => []TypeOK
<1>1. NetInv => TypeOK
  BY DEF NetInv
<1>2. QED
  BY <1>1, NetInvariant, PTL

(* What is said about a master is true of it.                              *)
THEOREM RankIsTrue == Spec => []RankBelongsToMaster
<1>1. NetInv => RankBelongsToMaster
  BY DEF NetInv, RankBelongsToMaster, TableOK, InfoOK
<1>2. QED
  BY <1>1, NetInvariant, PTL

(* No node follows a tree rooted at itself.                                *)
THEOREM NoSelfFollowing == Spec => []NeverFollowsItself
<1>1. NetInv => NeverFollowsItself
  <2> SUFFICES ASSUME NetInv, NEW n \in Owl, election[n].height > 0,
                      election[n].master_addr = n
               PROVE  FALSE
    BY DEF NeverFollowsItself
  <2>1. InfoOK(election[n], n)
    BY DEF NetInv
  <2>2. CompareMaster(election[n], Own(n)) = 0
    BY <2>1 DEF InfoOK, CompareMaster, Compare, Own, ResetSelf, CounterInit
  <2>3. election[n].sync_addr = n /\ election[n].sync_addr > n
    BY <2>1, <2>2 DEF InfoOK
  <2>4. QED
    BY <2>3, NetAssumption
<1>2. QED
  BY <1>1, NetInvariant, PTL

(* Trees among nodes of equal rank have depth one and point upwards.       *)
THEOREM OneHopAmongEquals == Spec => []EqualRankIsOneHop
<1>1. NetInv => EqualRankIsOneHop
  BY DEF NetInv, EqualRankIsOneHop, EqualRank, InfoOK
<1>2. QED
  BY <1>1, NetInvariant, PTL

(* A node never synchronises to a peer that it has dropped.                *)
THEOREM ParentStaysValid == Spec => []ParentIsValidPeer
<1>1. NetInv => ParentIsValidPeer
  BY DEF NetInv
<1>2. QED
  BY <1>1, NetInvariant, PTL

-----------------------------------------------------------------------------
(* "Preferred to" (election.c:41-46, 70-82) is a strict total order on     *)
(* election states of different addresses.  This is what makes an election *)
(* have one outcome.                                                       *)

(* A candidate is never preferred to itself: the tie-breaker of            *)
(* apple_p2p_election_run is strict.                                       *)
LEMMA PreferredIrreflexive ==
  ASSUME NEW a \in Ranked
  PROVE  ~Preferred(a, a)
BY DEF Ranked, Preferred, CompareMaster, Compare

(* If b is not preferred to a then nothing that b beats, or ties with, is  *)
(* preferred to a: being beaten is passed on from candidate to candidate.  *)
LEMMA NotPreferredTransitive ==
  ASSUME NEW a \in Ranked, NEW b \in Ranked, NEW c \in Ranked,
         ~Preferred(a, b), ~Preferred(b, c)
  PROVE  ~Preferred(a, c)
BY DEF Ranked, Preferred, CompareMaster, Compare

(* Preference is asymmetric: a candidate that was just replaced cannot     *)
(* beat the one that replaced it.                                          *)
LEMMA PreferredAsymmetric ==
  ASSUME NEW a \in Ranked, NEW b \in Ranked, Preferred(a, b)
  PROVE  ~Preferred(b, a)
BY DEF Ranked, Preferred, CompareMaster, Compare

-----------------------------------------------------------------------------
LEMMA OwnIsRanked == OwnRoot \in Ranked /\ OwnRoot \in RunState
BY NodeAssumption, HeightAssumption DEF OwnRoot, ResetSelf, Ranked, RunState

LEMMA InfoIsRanked ==
  ASSUME heard \in [ Peer -> PeerInfo ], NEW p \in Peer
  PROVE  Info(p) \in Ranked /\ Info(p) \in RunState /\ Info(p).self_addr = p
<1>1. /\ heard[p].master_addr \in Nat
      /\ heard[p].sync_addr \in Nat
      /\ heard[p].height \in 0 .. MaxUint32
      /\ heard[p].master_counter \in Nat
      /\ heard[p].master_metric \in Nat
      /\ p \in Nat
  BY NodeAssumption
<1>2. QED
  BY <1>1, HeightAssumption DEF Info, Ranked, RunState

(* Following a peer keeps a well-typed election state well-typed: the      *)
(* height stays within a uint32_t.                                         *)
LEMMA FollowType ==
  ASSUME NEW own \in RunState, NEW m \in RunState
  PROVE  Follow(own, m) \in RunState
<1>1. NextHeight(m.height) \in 0 .. MaxUint32
  BY HeightAssumption DEF NextHeight, RunState
<1>2. QED
  BY <1>1 DEF Follow, RunState

(* The candidate is always the node itself or an entry of the table.       *)
LEMMA CandidateIsRanked ==
  ASSUME RunTypeOK, state = OwnRoot
  PROVE  /\ Candidate \in Ranked
         /\ Candidate \in RunState
         /\ master_state = Self => Candidate = OwnRoot
         /\ master_state # Self => /\ master_state \in Peer
                                   /\ Candidate = Info(master_state)
BY OwnIsRanked, InfoIsRanked DEF Candidate, RunTypeOK

-----------------------------------------------------------------------------
(* Types: every variable of the election loop stays in its range.          *)
THEOREM TypeCorrect == RunSpec => []RunTypeOK
<1>1. RunInit => RunTypeOK
  <2> SUFFICES ASSUME RunInit PROVE RunTypeOK
    OBVIOUS
  <2>1. state \in RunState
    BY OwnIsRanked, InfoIsRanked, FollowType DEF RunInit
  <2>2. QED
    BY <2>1 DEF RunInit, RunTypeOK
<1>2. RunTypeOK /\ [RunNext]_runVars => RunTypeOK'
  <2> SUFFICES ASSUME RunTypeOK, [RunNext]_runVars PROVE RunTypeOK'
    OBVIOUS
  <2>1. CASE Start
    BY <2>1, OwnIsRanked DEF Start, RunTypeOK
  <2>2. ASSUME NEW p \in Peer, Visit(p) PROVE RunTypeOK'
    BY <2>2 DEF Visit, RunTypeOK
  <2>3. CASE Adopt
    <3>1. Candidate \in RunState
      BY InfoIsRanked DEF Candidate, RunTypeOK
    <3>2. QED
      BY <2>3, <3>1, FollowType DEF Adopt, RunTypeOK
  <2>4. CASE Again
    BY <2>4 DEF Again, RunTypeOK
  <2>5. CASE UNCHANGED runVars
    BY <2>5 DEF runVars, RunTypeOK
  <2>6. QED
    BY <2>1, <2>2, <2>3, <2>4, <2>5 DEF RunNext
<1>3. QED
  BY <1>1, <1>2, PTL DEF RunSpec

(* The loop invariant together with what it amounts to at the end.         *)
RunInv == CandidateIsBest /\ ResultIsTheOutcome

(* One turn of the loop keeps the candidate the best of those seen.        *)
LEMMA VisitKeepsBest ==
  ASSUME RunTypeOK, CandidateIsBest, NEW p \in Peer, Visit(p)
  PROVE  CandidateIsBest'
<1>1. /\ state = OwnRoot
      /\ master_state # Self => master_state \notin todo /\ IsEligible(master_state)
      /\ ~Preferred(OwnRoot, Candidate)
      /\ \A q \in Peer \ todo : IsEligible(q) => ~Preferred(Info(q), Candidate)
  BY DEF Visit, CandidateIsBest
<1>2. /\ heard' = heard /\ state' = state /\ todo' = todo \ {p} /\ p \in todo
      /\ OwnRoot' = OwnRoot
      /\ \A q : Info(q)' = Info(q)
      /\ \A q : IsEligible(q)' = IsEligible(q)
  BY DEF Visit, OwnRoot, Info, IsEligible
<1>3. OwnRoot \in Ranked /\ Info(p) \in Ranked /\ Candidate \in Ranked
  BY <1>1, OwnIsRanked, InfoIsRanked, CandidateIsRanked DEF RunTypeOK
<1>4. p # Self
  BY NodeAssumption
<1>5. CASE IsEligible(p) /\ Preferred(Info(p), Candidate)
  <2>1. master_state' = p
    BY <1>5 DEF Visit
  <2>2. Candidate' = Info(p)
    BY <1>2, <1>4, <2>1 DEF Candidate
  <2>3. ~Preferred(Candidate, Info(p))
    BY <1>3, <1>5, PreferredAsymmetric
  <2>4. ~Preferred(OwnRoot, Info(p))
    BY <1>1, <1>3, <2>3, NotPreferredTransitive
  <2>5. ASSUME NEW q \in Peer \ todo', IsEligible(q)
        PROVE  ~Preferred(Info(q), Info(p))
    <3>1. CASE q = p
      BY <1>3, <3>1, PreferredIrreflexive
    <3>2. CASE q # p
      <4>1. ~Preferred(Info(q), Candidate)
        BY <1>1, <1>2, <2>5, <3>2
      <4>2. Info(q) \in Ranked
        BY InfoIsRanked DEF RunTypeOK
      <4>3. QED
        BY <1>3, <2>3, <4>1, <4>2, NotPreferredTransitive
    <3>3. QED
      BY <3>1, <3>2
  <2>6. QED
    BY <1>1, <1>2, <1>5, <2>1, <2>2, <2>4, <2>5 DEF CandidateIsBest
<1>6. CASE ~(IsEligible(p) /\ Preferred(Info(p), Candidate))
  <2>1. master_state' = master_state
    BY <1>6 DEF Visit
  <2>2. Candidate' = Candidate
    BY <1>2, <2>1 DEF Candidate
  <2>3. QED
    BY <1>1, <1>2, <1>6, <2>1, <2>2 DEF CandidateIsBest
<1>7. QED
  BY <1>5, <1>6

(* Among the candidates of one election a best one is the only one: two    *)
(* that tie have the same address, hence are the same entry.               *)
LEMMA BestIsUnique ==
  ASSUME RunTypeOK, NEW a, NEW b,
         IsBest(a, Eligibles \cup {OwnRoot}), IsBest(b, Eligibles \cup {OwnRoot})
  PROVE  a = b
<1>1. \A x \in Eligibles \cup {OwnRoot} :
        x \in Ranked /\ (x # OwnRoot => \E p \in Peer : x = Info(p) /\ x.self_addr = p)
  BY OwnIsRanked, InfoIsRanked DEF Eligibles, RunTypeOK
<1>2. a.self_addr = b.self_addr
  BY <1>1, PreferredTotal DEF IsBest
<1>3. OwnRoot.self_addr = Self
  BY DEF OwnRoot, ResetSelf
<1>4. a \in Eligibles \cup {OwnRoot} /\ b \in Eligibles \cup {OwnRoot}
  BY DEF IsBest
<1>5. QED
  BY <1>1, <1>2, <1>3, <1>4, NodeAssumption

(* When every peer has been seen the candidate is the winner.              *)
LEMMA AdoptTheOutcome ==
  ASSUME RunTypeOK, CandidateIsBest, Adopt
  PROVE  ResultIsTheOutcome'
<1>1. /\ state = OwnRoot
      /\ master_state # Self => IsEligible(master_state)
      /\ ~Preferred(OwnRoot, Candidate)
      /\ \A q \in Peer : IsEligible(q) => ~Preferred(Info(q), Candidate)
  BY DEF Adopt, CandidateIsBest
<1>2. /\ OwnRoot' = OwnRoot
      /\ Eligibles' = Eligibles
      /\ state' = Follow(OwnRoot, Candidate)
  BY <1>1 DEF Adopt, OwnRoot, Eligibles, Info, IsEligible
<1>3. Candidate \in Eligibles \cup {OwnRoot}
  BY <1>1, CandidateIsRanked DEF Eligibles
<1>4. IsBest(Candidate, Eligibles \cup {OwnRoot})
  BY <1>1, <1>3 DEF IsBest, Eligibles
<1>5. { c \in Eligibles \cup {OwnRoot} : IsBest(c, Eligibles \cup {OwnRoot}) } = { Candidate }
  BY <1>3, <1>4, BestIsUnique
<1>6. Outcomes(OwnRoot, Eligibles) = { Follow(OwnRoot, Candidate) }
  BY <1>5 DEF Outcomes
<1>7. QED
  BY <1>2, <1>6 DEF ResultIsTheOutcome

LEMMA LoopInvariant == RunSpec => []RunInv
<1>1. RunInit => RunInv
  BY DEF RunInit, RunInv, CandidateIsBest, ResultIsTheOutcome
<1>2. RunTypeOK /\ RunInv /\ [RunNext]_runVars => RunInv'
  <2> SUFFICES ASSUME RunTypeOK, RunInv, [RunNext]_runVars PROVE RunInv'
    OBVIOUS
  <2> USE DEF RunInv
  <2>1. CASE Start
    <3>1. /\ state' = OwnRoot' /\ master_state' = Self /\ todo' = Peer /\ pc' = "loop"
          /\ Candidate' = OwnRoot' /\ OwnRoot' = OwnRoot
      BY <2>1 DEF Start, Candidate, OwnRoot
    <3>2. ~Preferred(OwnRoot, OwnRoot)
      BY OwnIsRanked, PreferredIrreflexive
    <3>3. QED
      BY <3>1, <3>2 DEF CandidateIsBest, ResultIsTheOutcome
  <2>2. ASSUME NEW p \in Peer, Visit(p) PROVE RunInv'
    BY <2>2, VisitKeepsBest DEF Visit, ResultIsTheOutcome
  <2>3. CASE Adopt
    BY <2>3, AdoptTheOutcome DEF Adopt, CandidateIsBest
  <2>4. CASE Again
    BY <2>4 DEF Again, CandidateIsBest, ResultIsTheOutcome
  <2>5. CASE UNCHANGED runVars
    BY <2>5 DEF runVars, CandidateIsBest, ResultIsTheOutcome, Candidate, OwnRoot, Info,
                IsEligible, Eligibles, ResultIsTheOutcome
  <2>6. QED
    BY <2>1, <2>2, <2>3, <2>4, <2>5 DEF RunNext
<1>3. QED
  BY <1>1, <1>2, TypeCorrect, PTL DEF RunSpec

(* Whatever the loop has seen of the table, its candidate has passed the   *)
(* checks and none of the peers seen, nor the node itself, beats it.       *)
THEOREM CandidateBest == RunSpec => []CandidateIsBest
<1>1. RunInv => CandidateIsBest
  BY DEF RunInv
<1>2. QED
  BY <1>1, LoopInvariant, PTL

(* The election run ends in the one outcome that the eligible peers and    *)
(* the node itself determine, for every table and every order of the       *)
(* iterator.                                                               *)
THEOREM ElectionCorrect == RunSpec => []ResultIsTheOutcome
<1>1. RunInv => ResultIsTheOutcome
  BY DEF RunInv
<1>2. QED
  BY <1>1, LoopInvariant, PTL
=============================================================================
