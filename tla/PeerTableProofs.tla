-------------------------- MODULE PeerTableProofs --------------------------
(***************************************************************************)
(* The peer table and the kernel's neighbour table agree, whatever the     *)
(* width of the clock.  That a silent peer is removed, and no other, is    *)
(* proved for as long as the clock does not overflow.                      *)
(***************************************************************************)
EXTENDS PeerTable, TLAPS

LEMMA Constants ==
  /\ Second \in Nat /\ Second > 0 /\ Timeout \in Nat /\ Timeout > 0
  /\ CleanInterval \in Nat /\ CleanInterval > 0
  /\ MinUptime \in Nat /\ MaxUptime \in Nat /\ MaxLate \in Nat /\ MaxFailures \in Nat
  /\ LongRange \in Nat /\ LongRange > 0 /\ WordRange \in Nat /\ LongRange < WordRange
BY TableAssumption

LEMMA Remainder ==
  ASSUME NEW n \in Nat, n > 0, NEW a \in Int
  PROVE  /\ a % n \in 0 .. n - 1
         /\ a \in 0 .. n - 1 => a % n = a
<1> DEFINE d == a \div n
           r == a % n
<1>1. d \in Int /\ r \in 0 .. n - 1 /\ a = n * d + r
  OBVIOUS
<1>2. a \in 0 .. n - 1 => r = a
  <2> HIDE DEF d, r
  <2>1. SUFFICES ASSUME a \in 0 .. n - 1 PROVE d = 0
    BY <1>1
  <2>2. d >= 1 => n * d >= n
    <3>1. \A e \in Nat : n * (e + 1) >= n
      OBVIOUS
    <3>2. d >= 1 => d - 1 \in Nat /\ d = (d - 1) + 1
      BY <1>1
    <3>3. QED
      BY <3>1, <3>2
  <2>3. d <= -1 => n * d <= -n
    <3>1. \A e \in Nat : n * (-1 - e) <= -n
      OBVIOUS
    <3>2. d <= -1 => -1 - d \in Nat /\ d = -1 - (-1 - d)
      BY <1>1
    <3>3. QED
      BY <3>1, <3>2
  <2>4. QED
    BY <1>1, <2>1, <2>2, <2>3
<1>3. QED
  BY <1>1, <1>2

(* The clock has the width of the word, and below the overflow of a long   *)
(* it reads the uptime.                                                    *)
NoOverflow == wraps => MaxUptime < LongRange \div 2

LEMMA ClockFacts ==
  ASSUME uptime \in 0 .. MaxUptime
  PROVE  /\ Clock \in 0 .. WordRange - 1
         /\ MaxUptime < WordRange /\ NoOverflow => Clock = uptime
<1> DEFINE d == uptime \div Second
           r == uptime % Second
           seconds == (uptime \div Second) * Second
<1>1. d \in Int /\ r \in 0 .. Second - 1 /\ uptime = Second * d + r
  BY Constants
<1>2. seconds \in Int /\ seconds + r = uptime
  <2>1. d * Second = Second * d
    BY <1>1, Constants
  <2>2. QED
    BY <1>1, <2>1, Constants
<1>3. AsLong(seconds) \in Int
  <2>1. seconds % LongRange \in Int
    BY <1>2, Remainder, Constants
  <2>2. QED
    BY <2>1, Constants DEF AsLong
<1>4. seconds >= 0
  <2> HIDE DEF d, r
  <2>1. d <= -1 => Second * d <= -Second
    <3>1. \A e \in Nat : Second * (-1 - e) <= -Second
      BY Constants
    <3>2. d <= -1 => -1 - d \in Nat /\ d = -1 - (-1 - d)
      BY <1>1
    <3>3. QED
      BY <3>1, <3>2
  <2>2. d >= 0
    BY <1>1, <2>1, Constants
  <2>3. d * Second >= 0
    BY <1>1, <2>2, Constants
  <2>4. QED
    BY <2>3 DEF d
<1>5. Clock = ((IF wraps THEN AsLong(seconds) ELSE seconds) + r) % WordRange
  BY DEF Clock
<1> HIDE DEF seconds, r
<1>6. Clock \in 0 .. WordRange - 1
  BY <1>1, <1>2, <1>3, <1>5, Remainder, Constants
<1>7. ASSUME MaxUptime < WordRange, NoOverflow PROVE Clock = uptime
  <2>1. wraps => AsLong(seconds) = seconds
    <3>1. SUFFICES ASSUME wraps PROVE AsLong(seconds) = seconds
      OBVIOUS
    <3>2. MaxUptime < LongRange \div 2 /\ LongRange \div 2 <= LongRange
      BY <1>7, <3>1, Constants DEF NoOverflow
    <3>3. seconds \in 0 .. LongRange - 1 /\ seconds < LongRange \div 2
      BY <1>1, <1>2, <1>4, <3>2, Constants
    <3>4. seconds % LongRange = seconds
      BY <3>3, Remainder, Constants
    <3>5. QED
      BY <3>3, <3>4 DEF AsLong
  <2>2. Clock = uptime % WordRange
    BY <1>2, <1>5, <2>1
  <2>3. uptime \in 0 .. WordRange - 1
    BY <1>7, Constants
  <2>4. QED
    BY <2>2, <2>3, Remainder, Constants
<1>8. QED
  BY <1>6, <1>7
-----------------------------------------------------------------------------
(* The entry of a peer after a frame of his.                               *)
LEMMA AddedFacts ==
  ASSUME uptime \in 0 .. MaxUptime, NEW e \in Entry
  PROVE  /\ Added(e) \in Entry /\ Added(e).last_update = Clock
         /\ e.is_valid => Added(e).is_valid
<1>1. Clock \in 0 .. WordRange - 1
  BY ClockFacts
<1> DEFINE valid == e.is_valid \/ Complete(e)
<1>2. valid \in BOOLEAN
  BY Zenon DEF Entry, Complete
<1>3. Added(e) = [ e EXCEPT !.last_update = Clock, !.is_valid = valid ]
  BY Zenon DEF Added
<1> HIDE DEF valid
<1>4. /\ Added(e) \in Entry /\ Added(e).last_update = Clock
      /\ Added(e).is_valid = valid
  BY <1>1, <1>2, <1>3, Zenon DEF Entry
<1>5. e.is_valid => valid
  BY DEF valid
<1>6. QED
  BY <1>4, <1>5

LEMMA ReceivedFacts ==
  ASSUME uptime \in 0 .. MaxUptime, NEW e \in Entry, NEW isMif \in BOOLEAN,
         NEW version \in {"none", "empty", "given"}, NEW wellFormed \in BOOLEAN
  PROVE  LET r == Received(e, isMif, version, wellFormed)
         IN  /\ r \in Entry /\ r.last_update = Clock
             /\ e.is_valid => r.is_valid
<1> DEFINE a == Added(e)
           parsed == Parsed(a, version)
           mif == parsed.sent_mif \/ isMif
           b == [ parsed EXCEPT !.sent_mif = mif ]
           r == Received(e, isMif, version, wellFormed)
<1>1. a \in Entry /\ a.last_update = Clock /\ (e.is_valid => a.is_valid)
  BY AddedFacts
<1> HIDE DEF a
<1>2. parsed \in Entry /\ parsed.last_update = Clock /\ parsed.is_valid = a.is_valid
  <2>1. CASE version = "none"
    BY <1>1, <2>1 DEF Parsed
  <2>2. CASE version # "none"
    <3>1. parsed = [ a EXCEPT !.described = version = "given" ]
      BY <2>2 DEF Parsed
    <3>2. (version = "given") \in BOOLEAN
      OBVIOUS
    <3>3. QED
      BY <1>1, <3>1, <3>2 DEF Entry
  <2>3. QED
    BY <2>1, <2>2
<1>3. r = IF ~wellFormed THEN parsed ELSE Added(b)
  BY Zenon DEF Received, a
<1> HIDE DEF parsed
<1>4. mif \in BOOLEAN
  BY <1>2, Zenon DEF Entry
<1> HIDE DEF mif
<1>5. b \in Entry /\ b.is_valid = parsed.is_valid
  BY <1>2, <1>4, Zenon DEF Entry
<1> HIDE DEF b
<1>6. Added(b) \in Entry /\ Added(b).last_update = Clock /\ (b.is_valid => Added(b).is_valid)
  BY <1>5, AddedFacts
<1> HIDE DEF r
<1>7. r \in Entry /\ r.last_update = Clock /\ (e.is_valid => r.is_valid)
  BY <1>1, <1>2, <1>3, <1>5, <1>6
<1>8. QED
  BY <1>7 DEF r

LEMMA NewEntryFacts == NewEntry \in Entry /\ NewEntry.is_valid = FALSE
BY Constants DEF NewEntry, Entry
-----------------------------------------------------------------------------
LEMMA TableInit == Init => TypeOK /\ KernelMirrorsTable
<1> SUFFICES ASSUME Init PROVE TypeOK /\ KernelMirrorsTable
  OBVIOUS
<1>1. Known = { }
  BY DEF Init, Known
<1>2. TypeOK
  BY <1>1, Constants DEF Init, TypeOK
<1>3. KernelMirrorsTable
  BY <1>1 DEF Init, KernelMirrorsTable
<1>4. QED
  BY <1>2, <1>3

LEMMA RxActionTable ==
  ASSUME TypeOK, NEW p \in Peer, NEW rssi \in Rssi, NEW isMif \in BOOLEAN,
         NEW version \in {"none", "empty", "given"}, NEW wellFormed \in BOOLEAN,
         NEW fails \in BOOLEAN, RxAction(p, rssi, isMif, version, wellFormed, fails)
  PROVE  /\ TypeOK'
         /\ KernelMirrorsTable => KernelMirrorsTable'
         /\ Known' = Known \cup {p}
         /\ table'[p].last_update = Clock
         /\ \A q \in Known \ {p} : table'[q] = table[q]
<1> DEFINE old == IF p \in Known THEN table[p] ELSE NewEntry
           new == Received(old, isMif, version, wellFormed)
           turnsValid == new.is_valid /\ ~old.is_valid
<1>1. /\ fails => failures < MaxFailures
      /\ fails => turnsValid
      /\ table' = With(table, p, new)
      /\ IF turnsValid
           THEN IF fails THEN Netlink({p}, {p}, kernel) ELSE Netlink({p}, {}, kernel \cup {p})
           ELSE UNCHANGED << kernel, desynced, orphans >>
      /\ heard' = [ heard EXCEPT ![p] = uptime ]
      /\ failures' = IF fails THEN failures + 1 ELSE failures
      /\ UNCHANGED << uptime, wraps, cleanIn >>
  BY DEF RxAction
<1>2. uptime \in 0 .. MaxUptime /\ old \in Entry /\ (p \notin Known => ~old.is_valid)
  BY NewEntryFacts DEF TypeOK
<1> HIDE DEF old
<1>3. new \in Entry /\ new.last_update = Clock /\ (old.is_valid => new.is_valid)
  BY <1>2, ReceivedFacts
<1> HIDE DEF new
<1>4. /\ Known' = Known \cup {p}
      /\ table'[p] = new
      /\ \A q \in Known \ {p} : table'[q] = table[q]
  BY <1>1 DEF With, Known
<1>5. {kernel', desynced', orphans'} \subseteq SUBSET Peer
  BY <1>1 DEF Netlink, TypeOK
<1>6. TypeOK'
  <2>1. heard' \in [ Peer -> 0 .. MaxUptime ]
    BY <1>1, <1>2 DEF TypeOK
  <2>2. failures' \in 0 .. MaxFailures
    BY <1>1, Constants DEF TypeOK
  <2>3. Known' \subseteq Peer /\ \A q \in Known' : table'[q] \in Entry
    BY <1>3, <1>4 DEF TypeOK
  <2>4. QED
    BY <1>1, <1>5, <2>1, <2>2, <2>3 DEF TypeOK
<1>7. ASSUME KernelMirrorsTable PROVE KernelMirrorsTable'
  <2>1. SUFFICES ASSUME NEW q \in Peer \ desynced'
                 PROVE  /\ q \in Known' /\ table'[q].is_valid => q \in kernel'
                        /\ q \in kernel' => (q \in Known' /\ table'[q].is_valid) \/ q \in orphans'
    BY DEF KernelMirrorsTable
  <2>2. CASE turnsValid /\ ~fails
    BY <1>1, <1>4, <1>7, <2>1, <2>2 DEF Netlink, KernelMirrorsTable
  <2>3. CASE turnsValid /\ fails
    <3>1. q # p /\ q \notin desynced /\ kernel' = kernel /\ (q \in orphans' <=> q \in orphans)
      BY <1>1, <2>1, <2>3 DEF Netlink
    <3>2. QED
      BY <1>4, <1>7, <2>1, <3>1 DEF KernelMirrorsTable
  <2>4. CASE ~turnsValid
    <3>1. q \notin desynced /\ kernel' = kernel /\ orphans' = orphans /\ (new.is_valid <=> old.is_valid)
      BY <1>1, <1>2, <1>3, <2>1, <2>4
    <3>2. CASE q = p
      BY <1>2, <1>4, <1>7, <2>1, <3>1, <3>2 DEF KernelMirrorsTable, old
    <3>3. CASE q # p
      BY <1>4, <1>7, <2>1, <3>1, <3>3 DEF KernelMirrorsTable
    <3>4. QED
      BY <3>2, <3>3
  <2>5. QED
    BY <2>2, <2>3, <2>4
<1>8. QED
  BY <1>3, <1>4, <1>6, <1>7

LEMMA CleanPeersTable ==
  ASSUME TypeOK, NEW lost \in SUBSET Peer, CleanPeers(lost)
  PROVE  /\ TypeOK'
         /\ KernelMirrorsTable => KernelMirrorsTable'
         /\ Known' = Known \ Expired
         /\ \A q \in Known' : table'[q] = table[q]
<1> DEFINE valid == { p \in Expired : table[p].is_valid }
<1>1. /\ lost \subseteq valid
      /\ lost # {} => failures < MaxFailures
      /\ table' = [ p \in Known \ Expired |-> table[p] ]
      /\ kernel' = kernel \ (valid \ lost)
      /\ desynced' = (desynced \ valid) \cup lost
      /\ orphans' = orphans \ valid
      /\ cleanIn' = CleanInterval
      /\ failures' = IF lost # {} THEN failures + 1 ELSE failures
      /\ UNCHANGED << uptime, wraps, heard >>
  BY Zenon DEF CleanPeers, Netlink
<1>2. Known' = Known \ Expired /\ \A q \in Known' : table'[q] = table[q]
  BY <1>1 DEF Known
<1>3. Expired \subseteq Known
  BY DEF Expired
<1>4. TypeOK'
  <2>1. Known' \subseteq Peer /\ \A q \in Known' : table'[q] \in Entry
    BY <1>2 DEF TypeOK
  <2>2. {kernel', desynced', orphans'} \subseteq SUBSET Peer
    BY <1>1 DEF TypeOK
  <2>3. cleanIn' \in -MaxLate .. CleanInterval
    BY <1>1, Constants
  <2>4. failures' \in 0 .. MaxFailures
    BY <1>1, Constants DEF TypeOK
  <2>5. QED
    BY <1>1, <2>1, <2>2, <2>3, <2>4 DEF TypeOK
<1>5. ASSUME KernelMirrorsTable PROVE KernelMirrorsTable'
  <2>1. SUFFICES ASSUME NEW q \in Peer \ desynced'
                 PROVE  /\ q \in Known' /\ table'[q].is_valid => q \in kernel'
                        /\ q \in kernel' => (q \in Known' /\ table'[q].is_valid) \/ q \in orphans'
    BY DEF KernelMirrorsTable
  <2>2. CASE q \in valid
    BY <1>1, <1>2, <2>1, <2>2
  <2>3. CASE q \notin valid
    <3>1. q \notin desynced /\ (q \in kernel' <=> q \in kernel) /\ (q \in orphans' <=> q \in orphans)
      BY <1>1, <2>1, <2>3
    <3>2. /\ q \in Known /\ table[q].is_valid => q \in kernel
          /\ q \in kernel => (q \in Known /\ table[q].is_valid) \/ q \in orphans
      BY <1>5, <2>1, <3>1 DEF KernelMirrorsTable
    <3>3. q \in Known /\ table[q].is_valid => q \notin Expired
      BY <2>3
    <3>4. QED
      BY <1>2, <3>1, <3>2, <3>3
  <2>4. QED
    BY <2>2, <2>3
<1>6. QED
  BY <1>2, <1>4, <1>5

LEMMA TickTable ==
  ASSUME TypeOK, Tick
  PROVE  TypeOK' /\ (KernelMirrorsTable => KernelMirrorsTable')
<1>1. /\ uptime < MaxUptime /\ cleanIn > -MaxLate
      /\ uptime' = uptime + 1 /\ cleanIn' = cleanIn - 1
      /\ UNCHANGED << wraps, table, kernel, heard, desynced, orphans, failures >> /\ Known' = Known
  BY DEF Tick, Known
<1>2. uptime' \in 0 .. MaxUptime /\ cleanIn' \in -MaxLate .. CleanInterval
  BY <1>1, Constants DEF TypeOK
<1>3. QED
  BY <1>1, <1>2 DEF TypeOK, KernelMirrorsTable

LEMMA NoMemoryTable ==
  ASSUME TypeOK, NEW p \in Peer, NEW rssi \in Rssi, NEW kept \in SUBSET Known,
         NoMemory(p, rssi, kept)
  PROVE  /\ TypeOK'
         /\ KernelMirrorsTable => KernelMirrorsTable'
         /\ Known' = kept
         /\ \A q \in Known' : table'[q] = table[q]
         /\ UNCHANGED << uptime, wraps, cleanIn, heard >>
<1>1. /\ failures < MaxFailures /\ failures' = failures + 1
      /\ table' = [ q \in kept |-> table[q] ]
      /\ orphans' = orphans \cup { q \in Known \ kept : table[q].is_valid }
      /\ UNCHANGED << uptime, wraps, kernel, cleanIn, heard, desynced >>
  BY DEF NoMemory
<1>2. Known' = kept /\ \A q \in Known' : table'[q] = table[q]
  BY <1>1 DEF Known
<1>3. TypeOK'
  <2>1. Known' \subseteq Peer /\ \A q \in Known' : table'[q] \in Entry
    BY <1>2 DEF TypeOK
  <2>2. {kernel', desynced', orphans'} \subseteq SUBSET Peer
    BY <1>1 DEF TypeOK
  <2>3. failures' \in 0 .. MaxFailures
    BY <1>1, Constants DEF TypeOK
  <2>4. QED
    BY <1>1, <2>1, <2>2, <2>3 DEF TypeOK
<1>4. ASSUME KernelMirrorsTable PROVE KernelMirrorsTable'
  <2>1. SUFFICES ASSUME NEW q \in Peer \ desynced'
                 PROVE  /\ q \in Known' /\ table'[q].is_valid => q \in kernel'
                        /\ q \in kernel' => (q \in Known' /\ table'[q].is_valid) \/ q \in orphans'
    BY DEF KernelMirrorsTable
  <2>2. /\ q \in Known /\ table[q].is_valid => q \in kernel
        /\ q \in kernel => (q \in Known /\ table[q].is_valid) \/ q \in orphans
    BY <1>1, <1>4, <2>1 DEF KernelMirrorsTable
  <2>3. q \in Known /\ table[q].is_valid => q \in kept \/ q \in orphans'
    BY <1>1
  <2>4. QED
    BY <1>1, <1>2, <2>2, <2>3
<1>5. QED
  BY <1>1, <1>2, <1>3, <1>4

LEMMA TableStep ==
  TypeOK /\ [Next]_vars => TypeOK' /\ (KernelMirrorsTable => KernelMirrorsTable')
<1> SUFFICES ASSUME TypeOK, [Next]_vars
             PROVE  TypeOK' /\ (KernelMirrorsTable => KernelMirrorsTable')
  OBVIOUS
<1>1. ASSUME NEW p \in Peer, NEW rssi \in Rssi, NEW kept \in SUBSET Known,
             NoMemory(p, rssi, kept)
      PROVE  TypeOK' /\ (KernelMirrorsTable => KernelMirrorsTable')
  BY <1>1, NoMemoryTable
<1>2. ASSUME NEW p \in Peer, NEW rssi \in Rssi, NEW isMif \in BOOLEAN,
             NEW version \in {"none", "empty", "given"}, NEW wellFormed \in BOOLEAN,
             NEW fails \in BOOLEAN, RxAction(p, rssi, isMif, version, wellFormed, fails)
      PROVE  TypeOK' /\ (KernelMirrorsTable => KernelMirrorsTable')
  BY <1>2, RxActionTable
<1>3. ASSUME NEW lost \in SUBSET Peer, CleanPeers(lost)
      PROVE  TypeOK' /\ (KernelMirrorsTable => KernelMirrorsTable')
  BY <1>3, CleanPeersTable
<1>4. CASE Tick
  BY <1>4, TickTable
<1>5. CASE UNCHANGED vars
  BY <1>5 DEF vars, TypeOK, KernelMirrorsTable, Known
<1>6. QED
  BY <1>1, <1>2, <1>3, <1>4, <1>5 DEF Next

(* Whatever the clock does: every last_update is a word, and only peers    *)
(* have entries.                                                           *)
THEOREM TableTypeCorrect == Spec => []TypeOK
<1>1. Init => TypeOK
  BY TableInit
<1>2. TypeOK /\ [Next]_vars => TypeOK'
  BY TableStep
<1>3. QED
  BY <1>1, <1>2, PTL DEF Spec

(* Whatever order frames, the cleanup timer and failures come in, and      *)
(* whatever the clock reads: except for peers about whom a request failed, *)
(* the kernel has every valid peer of the table as a neighbour, and of the *)
(* others only those that a put without memory took out of the table.      *)
THEOREM KernelAgrees == Spec => []KernelMirrorsTable
<1>1. Init => KernelMirrorsTable
  BY TableInit
<1>2. TypeOK /\ KernelMirrorsTable /\ [Next]_vars => KernelMirrorsTable'
  BY TableStep
<1>3. QED
  BY <1>1, <1>2, TableTypeCorrect, PTL DEF Spec
-----------------------------------------------------------------------------
(* Without an overflow, last_update is the uptime at which the peer was    *)
(* heard, and the cleanup timer, late or not, bounds the time since.       *)
TimeInv ==
  /\ NoOverflow
  /\ MinUptime <= uptime
  /\ \A p \in Known :
       /\ table[p].last_update = heard[p]
       /\ heard[p] <= uptime
       /\ uptime - heard[p] <= Timeout + CleanInterval - cleanIn

LEMMA ExpiredFacts ==
  ASSUME Timeout <= MinUptime, MaxUptime < WordRange, TypeOK, TimeInv
  PROVE  /\ Clock = uptime
         /\ \A p \in Known : p \in Expired <=> uptime - heard[p] > Timeout
<1>1. uptime \in 0 .. MaxUptime /\ MinUptime <= uptime
      /\ \A p \in Known : heard[p] \in 0 .. MaxUptime /\ table[p].last_update = heard[p]
  BY DEF TypeOK, TimeInv
<1>2. Clock = uptime
  BY <1>1, ClockFacts DEF TimeInv
<1>3. (Clock - Timeout) % WordRange = uptime - Timeout
  <2>1. uptime - Timeout \in 0 .. WordRange - 1
    BY <1>1, Constants
  <2>2. QED
    BY <1>2, <2>1, Remainder, Constants
<1>4. \A p \in Known : p \in Expired <=> heard[p] < uptime - Timeout
  BY <1>1, <1>3 DEF Expired
<1>5. \A p \in Known : heard[p] < uptime - Timeout <=> uptime - heard[p] > Timeout
  BY <1>1, Constants
<1>6. QED
  BY <1>2, <1>4, <1>5

LEMMA TimeInit == Init /\ NoOverflow => TimeInv
BY Constants DEF Init, TimeInv, Known

LEMMA TimeStep ==
  ASSUME Timeout <= MinUptime, MaxUptime < WordRange, TypeOK, TimeInv, [Next]_vars
  PROVE  /\ TimeInv'
         /\ PutFails \/ \A p \in Known \ Known' : uptime - heard[p] > Timeout
<1>1. /\ uptime \in 0 .. MaxUptime /\ cleanIn \in -MaxLate .. CleanInterval
      /\ heard \in [ Peer -> 0 .. MaxUptime ] /\ Known \subseteq Peer
  BY DEF TypeOK
<1>2. ASSUME NEW p \in Peer, NEW rssi \in Rssi, NEW kept \in SUBSET Known,
             NoMemory(p, rssi, kept)
      PROVE  TimeInv' /\ PutFails
  <2>1. /\ Known' \subseteq Known /\ \A q \in Known' : table'[q] = table[q]
        /\ UNCHANGED << uptime, wraps, cleanIn, heard >>
    BY <1>2, NoMemoryTable
  <2>2. TimeInv'
    BY <2>1 DEF TimeInv, NoOverflow
  <2>3. QED
    BY <1>2, <2>2 DEF PutFails
<1>3. ASSUME NEW p \in Peer, NEW rssi \in Rssi, NEW isMif \in BOOLEAN,
             NEW version \in {"none", "empty", "given"}, NEW wellFormed \in BOOLEAN,
             NEW fails \in BOOLEAN, RxAction(p, rssi, isMif, version, wellFormed, fails)
      PROVE  TimeInv' /\ \A q \in Known \ Known' : uptime - heard[q] > Timeout
  <2>1. /\ Known' = Known \cup {p} /\ table'[p].last_update = uptime
        /\ \A q \in Known \ {p} : table'[q] = table[q]
    BY <1>3, RxActionTable, ExpiredFacts
  <2>2. heard' = [ heard EXCEPT ![p] = uptime ] /\ UNCHANGED << uptime, wraps, cleanIn >>
    BY <1>3 DEF RxAction
  <2>3. heard'[p] = uptime /\ \A q \in Known \ {p} : heard'[q] = heard[q]
    BY <1>1, <2>2
  <2>4. uptime - uptime <= Timeout + CleanInterval - cleanIn
    BY <1>1, Constants
  <2>5. QED
    BY <1>1, <2>1, <2>2, <2>3, <2>4 DEF TimeInv, NoOverflow
<1>4. ASSUME NEW lost \in SUBSET Peer, CleanPeers(lost)
      PROVE  TimeInv' /\ \A q \in Known \ Known' : uptime - heard[q] > Timeout
  <2>1. Known' = Known \ Expired /\ \A q \in Known' : table'[q] = table[q]
    BY <1>4, CleanPeersTable
  <2>2. cleanIn' = CleanInterval /\ UNCHANGED << uptime, wraps, heard >>
    BY <1>4 DEF CleanPeers
  <2>3. \A q \in Known : q \in Expired <=> uptime - heard[q] > Timeout
    BY ExpiredFacts
  <2>4. \A q \in Known' : uptime - heard[q] <= Timeout + CleanInterval - CleanInterval
    BY <1>1, <2>1, <2>3, Constants
  <2>5. QED
    BY <2>1, <2>2, <2>3, <2>4 DEF TimeInv, NoOverflow
<1>5. CASE Tick
  <2>1. /\ uptime' = uptime + 1 /\ cleanIn' = cleanIn - 1
        /\ UNCHANGED << wraps, table, heard >> /\ Known' = Known
    BY <1>5 DEF Tick, Known
  <2>2. ASSUME NEW q \in Known'
        PROVE  /\ table'[q].last_update = heard'[q]
               /\ heard'[q] <= uptime'
               /\ uptime' - heard'[q] <= Timeout + CleanInterval - cleanIn'
    <3>1. /\ heard'[q] = heard[q] /\ table'[q].last_update = heard[q]
          /\ heard[q] \in Int /\ heard[q] <= uptime
          /\ uptime - heard[q] <= Timeout + CleanInterval - cleanIn
      BY <1>1, <2>1 DEF TimeInv
    <3>2. /\ heard[q] <= uptime'
          /\ uptime' - heard[q] <= Timeout + CleanInterval - cleanIn'
      BY <1>1, <2>1, <3>1, Constants
    <3>3. QED
      BY <3>1, <3>2
  <2>3. MinUptime <= uptime'
    BY <1>1, <2>1, Constants DEF TimeInv
  <2>4. NoOverflow'
    BY <2>1 DEF TimeInv, NoOverflow
  <2>5. QED
    BY <2>1, <2>2, <2>3, <2>4 DEF TimeInv
<1>6. CASE UNCHANGED vars
  BY <1>6 DEF vars, TimeInv, NoOverflow, Known
<1>7. QED
  BY <1>2, <1>3, <1>4, <1>5, <1>6 DEF Next

(* As long as the clock does not overflow, no peer stays in the table for  *)
(* longer than the timeout, a clean interval and the lateness of the timer *)
(* after the last frame that was accepted from him.                        *)
THEOREM SilentRemoved ==
  ASSUME Timeout <= MinUptime, MaxUptime < WordRange
  PROVE  Spec /\ NoOverflow => []SilentIsRemoved
<1>1. Init /\ NoOverflow => TimeInv
  BY TimeInit
<1>2. TypeOK /\ TimeInv /\ [Next]_vars => TimeInv'
  BY TimeStep
<1>3. TypeOK /\ TimeInv => SilentIsRemoved
  <2>1. ASSUME TypeOK, TimeInv, NEW p \in Known
        PROVE  uptime - heard[p] <= Timeout + CleanInterval + MaxLate
    <3>1. /\ cleanIn \in -MaxLate .. CleanInterval /\ uptime \in Int /\ heard[p] \in Int
          /\ uptime - heard[p] <= Timeout + CleanInterval - cleanIn
      BY <2>1 DEF TypeOK, TimeInv
    <3>2. QED
      BY <3>1, Constants
  <2>2. QED
    BY <2>1 DEF SilentIsRemoved
<1>4. QED
  BY <1>1, <1>2, <1>3, TableTypeCorrect, PTL DEF Spec

(* As long as the clock does not overflow, nobody who was heard within the *)
(* timeout is removed (peers.h:65), except by a put that runs out of       *)
(* memory: neither the cleanup nor a frame of anybody else does it.        *)
THEOREM NobodyElseRemoved ==
  ASSUME Timeout <= MinUptime, MaxUptime < WordRange
  PROVE  Spec /\ NoOverflow => RemovedWasSilent
<1>1. Init /\ NoOverflow => TimeInv
  BY TimeInit
<1>2. TypeOK /\ TimeInv /\ [Next]_vars => TimeInv'
  BY TimeStep
<1>3. TypeOK /\ TimeInv /\ [Next]_vars
        => [ \/ \A p \in Known \ DOMAIN table' : uptime - heard[p] > Timeout
             \/ PutFails ]_vars
  BY TimeStep DEF Known
<1>4. QED
  BY <1>1, <1>2, <1>3, TableTypeCorrect, PTL DEF Spec, RemovedWasSilent
=============================================================================
