----------------------------- MODULE PeerTable -----------------------------
(***************************************************************************)
(* The peer table (peers.c), fed by received action frames (rx.c) and      *)
(* emptied by the cleanup timer (core.c), and the kernel's neighbour table *)
(* that mirrors its valid peers through netlink (netutils.c).              *)
(*                                                                         *)
(* Time is counted in units of which a second has Second.  Every           *)
(* last_update is a reading of clock_time_us(), whose arithmetic is        *)
(* modelled with the widths of the build: long has 32 bits, uint64_t more. *)
(***************************************************************************)
EXTENDS Integers

CONSTANTS
  Peer,
  Second,            \* 1000000 in the code
  Timeout,           \* PEERS_DEFAULT_TIMEOUT
  CleanInterval,     \* PEERS_DEFAULT_CLEAN_INTERVAL
  LongRange,         \* number of values of a long (2^32)
  WordRange,         \* number of values of a uint64_t
  RssiThreshold,     \* RSSI_THRESHOLD_DEFAULT
  RssiGrace,         \* RSSI_GRACE_DEFAULT, negative
  Rssi,              \* the signal strengths frames arrive with
  MinUptime,         \* bound: uptime of the device when the daemon starts
  MaxUptime,         \* bound: uptime at which the model ends
  MaxLate,           \* bound: how late the cleanup timer may fire
  MaxFailures        \* bound: failed netlink and memory requests

ASSUME TableAssumption ==
  /\ {Second, Timeout, CleanInterval} \subseteq Nat \ {0}
  /\ {MinUptime, MaxUptime, MaxLate, MaxFailures} \subseteq Nat
  /\ LongRange \in Nat \ {0} /\ LongRange % 2 = 0
  /\ WordRange \in Nat /\ LongRange < WordRange
  /\ RssiThreshold \in Int /\ RssiGrace \in Int /\ Rssi \subseteq Int

VARIABLES
  uptime,    \* the time since boot, which the clock is read from
  wraps,     \* what the build does on overflow of a long, see Clock
  table,     \* the entries, for the peers that are in the table
  kernel,    \* the peers with an entry in the kernel's neighbour table
  cleanIn,   \* time until the cleanup timer fires
  heard,     \* history: uptime at which the last frame of a peer was accepted
  desynced,  \* history: peers whose last netlink request failed
  orphans,   \* history: peers lost as valid, with no netlink request since
  failures

vars == << uptime, wraps, table, kernel, cleanIn, heard, desynced, orphans, failures >>

(* The product tv_sec * 1000000 is computed as a long.  Its overflow is    *)
(* undefined: the build may wrap around and extend the sign, or compute    *)
(* the product in a wider register.                                        *)
AsLong(n) == LET m == n % LongRange
             IN  IF m < LongRange \div 2 THEN m ELSE m - LongRange

(* Fault: nanoseconds are added to microseconds. *)
ClockInNanoseconds == uptime - (uptime % Second) + 1000 * (uptime % Second)

Clock ==
  LET seconds == (uptime \div Second) * Second
  IN  ((IF wraps THEN AsLong(seconds) ELSE seconds) + (uptime % Second)) % WordRange

Known == DOMAIN table

NewEntry ==
  [ last_update |-> 0, described |-> FALSE, sent_mif |-> FALSE, is_valid |-> FALSE ]

(* A peer is valid once it has told its version and device class and sent  *)
(* a master indication frame (MIF).                                        *)
Complete(e) == e.sent_mif /\ e.described

With(t, p, e) == [ q \in DOMAIN t \cup {p} |-> IF q = p THEN e ELSE t[q] ]
-----------------------------------------------------------------------------
(* Fault: a peer counts as valid only as long as its last frame says so. *)
AddedForNow(e) == [ e EXCEPT !.last_update = Clock, !.is_valid = Complete(e) ]

(* Fault: a known peer is not refreshed. *)
AddedOnce(e) ==
  [ e EXCEPT !.last_update = IF @ = 0 THEN Clock ELSE @,
             !.is_valid = @ \/ Complete(e) ]

(* peer_add, without its callback: the entry after the update. *)
Added(e) ==
  [ e EXCEPT !.last_update = Clock, !.is_valid = @ \/ Complete(e) ]

(* The frame's TLVs, applied in order until one of them is malformed: it   *)
(* may leave a version TLV applied.  version is "none" if no version TLV   *)
(* is reached, else whether it holds a version and a device class.         *)
Parsed(e, version) ==
  IF version = "none" THEN e ELSE [ e EXCEPT !.described = version = "given" ]

(* rx_action: a frame that cannot be parsed to its end keeps the peer in   *)
(* the table but does not count as a MIF.                                  *)
Received(e, isMif, version, wellFormed) ==
  LET parsed == Parsed(Added(e), version)
  IN  IF ~wellFormed THEN parsed
      ELSE Added([ parsed EXCEPT !.sent_mif = @ \/ isMif ])

PassesFilter(p, rssi) ==
  rssi >= IF p \in Known THEN RssiThreshold + RssiGrace ELSE RssiThreshold

(* A netlink request about the peers of P, of which those of lost fail.    *)
(* Nothing notices and nothing is tried again.                             *)
Netlink(P, lost, effect) ==
  /\ kernel' = effect
  /\ desynced' = (desynced \ P) \cup lost
  /\ orphans' = orphans \ P

RxAction(p, rssi, isMif, version, wellFormed, fails) ==
  /\ PassesFilter(p, rssi)
  /\ fails => failures < MaxFailures
  /\ LET old == IF p \in Known THEN table[p] ELSE NewEntry
         new == Received(old, isMif, version, wellFormed)
         turnsValid == new.is_valid /\ ~old.is_valid
     IN  /\ fails => turnsValid
         /\ table' = With(table, p, new)
         /\ IF turnsValid
              THEN IF fails THEN Netlink({p}, {p}, kernel)
                            ELSE Netlink({p}, {}, kernel \cup {p})
              ELSE UNCHANGED << kernel, desynced, orphans >>
  /\ heard' = [ heard EXCEPT ![p] = uptime ]
  /\ failures' = IF fails THEN failures + 1 ELSE failures
  /\ UNCHANGED << uptime, wraps, cleanIn >>

(* The put of a new peer runs out of memory: the frame is ignored.  If it  *)
(* is a rehash that fails half-way, the larger table is in force already,  *)
(* and of the other peers it has those of kept only; nobody is told.       *)
NoMemory(p, rssi, kept) ==
  /\ p \notin Known
  /\ PassesFilter(p, rssi)
  /\ failures < MaxFailures
  /\ failures' = failures + 1
  /\ kept \subseteq Known
  /\ table' = [ q \in kept |-> table[q] ]
  /\ orphans' = orphans \cup { q \in Known \ kept : table[q].is_valid }
  /\ UNCHANGED << uptime, wraps, kernel, cleanIn, heard, desynced >>

(* Fault: valid peers are kept. *)
ExpiredInvalid ==
  { p \in Known : /\ table[p].last_update < (Clock - Timeout) % WordRange
                  /\ ~table[p].is_valid }

(* clean_peers: last_update < cutoff, in unsigned arithmetic. *)
Expired ==
  { p \in Known : table[p].last_update < (Clock - Timeout) % WordRange }

CleanPeers(lost) ==
  LET valid == { p \in Expired : table[p].is_valid }
  IN  /\ cleanIn <= 0
      /\ lost \subseteq valid
      /\ lost # {} => failures < MaxFailures
      /\ table' = [ p \in Known \ Expired |-> table[p] ]
      /\ Netlink(valid, lost, kernel \ (valid \ lost))
      /\ cleanIn' = CleanInterval
      /\ failures' = IF lost # {} THEN failures + 1 ELSE failures
      /\ UNCHANGED << uptime, wraps, heard >>

Tick ==
  /\ uptime < MaxUptime
  /\ cleanIn > -MaxLate
  /\ uptime' = uptime + 1
  /\ cleanIn' = cleanIn - 1
  /\ UNCHANGED << wraps, table, kernel, heard, desynced, orphans, failures >>

Init ==
  /\ uptime \in MinUptime .. MaxUptime
  /\ wraps \in BOOLEAN
  /\ table = << >>
  /\ kernel = {}
  /\ cleanIn = CleanInterval
  /\ heard = [ p \in Peer |-> 0 ]
  /\ desynced = {}
  /\ orphans = {}
  /\ failures = 0

Next ==
  \/ \E p \in Peer, rssi \in Rssi :
       \/ \E kept \in SUBSET Known : NoMemory(p, rssi, kept)
       \/ \E isMif, wellFormed, fails \in BOOLEAN,
             version \in {"none", "empty", "given"} :
            RxAction(p, rssi, isMif, version, wellFormed, fails)
  \/ \E lost \in SUBSET Peer : CleanPeers(lost)
  \/ Tick

Spec == Init /\ [][Next]_vars

-----------------------------------------------------------------------------
Entry ==
  [ last_update : 0 .. WordRange - 1, described : BOOLEAN,
    sent_mif : BOOLEAN, is_valid : BOOLEAN ]

TypeOK ==
  /\ uptime \in 0 .. MaxUptime
  /\ wraps \in BOOLEAN
  /\ Known \subseteq Peer /\ \A p \in Known : table[p] \in Entry
  /\ {kernel, desynced, orphans} \subseteq SUBSET Peer
  /\ cleanIn \in -MaxLate .. CleanInterval
  /\ heard \in [ Peer -> 0 .. MaxUptime ]
  /\ failures \in 0 .. MaxFailures

(* Except for peers about whom a netlink request failed, the kernel knows  *)
(* every valid peer, and of the others only those that a failed rehash     *)
(* took out of the table without a word (hashmap.c:126): every other way   *)
(* into and out of the table makes the callback once.                      *)
KernelMirrorsTable ==
  \A p \in Peer \ desynced :
    LET valid == p \in Known /\ table[p].is_valid
    IN  /\ valid => p \in kernel
        /\ p \in kernel => valid \/ p \in orphans

(* A peer that has left is removed, and its route with it, when the        *)
(* timeout and one clean interval have passed.                             *)
SilentIsRemoved ==
  \A p \in Known : uptime - heard[p] <= Timeout + CleanInterval + MaxLate

(* Only a peer that has not been heard for longer than the timeout is      *)
(* removed (peers.h:65), unless a put runs out of memory, which may take   *)
(* any peer with it.                                                       *)
PutFails == \E p \in Peer, rssi \in Rssi, kept \in SUBSET Known : NoMemory(p, rssi, kept)

RemovedWasSilent ==
  [][ \/ \A p \in Known \ DOMAIN table' : uptime - heard[p] > Timeout
      \/ PutFails ]_vars
=============================================================================
