-------------------------------- MODULE Sync --------------------------------
(***************************************************************************)
(* The synchronised clock (sync.c): every node counts availability windows *)
(* from a moment its local clock showed, and moves that moment when its    *)
(* parent in the synchronisation tree announces its own count (tx.c,       *)
(* rx.c).  The slots of the channel sequence (schedule.c) and the timers   *)
(* of the daemon (core.c) run by this clock.                               *)
(*                                                                         *)
(* Time is counted in microseconds of which a TU has TuUs.  All arithmetic *)
(* has the widths of the code; local clocks run equally fast, but each     *)
(* from its own beginning.                                                 *)
(***************************************************************************)
EXTENDS Integers

CONSTANTS
  Node,
  TuUs,          \* microseconds in a TU, 1024 in the code
  AwPeriod,      \* TUs in an availability window, 16
  PresenceMode,  \* windows in an extended window (EAW), 4
  Slots,         \* APPLE_P2P_CHANSEQ_LENGTH, 16
  Sequence,      \* the channel of every slot, 0 for none
  AwRange,       \* number of values of the window counter, 2^16
  LongRange,     \* number of values of an unsigned long, 2^32
  WordRange,     \* number of values of a uint64_t
  Threshold,     \* APPLE_P2P_SYNC_THRESHOLD
  Booted,        \* bound: the local clocks at first
  StartTimes,    \* bound: the times after which daemons may start
  MaxDelay,      \* bound: time from the sending of a frame to its callback
  MaxLate,       \* bound: how late a timer may fire
  MaxSyncs       \* bound: adjustments of clocks

EawTu == PresenceMode * AwPeriod
EawUs == EawTu * TuUs
Cycle == (AwRange \div PresenceMode) * EawUs   \* until the counter wraps

ASSUME SyncAssumption ==
  /\ {TuUs, AwPeriod, Slots, AwRange} \subseteq Nat \ {0}
  /\ PresenceMode = 4   \* UpdateLast clears two bits of the counter
  /\ Sequence \in [ 0 .. Slots - 1 -> Nat ]
  /\ AwRange % (PresenceMode * Slots) = 0
  /\ LongRange \in Nat \ {0} /\ LongRange % Cycle = 0
  /\ WordRange \in Nat \ {0} /\ WordRange % LongRange = 0
  /\ Booted \in [ Node -> 0 .. WordRange - 1 ]
  /\ StartTimes \in [ Node -> SUBSET Nat ]
  /\ {Threshold, MaxDelay, MaxLate, MaxSyncs} \subseteq Nat

VARIABLES
  now,         \* now[n]: clock_time_us() of n
  up,          \* the nodes whose daemon has started
  last_update,
  aw_counter,
  meas_total,
  meas_err,
  master,      \* the parent of n in the synchronisation tree, n itself for a root
  current,     \* channel.current
  mifIn,       \* time until mif_timer fires
  air,         \* the frames under way, one for each receiver
  free,        \* history: what the clock of n would show had it never been adjusted
  origin,      \* history: the node whose free clock n follows now
  hops,        \* history: the number of nodes it came through
  shifted,     \* history: adjusted since the MIF timer was set
  syncs        \* adjustments so far, of all clocks

clock == << last_update, aw_counter, meas_total, meas_err >>
timers == << current, mifIn, shifted >>
history == << origin, hops >>
vars == << now, up, clock, master, timers, air, free, history, syncs >>
-----------------------------------------------------------------------------
Elapsed(n) == (now[n] - last_update[n]) % WordRange

(* ieee80211_usec_to_tu takes an unsigned long. *)
ElapsedTu(n) == (Elapsed(n) % LongRange) \div TuUs

NextAwTu(n) == EawTu - (ElapsedTu(n) % EawTu)
NextAwUs(n) == EawUs - (Elapsed(n) % EawUs)

(* Fault: every extended window counts as one window. *)
CurrentAwSlow(n) ==
  (aw_counter[n] + (ElapsedTu(n) % EawTu) \div AwPeriod + ElapsedTu(n) \div EawTu) % AwRange

(* Fault: the counter is not reduced to its width. *)
CurrentAwWide(n) ==
  aw_counter[n] + (ElapsedTu(n) % EawTu) \div AwPeriod
    + PresenceMode * (ElapsedTu(n) \div EawTu)

CurrentAw(n) ==
  ( aw_counter[n] + (ElapsedTu(n) % EawTu) \div AwPeriod
      + PresenceMode * (ElapsedTu(n) \div EawTu) ) % AwRange

CurrentEaw(n) == CurrentAw(n) \div PresenceMode
Slot(n) == CurrentEaw(n) % Slots

(* The position in the cycle of the window counter that the code acts by.  *)
Position(n) == CurrentEaw(n) * EawUs + (EawUs - NextAwUs(n))

(* apple_p2p_sync_error_tu: the announced position less the own.           *)
SyncErrorTu(n, f) ==
  ((f.next_aw_seq \div PresenceMode) - CurrentEaw(n)) * EawTu
    - (f.tx_down_counter - NextAwTu(n))

(* Fault: a clock that is ahead is not counted as wrong. *)
OffOneSided(n, f) == SyncErrorTu(n, f) > Threshold

Off(n, f) == SyncErrorTu(n, f) > Threshold \/ SyncErrorTu(n, f) < -Threshold

(* What the sync parameters TLV of n says now. *)
Announcement(n) ==
  [ src |-> n, next_aw_seq |-> CurrentAw(n), tx_down_counter |-> NextAwTu(n),
    origin |-> origin[n], hops |-> hops[n] ]

Frames(n) ==
  { [ dst |-> m, age |-> 0, body |-> Announcement(n) ] : m \in up \ {n} }
-----------------------------------------------------------------------------
(* A PSF, or the part of a MIF timer's callback that sends.                *)
Announce(n) == air' = air \cup Frames(n)

(* Bound: not while a frame is under way.                                  *)
SendPsf(n) ==
  /\ air = {}
  /\ Announce(n)
  /\ UNCHANGED << now, up, clock, master, timers, free, history, syncs >>

(* Fault: half a window is counted from now, not from the next one. *)
SendMifFromNow(n) ==
  /\ mifIn[n] <= 0
  /\ IF current[n] > 0 THEN Announce(n) ELSE UNCHANGED air
  /\ mifIn' = [ mifIn EXCEPT ![n] = EawUs + (EawTu \div 2) * TuUs ]
  /\ shifted' = [ shifted EXCEPT ![n] = FALSE ]
  /\ UNCHANGED << now, up, clock, master, current, free, history, syncs >>

(* The timer is set to the middle of the next extended window.             *)
SendMif(n) ==
  /\ mifIn[n] <= 0
  /\ IF current[n] > 0 THEN Announce(n) ELSE UNCHANGED air
  /\ mifIn' = [ mifIn EXCEPT ![n] = NextAwUs(n) + (EawTu \div 2) * TuUs ]
  /\ shifted' = [ shifted EXCEPT ![n] = FALSE ]
  /\ UNCHANGED << now, up, clock, master, current, free, history, syncs >>

(* The channel timer fires at once and then with every extended window.    *)
(* Its time is not kept: the sequence of the daemon has one channel for    *)
(* all slots (state.c:41), so that only its first firing, before or after  *)
(* that of the MIF timer, changes anything.  Tick bounds how late that is. *)
SwitchChannel(n) ==
  /\ Sequence[Slot(n)] \notin {0, current[n]}
  /\ current' = [ current EXCEPT ![n] = Sequence[Slot(n)] ]
  /\ UNCHANGED << now, up, clock, master, mifIn, shifted, air, free, history, syncs >>

(* Fault: the start of the next window is taken for that of this one. *)
UpdateLastAhead(n, f) ==
  /\ last_update' = [ last_update EXCEPT ![n] =
       (now[n] + ((f.tx_down_counter * TuUs) % LongRange)) % WordRange ]
  /\ aw_counter' = [ aw_counter EXCEPT ![n] = f.next_aw_seq - (f.next_aw_seq % 4) ]

(* apple_p2p_sync_update_last: ieee80211_tu_to_usec has the width of an    *)
(* unsigned long; the counter loses its last two bits.                     *)
UpdateLast(n, f) ==
  /\ last_update' = [ last_update EXCEPT ![n] =
       (now[n] - (((EawTu - f.tx_down_counter) * TuUs) % LongRange)) % WordRange ]
  /\ aw_counter' = [ aw_counter EXCEPT ![n] = f.next_aw_seq - (f.next_aw_seq % 4) ]

(* The sync parameters of a frame are used if it comes from the parent.    *)
Adjust(n, f) ==
  /\ meas_total' = [ meas_total EXCEPT ![n] = @ + 1 ]
  /\ meas_err' = [ meas_err EXCEPT ![n] = IF Off(n, f) THEN @ + 1 ELSE @ ]
  /\ UpdateLast(n, f)
  /\ origin' = [ origin EXCEPT ![n] = f.origin ]
  /\ hops' = [ hops EXCEPT ![n] = f.hops + 1 ]
  /\ shifted' = [ shifted EXCEPT ![n] = TRUE ]

Receive(frame) ==
  LET n == frame.dst
      f == frame.body
  IN  /\ air' = air \ {frame}
      /\ IF master[n] = f.src
           THEN /\ syncs < MaxSyncs
                /\ syncs' = syncs + 1
                /\ Adjust(n, f)
           ELSE UNCHANGED << clock, shifted, history, syncs >>
      /\ UNCHANGED << now, up, master, current, mifIn, free >>

Lose(frame) ==
  /\ air' = air \ {frame}
  /\ UNCHANGED << now, up, clock, master, timers, free, history, syncs >>

(* The election of n finds another parent, or none. *)
Elect(n, m) ==
  /\ master' = [ master EXCEPT ![n] = m ]
  /\ UNCHANGED << now, up, clock, timers, air, free, history, syncs >>

(* Time passes for all nodes alike. *)
Tick ==
  /\ \A n \in up : /\ mifIn[n] > -MaxLate
                   /\ current[n] = 0 /\ Sequence[Slot(n)] # 0 => Elapsed(n) < MaxLate
  /\ \A frame \in air : frame.age < MaxDelay
  /\ now' = [ n \in Node |-> (now[n] + 1) % WordRange ]
  /\ free' = [ n \in Node |-> (free[n] + 1) % Cycle ]
  /\ mifIn' = [ n \in Node |-> IF n \in up THEN mifIn[n] - 1 ELSE 0 ]
  /\ air' = { [ frame EXCEPT !.age = @ + 1 ] : frame \in air }
  /\ UNCHANGED << up, clock, master, current, shifted, history, syncs >>

(* The daemon of n starts: its clock counts from now, it is its own master *)
(* and its timers fire at once.                                            *)
Start(n) ==
  /\ n \notin up
  /\ (now[n] - Booted[n]) % WordRange \in StartTimes[n]
  /\ up' = up \cup {n}
  /\ last_update' = [ last_update EXCEPT ![n] = now[n] ]
  /\ free' = [ free EXCEPT ![n] = 0 ]
  /\ mifIn' = [ mifIn EXCEPT ![n] = 0 ]
  /\ UNCHANGED << now, aw_counter, meas_total, meas_err, master, current, shifted, air, history,
                  syncs >>

Init ==
  /\ now = Booted
  /\ up = {}
  /\ last_update = Booted
  /\ aw_counter = [ n \in Node |-> 0 ]
  /\ meas_total = [ n \in Node |-> 0 ]
  /\ meas_err = [ n \in Node |-> 0 ]
  /\ master = [ n \in Node |-> n ]
  /\ current = [ n \in Node |-> 0 ]
  /\ mifIn = [ n \in Node |-> 0 ]
  /\ air = {}
  /\ free = [ n \in Node |-> 0 ]
  /\ origin = [ n \in Node |-> n ]
  /\ hops = [ n \in Node |-> 0 ]
  /\ shifted = [ n \in Node |-> TRUE ]
  /\ syncs = 0

Next ==
  \/ Tick
  \/ \E n \in Node : Start(n)
  \/ \E n \in up : \/ SendPsf(n) \/ SendMif(n) \/ SwitchChannel(n)
                   \/ \E m \in up : Elect(n, m)
  \/ \E frame \in air : Receive(frame) \/ Lose(frame)

Spec == Init /\ [][Next]_vars

-----------------------------------------------------------------------------
Frame ==
  [ dst : Node, age : 0 .. MaxDelay,
    body : [ src : Node, next_aw_seq : 0 .. AwRange - 1,
             tx_down_counter : 1 .. EawTu,
             origin : Node, hops : 0 .. MaxSyncs ] ]

TypeOK ==
  /\ now \in [ Node -> 0 .. WordRange - 1 ]
  /\ up \subseteq Node
  /\ last_update \in [ Node -> 0 .. WordRange - 1 ]
  /\ aw_counter \in [ Node -> 0 .. AwRange - 1 ]
  /\ meas_total \in [ Node -> 0 .. MaxSyncs ]
  /\ meas_err \in [ Node -> 0 .. MaxSyncs ]
  /\ master \in [ Node -> Node ] /\ origin \in [ Node -> Node ]
  /\ current \in [ Node -> {0} \cup { Sequence[i] : i \in DOMAIN Sequence } ]
  /\ mifIn \in [ Node -> -MaxLate .. 2 * EawUs ]
  /\ air \subseteq Frame
  /\ free \in [ Node -> 0 .. Cycle - 1 ]
  /\ hops \in [ Node -> 0 .. MaxSyncs ]
  /\ shifted \in [ Node -> BOOLEAN ]
  /\ syncs \in 0 .. MaxSyncs

(* A clock is never ahead of the one it comes from, and behind it by less  *)
(* than a TU and one delay for every node it came through: neither time,   *)
(* the overflow of any of the counters, nor a change of parents adds to    *)
(* that (sync.c:28-53, rx.c:15-39, tx.c:114-116).                          *)
Behind(n) == (free[origin[n]] - Position(n)) % Cycle

BehindByHops == \A n \in up : Behind(n) <= hops[n] * (MaxDelay + TuUs - 1)

(* A MIF is due in the middle of an extended window (core.c:181), whatever *)
(* the clock did before the timer was set.                                 *)
MifInMiddle ==
  [][ \A n \in up :
        mifIn[n] <= 0 /\ mifIn'[n] > 0 /\ ~shifted[n] =>
          (Position(n) % EawUs) - (EawTu \div 2) * TuUs \in 0 .. MaxLate ]_vars

(* Every adjustment that moves the clock by more than the threshold is     *)
(* counted as an error of synchronisation (rx.c:30).                       *)
Moved(n) == LET d == (Position(n)' - Position(n)) % Cycle
            IN  IF d > Cycle \div 2 THEN d - Cycle ELSE d

MovesAreCounted ==
  [][ \A n \in up :
        /\ meas_total'[n] # meas_total[n]
        /\ Moved(n) \notin -(Threshold + 1) * TuUs + 1 .. Threshold * TuUs
        => meas_err'[n] = meas_err[n] + 1 ]_vars
=============================================================================
