------------------------------- MODULE TxPath -------------------------------
(***************************************************************************)
(* The transmit path of the daemon (core.c, schedule.c): frames the host   *)
(* writes to the virtual interface wait for the time slots in which their  *)
(* destination listens.                                                    *)
(*                                                                         *)
(* Three libev callbacks share the state: host_device_ready, called when   *)
(* the interface is readable or a callback has fed its event, and the two  *)
(* one-shot timers tx_timer (unicast) and tx_mcast_timer.  Callbacks do    *)
(* not interrupt each other; their order is open, and a timer may be late. *)
(*                                                                         *)
(* Time is the position in the channel sequence, in units of which a slot  *)
(* (an extended availability window, 64 TU) has SlotLen.                   *)
(***************************************************************************)
EXTENDS Integers, FiniteSets, SequencesExt

CONSTANTS
  Slots,          \* APPLE_P2P_CHANSEQ_LENGTH
  SlotLen,        \* presence_mode * aw_period, and the 64 TU of the code
  MulticastSlots, \* slots 0 and 10 of 16 in the code
  MulticastGuard, \* APPLE_P2P_MULTICAST_GUARD_TU
  UnicastGuard,   \* APPLE_P2P_UNICAST_GUARD_TU
  Capacity,       \* of tx_queue_multicast
  Peer,           \* other nodes that frames may be for
  Meetings,       \* the sets of slots in which a peer may be on our channel
  MaxLate,        \* bound: how late a timer may fire
  MaxFrames,      \* bound: frames the host writes
  MaxChanges      \* bound: changes of peers and of the clock

ASSUME TxAssumption ==
  /\ Slots \in Nat \ {0}
  /\ MulticastSlots \subseteq 0 .. Slots - 1
  /\ Meetings \subseteq SUBSET (0 .. Slots - 1)
  /\ {SlotLen, MulticastGuard, UnicastGuard, Capacity} \subseteq Nat \ {0}
  /\ 2 * UnicastGuard < SlotLen /\ 2 * MulticastGuard < SlotLen
  /\ {MaxLate, MaxFrames, MaxChanges} \subseteq Nat

VARIABLES
  now,       \* position in the channel sequence
  host,      \* frames readable on the virtual interface
  next,      \* state->next: at most one unicast frame that waits to be sent
  mcast,     \* tx_queue_multicast
  ucTimer,   \* time until tx_timer fires, Off when it is stopped
  mcTimer,   \* the same for tx_mcast_timer
  fed,       \* the event of read_host has been fed
  sent,      \* frames given to the radio, in order
  gone,      \* frames returned to the host or dropped, in order
  meets,     \* meets[p]: the slots in which p is on our channel; for peers only
  written,   \* number of frames the host has written
  changes    \* changes so far

tx == << host, next, mcast, ucTimer, mcTimer, fed, sent, gone >>
vars == << now, tx, meets, written, changes >>

Q == INSTANCE BoundedQueue WITH
       Item <- Nat, NoItem <- 0, queue <- mcast, ret <- 0

Cycle == Slots * SlotLen
Off == -(MaxLate + 1)

Group == "group"   \* any multicast destination
Self == "self"

Frame == [ id : 1 .. MaxFrames, dst : Peer \cup {Group, Self} ]
NoFrame == [ id |-> 0, dst |-> Group ]

SlotAt(t) == (t % Cycle) \div SlotLen
NextAw == SlotLen - (now % SlotLen)

IsMulticastEaw == SlotAt(now) \in MulticastSlots
SameChannel(p, t) == SlotAt(t) \in meets[p]

(* Fault: the guard at the end of a slot is forgotten. *)
CanSendInToTheEnd(guard) ==
  IF SlotLen - NextAw < guard THEN guard - (SlotLen - NextAw) ELSE 0

(* How long to wait at the edges of a slot: negative at its end.           *)
CanSendIn(guard) ==
  IF NextAw < guard THEN -(guard - NextAw)
  ELSE IF SlotLen - NextAw < guard THEN guard - (SlotLen - NextAw)
  ELSE 0

CanSendUnicastIn(p) ==
  LET in == CanSendIn(UnicastGuard)
      neighbour == IF in < 0 THEN now + SlotLen ELSE now + Cycle - SlotLen
  IN  IF ~SameChannel(p, now) THEN NextAw
      ELSE IF in # 0 /\ SameChannel(p, neighbour) THEN 0
      ELSE in

(* Fault: the guard is waited for in every case. *)
RetryAlwaysLater(in, guard) == IF in < 0 THEN -in + guard ELSE in + guard

(* The callers' delay until the next attempt after one at the edge. *)
Retry(in, guard) == IF in < 0 THEN -in + guard ELSE in

-----------------------------------------------------------------------------
(* The callbacks call each other, so they are functions on what they       *)
(* change together.                                                        *)
Current ==
  [ host |-> host, next |-> next, mcast |-> mcast, ucTimer |-> ucTimer,
    mcTimer |-> mcTimer, fed |-> fed, sent |-> sent, gone |-> gone ]

Become(result) == \E s \in { result } :
  /\ host' = s.host       /\ next' = s.next
  /\ mcast' = s.mcast     /\ ucTimer' = s.ucTimer
  /\ mcTimer' = s.mcTimer /\ fed' = s.fed
  /\ sent' = s.sent       /\ gone' = s.gone

(* Fault: the timer is started again only after a frame was sent. *)
SendMulticastOnce(s) ==
  LET ready == /\ s.mcast # << >> /\ IsMulticastEaw
               /\ CanSendIn(MulticastGuard) = 0
      left == IF ready THEN Tail(s.mcast) ELSE s.mcast
  IN  [ s EXCEPT !.mcast = left,
                 !.sent = IF ready THEN Append(@, Head(s.mcast)) ELSE @,
                 !.mcTimer = IF ready /\ left # << >> THEN 0 ELSE @,
                 !.fed = @ \/ left = << >> ]

(* Fault: the newest frame of the queue is taken. *)
SendMulticastNewest(s) ==
  LET in == CanSendIn(MulticastGuard)
      ready == s.mcast # << >> /\ IsMulticastEaw /\ in = 0
      left == IF ready THEN Front(s.mcast) ELSE s.mcast
      delay == IF ready THEN 0
               ELSE IF in = 0 THEN SlotLen ELSE Retry(in, MulticastGuard)
  IN  [ s EXCEPT !.mcast = left,
                 !.sent = IF ready THEN Append(@, Last(s.mcast)) ELSE @,
                 !.mcTimer = IF left # << >> THEN delay ELSE @,
                 !.fed = @ \/ left = << >> ]

SendMulticast(s) ==
  LET in == CanSendIn(MulticastGuard)
      ready == s.mcast # << >> /\ IsMulticastEaw /\ in = 0
      left == IF ready THEN Tail(s.mcast) ELSE s.mcast
      delay == IF ready THEN 0
               ELSE IF in = 0 THEN SlotLen ELSE Retry(in, MulticastGuard)
  IN  [ s EXCEPT !.mcast = left,
                 !.sent = IF ready THEN Append(@, Head(s.mcast)) ELSE @,
                 !.mcTimer = IF left # << >> THEN delay ELSE @,
                 !.fed = @ \/ left = << >> ]

(* Fault: a frame to somebody who is no peer is kept until he is one. *)
SendUnicastToPeersOnly(s) ==
  LET dst == s.next.dst
      in == IF dst \in DOMAIN meets THEN CanSendUnicastIn(dst) ELSE SlotLen
  IN  IF s.next = NoFrame THEN [ s EXCEPT !.fed = TRUE ]
      ELSE IF in = 0
        THEN [ s EXCEPT !.sent = Append(@, s.next), !.next = NoFrame, !.fed = TRUE ]
      ELSE [ s EXCEPT !.ucTimer = Retry(in, UnicastGuard) ]

SendUnicast(s) ==
  LET dst == s.next.dst
      in == CanSendUnicastIn(dst)
      done(t) == [ t EXCEPT !.next = NoFrame, !.fed = TRUE ]
  IN  IF s.next = NoFrame THEN [ s EXCEPT !.fed = TRUE ]
      ELSE IF dst = Self \/ dst \notin DOMAIN meets THEN done([ s EXCEPT !.gone = Append(@, s.next) ])
      ELSE IF in = 0 THEN done([ s EXCEPT !.sent = Append(@, s.next) ])
      ELSE [ s EXCEPT !.ucTimer = Retry(in, UnicastGuard) ]

(* Fault: a full queue does not stop the reading. *)
PolledPastFull(s) ==
  LET stop(k) == \/ s.next # NoFrame
                 \/ k = Len(s.host)
                 \/ k > 0 /\ s.host[k].dst # Group
      count == CHOOSE k \in 0 .. Len(s.host) :
                 stop(k) /\ \A j \in 0 .. k - 1 : ~stop(j)
      read == SubSeq(s.host, 1, count)
      isUnicast == count > 0 /\ read[count].dst # Group
      group == IF isUnicast THEN Front(read) ELSE read
  IN  [ s EXCEPT !.host = SubSeq(@, count + 1, Len(@)),
                 !.next = IF isUnicast THEN read[count] ELSE @,
                 !.mcast = Q!PushedAll(@, group) ]

(* poll_host_device reads until a unicast frame is found, the multicast    *)
(* queue is full or nothing is left to read.                               *)
Polled(s) ==
  LET stop(k) == \/ s.next # NoFrame
                 \/ k = Len(s.host)
                 \/ k > 0 /\ s.host[k].dst # Group
                 \/ Len(s.mcast) + k >= Capacity
      count == CHOOSE k \in 0 .. Len(s.host) :
                 stop(k) /\ \A j \in 0 .. k - 1 : ~stop(j)
      read == SubSeq(s.host, 1, count)
      isUnicast == count > 0 /\ read[count].dst # Group
      group == IF isUnicast THEN Front(read) ELSE read
  IN  [ s EXCEPT !.host = SubSeq(@, count + 1, Len(@)),
                 !.next = IF isUnicast THEN read[count] ELSE @,
                 !.mcast = Q!PushedAll(@, group) ]

HostDeviceReady ==
  /\ fed \/ host # << >>
  /\ \E polled \in { Polled([ Current EXCEPT !.fed = FALSE ]) } :
     \E multicast \in { IF polled.mcast # mcast THEN SendMulticast(polled) ELSE polled } :
       Become(IF polled.next # next THEN SendUnicast(multicast) ELSE multicast)
  /\ UNCHANGED << now, meets, written, changes >>

(* A one-shot timer has stopped when its callback runs. *)
UnicastTimer ==
  /\ ucTimer # Off /\ ucTimer <= 0
  /\ Become(SendUnicast([ Current EXCEPT !.ucTimer = Off ]))
  /\ UNCHANGED << now, meets, written, changes >>

MulticastTimer ==
  /\ mcTimer # Off /\ mcTimer <= 0
  /\ Become(SendMulticast([ Current EXCEPT !.mcTimer = Off ]))
  /\ UNCHANGED << now, meets, written, changes >>

Elapsed(timer) == IF timer = Off THEN Off ELSE timer - 1

(* Time passes; no timer is later than MaxLate. *)
Tick ==
  /\ -MaxLate \notin {ucTimer, mcTimer}
  /\ now' = (now + 1) % Cycle
  /\ ucTimer' = Elapsed(ucTimer)
  /\ mcTimer' = Elapsed(mcTimer)
  /\ UNCHANGED << host, next, mcast, fed, sent, gone, meets, written, changes >>

(* The host writes a frame to the virtual interface. *)
Write(dst) ==
  /\ written < MaxFrames
  /\ written' = written + 1
  /\ host' = Append(host, [ id |-> written + 1, dst |-> dst ])
  /\ UNCHANGED << now, next, mcast, ucTimer, mcTimer, fed, sent, gone, meets, changes >>

Change ==
  /\ changes < MaxChanges
  /\ changes' = changes + 1
  /\ UNCHANGED << tx, written >>

(* An action frame makes p a peer or tells of a new channel sequence.      *)
Learn(p, slots) ==
  /\ Change
  /\ meets' = [ q \in DOMAIN meets \cup {p} |-> IF q = p THEN slots ELSE meets[q] ]
  /\ UNCHANGED now

Without(p) == [ q \in DOMAIN meets \ {p} |-> meets[q] ]

(* p leaves and is removed from the peer table. *)
Leave(p) ==
  /\ p \in DOMAIN meets
  /\ Change
  /\ meets' = Without(p)
  /\ UNCHANGED now

(* A peer that is never on our channel is not heard any more, and the      *)
(* cleanup timer removes it.                                               *)
Expire(p) ==
  /\ p \in DOMAIN meets
  /\ meets[p] = {}
  /\ meets' = Without(p)
  /\ UNCHANGED << now, tx, written, changes >>

(* The sync parameters of the master move the clock (sync.c). *)
Resync(t) ==
  /\ Change
  /\ now' = t
  /\ UNCHANGED meets

Init ==
  /\ now = 0
  /\ host = << >> /\ next = NoFrame /\ mcast = << >>
  /\ ucTimer = 0 /\ mcTimer = 0 /\ fed = FALSE
  /\ sent = << >> /\ gone = << >>
  /\ meets = << >>
  /\ written = 0 /\ changes = 0

Next ==
  \/ HostDeviceReady \/ UnicastTimer \/ MulticastTimer
  \/ Tick
  \/ \E dst \in Peer \cup {Group, Self} : Write(dst)
  \/ \E p \in Peer : Leave(p) \/ Expire(p) \/ \E slots \in Meetings : Learn(p, slots)
  \/ \E t \in 0 .. Cycle - 1 : Resync(t)

Spec == Init /\ [][Next]_vars

(* The event loop runs every callback that is due, time goes on, and a     *)
(* peer that shares no slot with us is not heard again.                    *)
FairSpec ==
  /\ Spec
  /\ WF_vars(HostDeviceReady)
  /\ WF_vars(UnicastTimer)
  /\ WF_vars(MulticastTimer)
  /\ WF_vars(Tick)
  /\ \A p \in Peer : WF_vars(Expire(p))

-----------------------------------------------------------------------------
Timer == Off .. SlotLen

TypeOK ==
  /\ now \in 0 .. Cycle - 1
  /\ \A q \in {host, mcast, sent, gone} : Range(q) \subseteq Frame
  /\ Len(mcast) <= Capacity
  /\ next \in Frame \cup {NoFrame}
  /\ ucTimer \in Timer /\ mcTimer \in Timer /\ fed \in BOOLEAN
  /\ DOMAIN meets \subseteq Peer /\ Range(meets) \subseteq Meetings
  /\ written \in 0 .. MaxFrames /\ changes \in 0 .. MaxChanges

(* A frame that waits has a timer that will look at it again: neither a    *)
(* callback that takes over from the other nor one that finds nothing to   *)
(* do leaves a frame behind without one.                                   *)
NoFrameStranded ==
  /\ next # NoFrame => ucTimer # Off
  /\ mcast # << >> => mcTimer # Off

(* Every frame the host wrote is in exactly one place: the queue is never  *)
(* overwritten, nothing is sent twice or forgotten.                        *)
EveryFrameOnce ==
  LET all == host \o mcast \o sent \o gone
               \o IF next = NoFrame THEN << >> ELSE << next >>
  IN  /\ Len(all) = written
      /\ Cardinality({ all[i].id : i \in DOMAIN all }) = written

(* Frames of the same kind leave in the order in which they were written.  *)
SentInOrder ==
  \A i, j \in DOMAIN sent :
    i < j /\ (sent[i].dst = Group <=> sent[j].dst = Group) => sent[i].id < sent[j].id

(* A frame goes out only while its receivers listen: multicast frames in a *)
(* multicast slot, unicast frames in a slot that the peer shares, both     *)
(* clear of the edges of the slot unless the peer stays on the channel.    *)
Clear(guard) == now % SlotLen \in guard .. SlotLen - guard

InWindow(f) ==
  IF f.dst = Group
    THEN SlotAt(now) \in MulticastSlots /\ Clear(MulticastGuard)
    ELSE LET with == meets[f.dst]
         IN  /\ SlotAt(now) \in with
             /\ \/ Clear(UnicastGuard)
                \/ now % SlotLen < UnicastGuard /\ (SlotAt(now) - 1) % Slots \in with
                \/ now % SlotLen > SlotLen - UnicastGuard /\ (SlotAt(now) + 1) % Slots \in with

SentInWindow ==
  [][ \A i \in DOMAIN sent' \ DOMAIN sent : InWindow(sent'[i]) ]_vars

(* Whatever the host writes leaves in the end: again and again there is    *)
(* nothing that has been written and waits.  The timers hit the slots they *)
(* aim at, and no frame waits for ever behind another.                     *)
EveryFrameLeaves == []<>(Len(sent) + Len(gone) = written)
=============================================================================
