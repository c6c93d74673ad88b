---------------------------- MODULE TxPathProofs ----------------------------
(***************************************************************************)
(* Whatever the order of the callbacks, the lateness of the timers, the    *)
(* peers and the clock, the transmit path strands, loses, duplicates and   *)
(* reorders no frame, and sends each only while its receivers listen.      *)
(***************************************************************************)
EXTENDS TxPath, SequenceTheorems, FiniteSetTheorems, WellFoundedInduction, TLAPS

(* What the callbacks change together.                                     *)
State == [ host : Seq(Frame), next : Frame \cup {NoFrame}, mcast : Seq(Frame),
           ucTimer : Timer, mcTimer : Timer, fed : BOOLEAN,
           sent : Seq(Frame), gone : Seq(Frame) ]
-----------------------------------------------------------------------------
(* Every set of natural numbers that is not empty has a least element.     *)
LEMMA LeastNumber ==
  ASSUME NEW T \in SUBSET Nat, T # {}
  PROVE  \E n \in T : \A m \in T : n <= m
<1> DEFINE R == StrictSubsetOrdering(Nat)
           D == { 1 .. n : n \in T }
<1>1. IsWellFoundedOn(R, FiniteSubsetsOf(Nat))
  BY FS_StrictSubsetOrderingWellFounded
<1>2. D \subseteq FiniteSubsetsOf(Nat) /\ D # { }
  <2>1. \A n \in T : 1 .. n \in FiniteSubsetsOf(Nat)
    <3>1. ASSUME NEW n \in T PROVE IsFiniteSet(1 .. n) /\ 1 .. n \in SUBSET Nat
      BY FS_Interval
    <3>2. QED
      BY <3>1 DEF FiniteSubsetsOf
  <2>2. QED
    BY <2>1
<1>3. PICK d \in D : \A e \in D : ~(<< e, d >> \in R)
  BY <1>1, <1>2, WFMin
<1>4. PICK n \in T : d = 1 .. n
  OBVIOUS
<1>5. ASSUME NEW m \in T, m < n PROVE FALSE
  <2>1. 1 .. m \subseteq 1 .. n /\ n \in 1 .. n /\ n \notin 1 .. m
    BY <1>5
  <2>2. << 1 .. m, 1 .. n >> \in R
    BY <2>1 DEF StrictSubsetOrdering
  <2>3. QED
    BY <1>3, <1>4, <2>2
<1>6. QED
  BY <1>5

(* Sequences of frames: what they hold, and in which order.                *)
Earlier(F, G) == \A f \in F, g \in G : f.id < g.id
Increasing(q) == \A i, j \in DOMAIN q : i < j => q[i].id < q[j].id
SameKind(f, g) == f.dst = Group <=> g.dst = Group
InOrder(q) == \A i, j \in DOMAIN q : i < j /\ SameKind(q[i], q[j]) => q[i].id < q[j].id

LEMMA AppendFrame ==
  ASSUME NEW q \in Seq(Frame), NEW f \in Frame
  PROVE  /\ Append(q, f) \in Seq(Frame)
         /\ Len(Append(q, f)) = Len(q) + 1
         /\ Range(Append(q, f)) = Range(q) \cup { f }
         /\ Increasing(q) /\ Earlier(Range(q), { f }) => Increasing(Append(q, f))
         /\ Increasing(Append(q, f)) => Increasing(q) /\ Earlier(Range(q), { f })
         /\ InOrder(q) /\ (\A g \in Range(q) : SameKind(g, f) => g.id < f.id)
              => InOrder(Append(q, f))
<1> DEFINE r == Append(q, f)
<1>1. r \in Seq(Frame) /\ Len(r) = Len(q) + 1 /\ r[Len(q) + 1] = f
      /\ \A i \in 1 .. Len(q) : r[i] = q[i]
  BY AppendProperties
<1>2. DOMAIN q = 1 .. Len(q) /\ DOMAIN r = 1 .. Len(q) + 1 /\ Len(q) \in Nat
  BY <1>1
<1> HIDE DEF r
<1>3. \A i \in DOMAIN q : q[i] \in Range(q) /\ q[i] \in Frame
  BY DEF Range
<1>4. Range(r) = Range(q) \cup { f }
  <2>1. \A i \in DOMAIN r : r[i] \in Range(q) \cup { f }
    BY <1>1, <1>2, <1>3
  <2>2. \A i \in DOMAIN q : q[i] \in Range(r)
    BY <1>1, <1>2 DEF Range
  <2>3. f \in Range(r)
    BY <1>1, <1>2 DEF Range
  <2>4. QED
    BY <2>1, <2>2, <2>3 DEF Range
<1>5. Increasing(q) /\ Earlier(Range(q), { f }) => Increasing(r)
  BY <1>1, <1>2, <1>3 DEF Increasing, Earlier
<1>6. InOrder(q) /\ (\A g \in Range(q) : SameKind(g, f) => g.id < f.id) => InOrder(r)
  BY <1>1, <1>2, <1>3 DEF InOrder
<1>7. Increasing(r) => Increasing(q) /\ Earlier(Range(q), { f })
  BY <1>1, <1>2 DEF Increasing, Earlier, Range
<1>8. QED
  BY <1>1, <1>4, <1>5, <1>6, <1>7 DEF r

LEMMA ConcatFrames ==
  ASSUME NEW q \in Seq(Frame), NEW r \in Seq(Frame)
  PROVE  /\ q \o r \in Seq(Frame)
         /\ Len(q \o r) = Len(q) + Len(r)
         /\ Range(q \o r) = Range(q) \cup Range(r)
         /\ Increasing(q) /\ Increasing(r) /\ Earlier(Range(q), Range(r)) => Increasing(q \o r)
         /\ Increasing(q \o r) => Increasing(q) /\ Increasing(r) /\ Earlier(Range(q), Range(r))
<1> DEFINE t == q \o r
<1>1. /\ t \in Seq(Frame) /\ Len(t) = Len(q) + Len(r)
      /\ \A i \in 1 .. Len(q) : t[i] = q[i]
      /\ \A i \in 1 .. Len(r) : t[i + Len(q)] = r[i]
      /\ \A i \in Len(q) + 1 .. Len(q) + Len(r) : t[i] = r[i - Len(q)]
  OBVIOUS
<1>2. DOMAIN q = 1 .. Len(q) /\ DOMAIN r = 1 .. Len(r) /\ DOMAIN t = 1 .. Len(q) + Len(r)
      /\ Len(q) \in Nat /\ Len(r) \in Nat
  BY <1>1
<1>3. Range(t) = Range(q) \cup Range(r)
  BY RangeConcatenation
<1> HIDE DEF t
<1>4. \A i \in DOMAIN q : q[i] \in Range(q) /\ q[i] \in Frame
  BY DEF Range
<1>5. \A i \in DOMAIN r : r[i] \in Range(r) /\ r[i] \in Frame
  BY DEF Range
<1>6. ASSUME Increasing(q), Increasing(r), Earlier(Range(q), Range(r))
      PROVE  Increasing(t)
  <2>1. SUFFICES ASSUME NEW i \in DOMAIN t, NEW j \in DOMAIN t, i < j
                 PROVE  t[i].id < t[j].id
    BY DEF Increasing
  <2>2. CASE j <= Len(q)
    BY <1>1, <1>2, <1>6, <2>1, <2>2 DEF Increasing
  <2>3. CASE i > Len(q)
    <3>1. i - Len(q) \in DOMAIN r /\ j - Len(q) \in DOMAIN r /\ i - Len(q) < j - Len(q)
          /\ t[i] = r[i - Len(q)] /\ t[j] = r[j - Len(q)]
      BY <1>1, <1>2, <2>1, <2>3
    <3>2. QED
      BY <1>6, <3>1 DEF Increasing
  <2>4. CASE i <= Len(q) /\ j > Len(q)
    <3>1. i \in DOMAIN q /\ j - Len(q) \in DOMAIN r /\ t[i] = q[i] /\ t[j] = r[j - Len(q)]
      BY <1>1, <1>2, <2>1, <2>4
    <3>2. QED
      BY <1>4, <1>5, <1>6, <3>1 DEF Earlier
  <2>5. QED
    BY <1>2, <2>1, <2>2, <2>3, <2>4
<1>7. ASSUME Increasing(t)
      PROVE  Increasing(q) /\ Increasing(r) /\ Earlier(Range(q), Range(r))
  <2>1. Increasing(q)
    BY <1>1, <1>2, <1>7 DEF Increasing
  <2>2. Increasing(r)
    <3>1. SUFFICES ASSUME NEW i \in DOMAIN r, NEW j \in DOMAIN r, i < j
                   PROVE  r[i].id < r[j].id
      BY DEF Increasing
    <3>2. i + Len(q) \in DOMAIN t /\ j + Len(q) \in DOMAIN t /\ i + Len(q) < j + Len(q)
          /\ t[i + Len(q)] = r[i] /\ t[j + Len(q)] = r[j]
      BY <1>1, <1>2, <3>1
    <3>3. QED
      BY <1>7, <3>2 DEF Increasing
  <2>3. ASSUME NEW i \in DOMAIN q, NEW j \in DOMAIN r
        PROVE  q[i].id < r[j].id
    <3>1. i \in DOMAIN t /\ j + Len(q) \in DOMAIN t /\ i < j + Len(q)
          /\ t[i] = q[i] /\ t[j + Len(q)] = r[j]
      BY <1>1, <1>2
    <3>2. QED
      BY <1>7, <3>1 DEF Increasing
  <2>4. QED
    BY <2>1, <2>2, <2>3 DEF Earlier, Range
<1>8. QED
  BY <1>1, <1>3, <1>6, <1>7 DEF t

(* A sequence in two parts.                                                *)
LEMMA SplitFrames ==
  ASSUME NEW q \in Seq(Frame), NEW k \in 0 .. Len(q)
  PROVE  LET a == SubSeq(q, 1, k)
             b == SubSeq(q, k + 1, Len(q))
         IN  /\ a \in Seq(Frame) /\ b \in Seq(Frame) /\ q = a \o b
             /\ Len(a) = k /\ Len(b) = Len(q) - k
             /\ \A i \in 1 .. k : a[i] = q[i]
<1> DEFINE a == SubSeq(q, 1, k)
           b == SubSeq(q, k + 1, Len(q))
<1>1. Len(q) \in Nat /\ k \in Int /\ \A i \in 1 .. Len(q) : q[i] \in Frame
  OBVIOUS
<1>2. a \in Seq(Frame) /\ Len(a) = k /\ \A i \in 1 .. k : a[i] = q[i]
  BY <1>1
<1>3. b \in Seq(Frame) /\ Len(b) = Len(q) - k /\ \A i \in 1 .. Len(q) - k : b[i] = q[k + i]
  BY <1>1
<1> HIDE DEF a, b
<1>4. q = a \o b
  <2>1. /\ a \o b \in Seq(Frame) /\ Len(a \o b) = Len(a) + Len(b)
        /\ \A i \in 1 .. Len(a) : (a \o b)[i] = a[i]
        /\ \A i \in Len(a) + 1 .. Len(a) + Len(b) : (a \o b)[i] = b[i - Len(a)]
    BY <1>2, <1>3
  <2>2. Len(a \o b) = Len(q)
    BY <1>1, <1>2, <1>3, <2>1
  <2>3. ASSUME NEW i \in 1 .. k PROVE (a \o b)[i] = q[i]
    BY <1>1, <1>2, <2>1
  <2>4. ASSUME NEW i \in k + 1 .. Len(q) PROVE (a \o b)[i] = q[i]
    <3>1. i - k \in 1 .. Len(q) - k /\ k + (i - k) = i
      BY <1>1
    <3>2. i \in Len(a) + 1 .. Len(a) + Len(b) /\ i - Len(a) = i - k
      BY <1>1, <1>2, <1>3
    <3>3. (a \o b)[i] = b[i - k]
      BY <2>1, <3>2
    <3>4. b[i - k] = q[k + (i - k)]
      BY <1>3, <3>1
    <3>5. QED
      BY <3>1, <3>3, <3>4
  <2>5. \A i \in 1 .. Len(a \o b) : (a \o b)[i] = q[i]
    BY <1>1, <2>2, <2>3, <2>4
  <2>6. QED
    BY <2>1, <2>2, <2>5, SeqEqual
<1>5. QED
  BY <1>2, <1>3, <1>4 DEF a, b
-----------------------------------------------------------------------------
(* The slots.                                                              *)
LEMMA Constants ==
  /\ Slots \in Nat /\ Slots > 0 /\ SlotLen \in Nat /\ SlotLen > 0
  /\ UnicastGuard \in Nat /\ UnicastGuard > 0 /\ 2 * UnicastGuard < SlotLen
  /\ MulticastGuard \in Nat /\ MulticastGuard > 0 /\ 2 * MulticastGuard < SlotLen
  /\ Capacity \in Nat /\ Capacity > 0 /\ MaxLate \in Nat /\ MaxFrames \in Nat
  /\ MaxChanges \in Nat
BY TxAssumption

LEMMA CycleFacts == Cycle \in Nat /\ Cycle > 0
<1>1. \A a, b \in Nat : a > 0 /\ b > 0 => a * b \in Nat /\ a * b > 0
  OBVIOUS
<1>2. QED
  BY <1>1, Constants DEF Cycle

LEMMA Division ==
  ASSUME NEW n \in Nat, n > 0, NEW a \in Int, NEW q \in Int, NEW r \in 0 .. n - 1, a = q * n + r
  PROVE  a \div n = q /\ a % n = r
<1> DEFINE d == a \div n
           e == a % n
<1>1. d \in Int /\ e \in 0 .. n - 1 /\ a = d * n + e
  OBVIOUS
<1> HIDE DEF d, e
<1>2. \A x, y \in Int : x < y => x * n + n <= y * n
  <2>1. SUFFICES ASSUME NEW x \in Int, NEW y \in Int, x < y PROVE x * n + n <= y * n
    OBVIOUS
  <2>2. \A b \in Nat : b * n >= 0
    OBVIOUS
  <2>3. y - x - 1 \in Nat
    BY <2>1
  <2>4. (y - x - 1) * n >= 0
    BY <2>2, <2>3
  <2>5. QED
    BY <2>1, <2>4
<1>3. ~(d < q) /\ ~(q < d)
  BY <1>1, <1>2
<1>4. d = q
  BY <1>1, <1>3
<1>5. QED
  BY <1>1, <1>4 DEF d, e

(* The slot of a time is the same in every cycle.                          *)
LEMMA SlotAtFacts ==
  ASSUME NEW c \in Int, NEW s \in 0 .. Slots - 1, NEW m \in 0 .. SlotLen - 1
  PROVE  SlotAt(c * Cycle + s * SlotLen + m) = s
<1> DEFINE u == s * SlotLen + m
<1>1. u \in 0 .. Cycle - 1
  <2>1. s * SlotLen >= 0
    BY Constants
  <2>2. (Slots - 1 - s) * SlotLen >= 0
    BY Constants
  <2>3. QED
    BY <2>1, <2>2, Constants DEF Cycle
<1>2. (c * Cycle + u) % Cycle = u
  BY <1>1, CycleFacts, Division
<1>3. u \div SlotLen = s
  BY Constants, Division
<1>4. c * Cycle + s * SlotLen + m = c * Cycle + u
  BY CycleFacts, Constants
<1>5. QED
  BY <1>2, <1>3, <1>4 DEF SlotAt

(* How much of the present slot has passed.                                *)
Offset == now % SlotLen

LEMMA Position ==
  ASSUME now \in 0 .. Cycle - 1
  PROVE  /\ Offset \in 0 .. SlotLen - 1
         /\ NextAw = SlotLen - Offset
         /\ now = SlotAt(now) * SlotLen + Offset
         /\ SlotAt(now) \in 0 .. Slots - 1
<1> DEFINE q == now \div SlotLen
           m == now % SlotLen
<1>1. now = q * SlotLen + m /\ q \in Int /\ m \in 0 .. SlotLen - 1
  BY CycleFacts, Constants
<1>2. q \in 0 .. Slots - 1
  <2>1. ~(q < 0)
    <3>1. q < 0 => (q + 1) * SlotLen <= 0
      BY <1>1, Constants
    <3>2. QED
      BY <1>1, <3>1, CycleFacts, Constants
  <2>2. ~(q >= Slots)
    <3>1. q >= Slots => (q - Slots) * SlotLen >= 0
      BY <1>1, Constants
    <3>2. QED
      BY <1>1, <3>1, Constants DEF Cycle
  <2>3. QED
    BY <1>1, <2>1, <2>2, Constants
<1>3. SlotAt(now) = q
  <2>1. now = 0 * Cycle + q * SlotLen + m
    BY <1>1, CycleFacts, Constants
  <2>2. QED
    BY <1>1, <1>2, <2>1, SlotAtFacts
<1>4. NextAw = SlotLen - m /\ Offset = m
  BY DEF NextAw, Offset
<1> HIDE DEF q, m
<1>5. now = SlotAt(now) * SlotLen + m
  BY <1>1, <1>3
<1>6. m \in 0 .. SlotLen - 1 /\ SlotAt(now) \in 0 .. Slots - 1
  BY <1>1, <1>2, <1>3
<1>7. QED
  BY <1>4, <1>5, <1>6

(* The slots before and after the present one.                             *)
LEMMA Neighbours ==
  ASSUME now \in 0 .. Cycle - 1
  PROVE  /\ SlotAt(now + SlotLen) = (SlotAt(now) + 1) % Slots
         /\ SlotAt(now + Cycle - SlotLen) = (SlotAt(now) - 1) % Slots
<1> DEFINE q == SlotAt(now)
           m == Offset
<1>1. q \in 0 .. Slots - 1 /\ m \in 0 .. SlotLen - 1 /\ now = q * SlotLen + m
  BY Position
<1> HIDE DEF q, m
<1>2. SlotAt(now + SlotLen) = (q + 1) % Slots
  <2>1. CASE q + 1 < Slots
    <3>1. now + SlotLen = 0 * Cycle + (q + 1) * SlotLen + m
      BY <1>1, Constants, CycleFacts
    <3>2. (q + 1) % Slots = q + 1 /\ q + 1 \in 0 .. Slots - 1
      BY <1>1, <2>1, Constants
    <3>3. QED
      BY <1>1, <3>1, <3>2, SlotAtFacts
  <2>2. CASE q + 1 = Slots
    <3>1. now + SlotLen = 1 * Cycle + 0 * SlotLen + m
      BY <1>1, <2>2, Constants DEF Cycle
    <3>2. (q + 1) % Slots = 0 /\ 0 \in 0 .. Slots - 1
      BY <2>2, Constants
    <3>3. QED
      BY <1>1, <3>1, <3>2, SlotAtFacts
  <2>3. QED
    BY <1>1, <2>1, <2>2, Constants
<1>3. SlotAt(now + Cycle - SlotLen) = (q - 1) % Slots
  <2>1. CASE q > 0
    <3>1. now + Cycle - SlotLen = 1 * Cycle + (q - 1) * SlotLen + m
      BY <1>1, Constants, CycleFacts
    <3>2. (q - 1) % Slots = q - 1 /\ q - 1 \in 0 .. Slots - 1
      BY <1>1, <2>1, Constants
    <3>3. QED
      BY <1>1, <3>1, <3>2, SlotAtFacts
  <2>2. CASE q = 0
    <3>1. now + Cycle - SlotLen = 0 * Cycle + (Slots - 1) * SlotLen + m
      BY <1>1, <2>2, Constants DEF Cycle
    <3>2. (q - 1) % Slots = Slots - 1 /\ Slots - 1 \in 0 .. Slots - 1
      BY <2>2, Constants
    <3>3. QED
      BY <1>1, <3>1, <3>2, SlotAtFacts
  <2>3. QED
    BY <1>1, <2>1, <2>2
<1>4. QED
  BY <1>2, <1>3 DEF q

(* How long a callback waits, and when it does not.                        *)
LEMMA Edges ==
  ASSUME now \in 0 .. Cycle - 1, NEW guard \in Nat, guard > 0, 2 * guard < SlotLen
  PROVE  LET in == CanSendIn(guard)
         IN  /\ in \in -guard .. guard
             /\ in = 0 => Offset \in guard .. SlotLen - guard
             /\ in < 0 => Offset > SlotLen - guard
             /\ in > 0 => Offset < guard
             /\ Retry(in, guard) \in 0 .. SlotLen
<1>1. Offset \in 0 .. SlotLen - 1 /\ NextAw = SlotLen - Offset
  BY Position
<1>2. QED
  BY <1>1, Constants DEF CanSendIn, Retry

LEMMA UnicastEdges ==
  ASSUME now \in 0 .. Cycle - 1, NEW p
  PROVE  LET in == CanSendUnicastIn(p)
         IN  /\ Retry(in, UnicastGuard) \in 0 .. SlotLen
             /\ in = 0 =>
                  /\ SlotAt(now) \in meets[p]
                  /\ \/ Offset \in UnicastGuard .. SlotLen - UnicastGuard
                     \/ Offset < UnicastGuard /\ (SlotAt(now) - 1) % Slots \in meets[p]
                     \/ Offset > SlotLen - UnicastGuard /\ (SlotAt(now) + 1) % Slots \in meets[p]
<1> DEFINE edge == CanSendIn(UnicastGuard)
           in == CanSendUnicastIn(p)
<1>1. /\ edge \in -UnicastGuard .. UnicastGuard
      /\ edge = 0 => Offset \in UnicastGuard .. SlotLen - UnicastGuard
      /\ edge < 0 => Offset > SlotLen - UnicastGuard
      /\ edge > 0 => Offset < UnicastGuard
      /\ Retry(edge, UnicastGuard) \in 0 .. SlotLen
  BY Edges, Constants
<1>2. NextAw \in 1 .. SlotLen
  BY Position, Constants
<1>3. CASE ~SameChannel(p, now)
  <2>1. in = NextAw
    BY <1>3 DEF CanSendUnicastIn
  <2>2. QED
    BY <1>2, <2>1, Constants DEF Retry
<1>4. CASE SameChannel(p, now) /\ edge < 0 /\ SameChannel(p, now + SlotLen)
  <2>1. in = 0
    BY <1>1, <1>4 DEF CanSendUnicastIn
  <2>2. QED
    BY <1>1, <1>4, <2>1, Neighbours, Constants DEF Retry, SameChannel
<1>5. CASE SameChannel(p, now) /\ edge > 0 /\ SameChannel(p, now + Cycle - SlotLen)
  <2>1. in = 0
    BY <1>1, <1>5 DEF CanSendUnicastIn
  <2>2. QED
    BY <1>1, <1>5, <2>1, Neighbours, Constants DEF Retry, SameChannel
<1>6. CASE /\ SameChannel(p, now)
           /\ edge < 0 => ~SameChannel(p, now + SlotLen)
           /\ edge > 0 => ~SameChannel(p, now + Cycle - SlotLen)
  <2>1. in = edge
    BY <1>1, <1>6 DEF CanSendUnicastIn
  <2>2. QED
    BY <1>1, <1>6, <2>1 DEF SameChannel
<1>7. QED
  BY <1>1, <1>3, <1>4, <1>5, <1>6
-----------------------------------------------------------------------------
(* The frames of a state, and what holds between callbacks.                *)
Held(s) == { s.next } \ { NoFrame }
All(s) == Range(s.host) \cup Range(s.mcast) \cup Range(s.sent) \cup Range(s.gone) \cup Held(s)
Waiting(s) == IF s.next = NoFrame THEN 0 ELSE 1
Total(s) == Len(s.host) + Len(s.mcast) + Len(s.sent) + Len(s.gone) + Waiting(s)
Kept(s, r) == All(r) = All(s) /\ Total(r) = Total(s)

(* The order of the frames: those sent before those queued before those    *)
(* the host has still to hand over, for each kind of frame.                *)
Queued(s) ==
  /\ Len(s.mcast) <= Capacity
  /\ Increasing(s.host) /\ Increasing(s.mcast) /\ InOrder(s.sent)
  /\ \A f \in Range(s.mcast) : f.dst = Group
  /\ \A f \in Held(s) : f.dst # Group
  /\ Earlier(Range(s.sent) \cup Range(s.mcast) \cup Held(s), Range(s.host))
  /\ Earlier({ f \in Range(s.sent) : f.dst = Group }, Range(s.mcast))
  /\ Earlier({ f \in Range(s.sent) : f.dst # Group }, Held(s))

(* r follows s, and what has been sent in between was sent in its window.  *)
Extends(s, r) ==
  /\ \A i \in DOMAIN s.sent : i \in DOMAIN r.sent /\ r.sent[i] = s.sent[i]
  /\ \A i \in DOMAIN r.sent \ DOMAIN s.sent : InWindow(r.sent[i])

LEMMA NoFrameFacts == \A f \in Frame : f # NoFrame /\ f.id \in 1 .. MaxFrames
BY Constants DEF Frame, NoFrame

(* What the callback of tx_mcast_timer does, field by field.               *)
LEMMA SendMulticastFields ==
  ASSUME NEW s \in State
  PROVE  LET r == SendMulticast(s)
             in == CanSendIn(MulticastGuard)
             ready == s.mcast # << >> /\ IsMulticastEaw /\ in = 0
             left == IF ready THEN Tail(s.mcast) ELSE s.mcast
             delay == IF ready THEN 0
                      ELSE IF in = 0 THEN SlotLen ELSE Retry(in, MulticastGuard)
         IN  /\ r.host = s.host /\ r.next = s.next /\ r.gone = s.gone
             /\ r.ucTimer = s.ucTimer
             /\ r.mcast = left
             /\ r.sent = IF ready THEN Append(s.sent, Head(s.mcast)) ELSE s.sent
             /\ r.mcTimer = IF left # << >> THEN delay ELSE s.mcTimer
             /\ r.fed = (s.fed \/ left = << >>)
             /\ { r.mcast, r.sent } \subseteq Seq(Frame) /\ r.mcTimer \in Timer => r \in State
<1> DEFINE in == CanSendIn(MulticastGuard)
           ready == s.mcast # << >> /\ IsMulticastEaw /\ in = 0
           left == IF ready THEN Tail(s.mcast) ELSE s.mcast
           delay == IF ready THEN 0
                    ELSE IF in = 0 THEN SlotLen ELSE Retry(in, MulticastGuard)
           sent2 == IF ready THEN Append(s.sent, Head(s.mcast)) ELSE s.sent
           mcTimer2 == IF left # << >> THEN delay ELSE s.mcTimer
           fed2 == s.fed \/ left = << >>
<1>1. SendMulticast(s) = [ s EXCEPT !.mcast = left, !.sent = sent2, !.mcTimer = mcTimer2, !.fed = fed2 ]
  BY Zenon DEF SendMulticast
<1> DEFINE r == [ s EXCEPT !.mcast = left, !.sent = sent2, !.mcTimer = mcTimer2, !.fed = fed2 ]
<1> HIDE DEF left, sent2, mcTimer2, fed2
<1>2. /\ r.host = s.host /\ r.next = s.next /\ r.gone = s.gone
      /\ r.ucTimer = s.ucTimer /\ r.mcast = left /\ r.sent = sent2
      /\ r.mcTimer = mcTimer2 /\ r.fed = fed2
  BY Zenon DEF State
<1>3. fed2 \in BOOLEAN
  BY Zenon DEF fed2, State
<1>4. left \in Seq(Frame) /\ sent2 \in Seq(Frame) /\ mcTimer2 \in Timer => r \in State
  BY <1>3, Zenon DEF State
<1> HIDE DEF r
<1>5. { r.mcast, r.sent } \subseteq Seq(Frame) /\ r.mcTimer \in Timer => r \in State
  BY <1>2, <1>4
<1>6. QED
  BY <1>1, <1>2, <1>5 DEF left, sent2, mcTimer2, fed2, r

LEMMA Fields ==
  ASSUME NEW s \in State
  PROVE  /\ s.host \in Seq(Frame) /\ s.mcast \in Seq(Frame)
         /\ s.sent \in Seq(Frame) /\ s.gone \in Seq(Frame)
         /\ s.next \in Frame \cup {NoFrame}
         /\ s.ucTimer \in Timer /\ s.mcTimer \in Timer /\ s.fed \in BOOLEAN
BY DEF State

Measured(s) ==
  /\ Len(s.host) \in Nat /\ Len(s.mcast) \in Nat /\ Len(s.sent) \in Nat
  /\ Len(s.gone) \in Nat /\ Waiting(s) \in Nat

LEMMA Lengths == ASSUME NEW s \in State PROVE Measured(s)
BY Fields DEF Measured, Waiting

(* A frame that moves is not counted twice.                                *)
LEMMA Moved ==
  ASSUME NEW s, NEW r, Measured(s), Measured(r), Len(r.host) = Len(s.host),
         \/ /\ Len(r.mcast) = Len(s.mcast) - 1 /\ Len(r.sent) = Len(s.sent) + 1
            /\ Len(r.gone) = Len(s.gone) /\ Waiting(r) = Waiting(s)
         \/ /\ Len(r.sent) = Len(s.sent) + 1 /\ Waiting(r) = Waiting(s) - 1
            /\ Len(r.mcast) = Len(s.mcast) /\ Len(r.gone) = Len(s.gone)
         \/ /\ Len(r.gone) = Len(s.gone) + 1 /\ Waiting(r) = Waiting(s) - 1
            /\ Len(r.mcast) = Len(s.mcast) /\ Len(r.sent) = Len(s.sent)
  PROVE  Total(r) = Total(s)
<1> DEFINE h == Len(s.host)
           m == Len(s.mcast)
           n == Len(s.sent)
           g == Len(s.gone)
           w == Waiting(s)
           h1 == Len(r.host)
           m1 == Len(r.mcast)
           n1 == Len(r.sent)
           g1 == Len(r.gone)
           w1 == Waiting(r)
<1>1. /\ h \in Nat /\ m \in Nat /\ n \in Nat /\ g \in Nat /\ w \in Nat
      /\ h1 \in Nat /\ m1 \in Nat /\ n1 \in Nat /\ g1 \in Nat /\ w1 \in Nat
      /\ h1 = h
      /\ \/ m1 = m - 1 /\ n1 = n + 1 /\ g1 = g /\ w1 = w
         \/ n1 = n + 1 /\ w1 = w - 1 /\ m1 = m /\ g1 = g
         \/ g1 = g + 1 /\ w1 = w - 1 /\ m1 = m /\ n1 = n
  BY DEF Measured
<1> HIDE DEF h, m, n, g, w, h1, m1, n1, g1, w1
<1>2. h1 + m1 + n1 + g1 + w1 = h + m + n + g + w
  BY <1>1
<1>3. QED
  BY <1>2 DEF Total, h, m, n, g, w, h1, m1, n1, g1, w1

LEMMA HeadFrame ==
  ASSUME NEW q \in Seq(Frame), q # << >>
  PROVE  /\ Head(q) \in Frame /\ Tail(q) \in Seq(Frame) /\ Len(Tail(q)) = Len(q) - 1
         /\ Len(q) > 0
         /\ Range(q) = { Head(q) } \cup Range(Tail(q))
         /\ Increasing(q) => Increasing(Tail(q)) /\ Earlier({ Head(q) }, Range(Tail(q)))
<1> DEFINE h == Head(q)
           t == Tail(q)
<1>1. h \in Frame /\ t \in Seq(Frame) /\ Len(t) = Len(q) - 1 /\ Len(q) > 0 /\ q = << h >> \o t
  BY HeadTailProperties
<1>2. << h >> \in Seq(Frame) /\ Range(<< h >>) = { h }
  BY <1>1, RangeOfSeq DEF Range
<1> HIDE DEF h, t
<1>3. /\ Range(q) = { h } \cup Range(t)
      /\ Increasing(q) => Increasing(t) /\ Earlier({ h }, Range(t))
  BY <1>1, <1>2, ConcatFrames
<1>4. QED
  BY <1>1, <1>3 DEF h, t

LEMMA OneMore ==
  ASSUME NEW s, NEW r, Measured(s), Measured(r), Len(r.host) = Len(s.host) + 1,
         r.mcast = s.mcast, r.sent = s.sent, r.gone = s.gone, Waiting(r) = Waiting(s)
  PROVE  Total(r) = Total(s) + 1
<1> DEFINE h == Len(s.host)
           m == Len(s.mcast)
           n == Len(s.sent)
           g == Len(s.gone)
           w == Waiting(s)
           h1 == Len(r.host)
<1>1. /\ h \in Nat /\ m \in Nat /\ n \in Nat /\ g \in Nat /\ w \in Nat /\ h1 = h + 1
      /\ Len(r.mcast) = m /\ Len(r.sent) = n /\ Len(r.gone) = g /\ Waiting(r) = w
  BY DEF Measured
<1> HIDE DEF h, m, n, g, w, h1
<1>2. h1 + m + n + g + w = h + m + n + g + w + 1
  BY <1>1
<1>3. QED
  BY <1>1, <1>2 DEF Total, h, m, n, g, w, h1

LEMMA Read ==
  ASSUME NEW s \in State, NEW r \in State, NEW k \in Nat, NEW j \in {0, 1},
         Len(s.host) = k + j + Len(r.host), Len(r.mcast) = Len(s.mcast) + k,
         Waiting(r) = Waiting(s) + j, r.sent = s.sent, r.gone = s.gone
  PROVE  Total(r) = Total(s)
<1> DEFINE h == Len(s.host)
           m == Len(s.mcast)
           n == Len(s.sent)
           g == Len(s.gone)
           w == Waiting(s)
           h1 == Len(r.host)
           m1 == Len(r.mcast)
           n1 == Len(r.sent)
           g1 == Len(r.gone)
           w1 == Waiting(r)
<1>1. /\ h \in Nat /\ m \in Nat /\ n \in Nat /\ g \in Nat /\ w \in Nat
      /\ h1 \in Nat /\ m1 \in Nat /\ w1 \in Nat
      /\ h = k + j + h1 /\ m1 = m + k /\ w1 = w + j /\ n1 = n /\ g1 = g
  BY Lengths DEF Measured
<1> HIDE DEF h, m, n, g, w, h1, m1, n1, g1, w1
<1>2. h1 + m1 + n1 + g1 + w1 = h + m + n + g + w
  BY <1>1
<1>3. QED
  BY <1>2 DEF Total, h, m, n, g, w, h1, m1, n1, g1, w1

(* The oldest queued frame is sent.                                        *)
LEMMA OldestSent ==
  ASSUME NEW s \in State, NEW r \in State, Queued(s), s.mcast # << >>,
         r.host = s.host, r.next = s.next, r.gone = s.gone,
         r.mcast = Tail(s.mcast), r.sent = Append(s.sent, Head(s.mcast))
  PROVE  Queued(r) /\ Kept(s, r)
<1> DEFINE h == Head(s.mcast)
<1>1. /\ s.host \in Seq(Frame) /\ s.mcast \in Seq(Frame)
      /\ s.sent \in Seq(Frame) /\ s.gone \in Seq(Frame)
  BY Fields
<1>2. /\ h \in Frame /\ r.mcast \in Seq(Frame) /\ Len(r.mcast) = Len(s.mcast) - 1
      /\ Len(s.mcast) > 0
      /\ Range(s.mcast) = { h } \cup Range(r.mcast)
      /\ Increasing(r.mcast) /\ Earlier({ h }, Range(r.mcast))
  BY <1>1, HeadFrame DEF Queued
<1>3. h.dst = Group
  BY <1>2 DEF Queued
<1>4. \A g \in Range(s.sent) : SameKind(g, h) => g.id < h.id
  BY <1>2, <1>3 DEF Queued, Earlier, SameKind
<1>5. Range(r.sent) = Range(s.sent) \cup { h } /\ Len(r.sent) = Len(s.sent) + 1 /\ InOrder(r.sent)
  BY <1>1, <1>2, <1>4, AppendFrame DEF Queued
<1>6. Kept(s, r)
  <2>1. All(r) = All(s)
    BY <1>2, <1>5 DEF All, Held
  <2>2. Waiting(r) = Waiting(s) /\ Measured(s) /\ Measured(r)
    BY Lengths DEF Waiting
  <2>3. Total(r) = Total(s)
    BY <1>2, <1>5, <2>2, Moved
  <2>4. QED
    BY <2>1, <2>3 DEF Kept
<1> HIDE DEF h
<1>7. Len(r.mcast) <= Capacity /\ \A f \in Range(r.mcast) : f.dst = Group
  BY <1>1, <1>2, Constants DEF Queued
<1>8. Earlier(Range(r.sent) \cup Range(r.mcast) \cup Held(r), Range(r.host))
  BY <1>2, <1>5 DEF Queued, Earlier, Held
<1>9. Earlier({ f \in Range(r.sent) : f.dst = Group }, Range(r.mcast))
  BY <1>2, <1>5 DEF Queued, Earlier
<1>10. Earlier({ f \in Range(r.sent) : f.dst # Group }, Held(r))
  BY <1>3, <1>5 DEF Queued, Earlier, Held
<1>11. QED
  BY <1>2, <1>5, <1>6, <1>7, <1>8, <1>9, <1>10 DEF Queued, Held

(* Only timers and events change.                                          *)
LEMMA SameFrames ==
  ASSUME NEW s, NEW r, Queued(s), r.host = s.host, r.next = s.next, r.gone = s.gone,
         r.mcast = s.mcast, r.sent = s.sent
  PROVE  Queued(r) /\ Kept(s, r)
<1>1. Queued(r)
  BY DEF Queued, Held
<1>2. Kept(s, r)
  BY DEF Kept, All, Total, Held, Waiting
<1>3. QED
  BY <1>1, <1>2

(* The waiting unicast frame is sent, or dropped or returned to the host.  *)
LEMMA NextDone ==
  ASSUME NEW s \in State, NEW r \in State, Queued(s), s.next # NoFrame, r.next = NoFrame,
         r.host = s.host, r.mcast = s.mcast,
         \/ r.gone = s.gone /\ r.sent = Append(s.sent, s.next)
         \/ r.sent = s.sent /\ r.gone = Append(s.gone, s.next)
  PROVE  Queued(r) /\ Kept(s, r)
<1> DEFINE f == s.next
<1>1. /\ s.host \in Seq(Frame) /\ s.mcast \in Seq(Frame)
      /\ s.sent \in Seq(Frame) /\ s.gone \in Seq(Frame) /\ f \in Frame
  BY Fields
<1>2. Held(s) = { f } /\ Held(r) = { } /\ f.dst # Group
  BY DEF Held, Queued
<1>3. Waiting(s) = 1 /\ Waiting(r) = 0 /\ Measured(s) /\ Measured(r)
  BY Lengths DEF Waiting
<1>4. CASE r.gone = s.gone /\ r.sent = Append(s.sent, f)
  <2>1. \A g \in Range(s.sent) : SameKind(g, f) => g.id < f.id
    BY <1>2 DEF Queued, Earlier, SameKind
  <2>2. Range(r.sent) = Range(s.sent) \cup { f } /\ Len(r.sent) = Len(s.sent) + 1 /\ InOrder(r.sent)
    BY <1>1, <1>4, <2>1, AppendFrame DEF Queued
  <2>3. All(r) = All(s)
    BY <1>2, <1>4, <2>2 DEF All
  <2>4. Total(r) = Total(s)
    BY <1>3, <1>4, <2>2, Moved
  <2>5. Earlier(Range(r.sent) \cup Range(r.mcast) \cup Held(r), Range(r.host))
    BY <1>2, <2>2 DEF Queued, Earlier
  <2>6. Earlier({ g \in Range(r.sent) : g.dst = Group }, Range(r.mcast))
    BY <1>2, <2>2 DEF Queued, Earlier
  <2>7. QED
    BY <1>2, <2>2, <2>3, <2>4, <2>5, <2>6 DEF Queued, Earlier, Kept
<1>5. CASE r.sent = s.sent /\ r.gone = Append(s.gone, f)
  <2>1. Range(r.gone) = Range(s.gone) \cup { f } /\ Len(r.gone) = Len(s.gone) + 1
    BY <1>1, <1>5, AppendFrame
  <2>2. All(r) = All(s)
    BY <1>2, <1>5, <2>1 DEF All
  <2>3. Total(r) = Total(s)
    BY <1>3, <1>5, <2>1, Moved
  <2>4. QED
    BY <1>2, <1>5, <2>2, <2>3 DEF Queued, Earlier, Kept
<1>6. QED
  BY <1>4, <1>5

LEMMA TimerFacts ==
  /\ 0 .. SlotLen \subseteq Timer /\ Off \in Timer /\ \A t \in 0 .. SlotLen : t # Off
  /\ Off \in Int /\ Off < -MaxLate
BY Constants DEF Timer, Off

(* The attempt to send a multicast frame keeps every frame and its order,  *)
(* and leaves none behind without a timer.                                 *)
LEMMA SendMulticastKeeps ==
  ASSUME now \in 0 .. Cycle - 1, NEW s \in State, Queued(s)
  PROVE  LET r == SendMulticast(s)
         IN  /\ r \in State /\ Queued(r) /\ Kept(s, r) /\ Extends(s, r)
             /\ r.next = s.next /\ r.ucTimer = s.ucTimer
             /\ r.mcast # << >> => r.mcTimer # Off
<1> DEFINE r == SendMulticast(s)
           in == CanSendIn(MulticastGuard)
           ready == s.mcast # << >> /\ IsMulticastEaw /\ in = 0
           left == IF ready THEN Tail(s.mcast) ELSE s.mcast
           delay == IF ready THEN 0
                    ELSE IF in = 0 THEN SlotLen ELSE Retry(in, MulticastGuard)
<1>1. /\ r.host = s.host /\ r.next = s.next /\ r.gone = s.gone
      /\ r.ucTimer = s.ucTimer /\ r.mcast = left
      /\ r.sent = IF ready THEN Append(s.sent, Head(s.mcast)) ELSE s.sent
      /\ r.mcTimer = IF left # << >> THEN delay ELSE s.mcTimer
      /\ { r.mcast, r.sent } \subseteq Seq(Frame) /\ r.mcTimer \in Timer => r \in State
  BY SendMulticastFields
<1>2. in = 0 => Clear(MulticastGuard)
  BY Edges, Constants DEF Clear, Offset
<1>3. delay \in 0 .. SlotLen
  <2>1. Retry(in, MulticastGuard) \in 0 .. SlotLen
    BY Edges, Constants
  <2>2. QED
    BY <2>1, Constants
<1>4. s.mcast \in Seq(Frame) /\ s.sent \in Seq(Frame) /\ s.mcTimer \in Timer
  BY Fields
<1> HIDE DEF r, in, delay
<1>5. r.mcTimer \in Timer /\ (r.mcast # << >> => r.mcTimer # Off)
  BY <1>1, <1>3, <1>4, TimerFacts
<1>6. CASE ready
  <2>1. r.mcast = Tail(s.mcast) /\ r.sent = Append(s.sent, Head(s.mcast)) /\ s.mcast # << >>
    BY <1>1, <1>6
  <2>2. Head(s.mcast) \in Frame /\ Tail(s.mcast) \in Seq(Frame) /\ Head(s.mcast).dst = Group
    BY <1>4, <2>1, HeadFrame DEF Queued
  <2>3. r.sent \in Seq(Frame)
    BY <1>4, <2>1, <2>2, AppendFrame
  <2>4. r \in State
    BY <1>1, <1>5, <2>1, <2>2, <2>3
  <2>5. Queued(r) /\ Kept(s, r)
    BY <1>1, <2>1, <2>4, OldestSent
  <2>6. InWindow(Head(s.mcast))
    BY <1>2, <1>6, <2>2 DEF InWindow, IsMulticastEaw
  <2>7. Extends(s, r)
    BY <1>4, <2>1, <2>2, <2>6, AppendProperties DEF Extends
  <2>8. QED
    BY <1>1, <1>5, <2>4, <2>5, <2>7 DEF r
<1>7. CASE ~ready
  <2>1. r.mcast = s.mcast /\ r.sent = s.sent
    BY <1>1, <1>7
  <2>2. r \in State
    BY <1>1, <1>4, <1>5, <2>1
  <2>3. Queued(r) /\ Kept(s, r)
    BY <1>1, <2>1, SameFrames
  <2>4. Extends(s, r)
    BY <1>4, <2>1 DEF Extends
  <2>5. QED
    BY <1>1, <1>5, <2>2, <2>3, <2>4 DEF r
<1>8. QED
  BY <1>6, <1>7

(* What the callback of tx_timer does, field by field.                     *)
LEMMA SendUnicastFields ==
  ASSUME NEW s \in State
  PROVE  LET r == SendUnicast(s)
             f == s.next
             in == CanSendUnicastIn(f.dst)
         IN  /\ r.host = s.host /\ r.mcast = s.mcast /\ r.mcTimer = s.mcTimer
             /\ \/ /\ f = NoFrame /\ r.next = f
                   /\ r.sent = s.sent /\ r.gone = s.gone /\ r.ucTimer = s.ucTimer
                \/ /\ f # NoFrame /\ r.next = NoFrame
                   /\ r.gone = Append(s.gone, f) /\ r.sent = s.sent /\ r.ucTimer = s.ucTimer
                \/ /\ f # NoFrame /\ in = 0 /\ r.next = NoFrame
                   /\ r.sent = Append(s.sent, f) /\ r.gone = s.gone /\ r.ucTimer = s.ucTimer
                \/ /\ f # NoFrame /\ r.next = f
                   /\ r.sent = s.sent /\ r.gone = s.gone /\ r.ucTimer = Retry(in, UnicastGuard)
             /\ { r.sent, r.gone } \subseteq Seq(Frame) /\ r.ucTimer \in Timer => r \in State
<1> DEFINE r == SendUnicast(s)
           f == s.next
           in == CanSendUnicastIn(f.dst)
           dropped == Append(s.gone, f)
           sent2 == Append(s.sent, f)
           later == Retry(in, UnicastGuard)
<1>1. CASE f = NoFrame
  <2>1. r = [ s EXCEPT !.fed = TRUE ]
    BY <1>1, Zenon DEF SendUnicast
  <2> HIDE DEF r
  <2>2. /\ r.host = s.host /\ r.mcast = s.mcast /\ r.mcTimer = s.mcTimer /\ r.next = f
        /\ r.sent = s.sent /\ r.gone = s.gone /\ r.ucTimer = s.ucTimer /\ r \in State
    BY <2>1, Zenon DEF State
  <2>3. QED
    BY <1>1, <2>2 DEF r
<1>2. CASE f # NoFrame /\ (f.dst = Self \/ f.dst \notin DOMAIN meets)
  <2>1. r = [ [ s EXCEPT !.gone = dropped ] EXCEPT !.next = NoFrame, !.fed = TRUE ]
    BY <1>2, Zenon DEF SendUnicast
  <2> HIDE DEF r, dropped
  <2>2. /\ r.host = s.host /\ r.mcast = s.mcast /\ r.mcTimer = s.mcTimer /\ r.next = NoFrame
        /\ r.sent = s.sent /\ r.gone = dropped /\ r.ucTimer = s.ucTimer
    BY <2>1, Zenon DEF State
  <2>3. dropped \in Seq(Frame) => r \in State
    BY <2>1, Zenon DEF State
  <2>4. QED
    BY <1>2, <2>2, <2>3 DEF r, dropped
<1>3. CASE f # NoFrame /\ ~(f.dst = Self \/ f.dst \notin DOMAIN meets) /\ in = 0
  <2>1. r = [ [ s EXCEPT !.sent = sent2 ] EXCEPT !.next = NoFrame, !.fed = TRUE ]
    BY <1>3, Zenon DEF SendUnicast
  <2> HIDE DEF r, sent2
  <2>2. /\ r.host = s.host /\ r.mcast = s.mcast /\ r.mcTimer = s.mcTimer /\ r.next = NoFrame
        /\ r.sent = sent2 /\ r.gone = s.gone /\ r.ucTimer = s.ucTimer
    BY <2>1, Zenon DEF State
  <2>3. sent2 \in Seq(Frame) => r \in State
    BY <2>1, Zenon DEF State
  <2>4. QED
    BY <1>3, <2>2, <2>3 DEF r, sent2
<1>4. CASE f # NoFrame /\ ~(f.dst = Self \/ f.dst \notin DOMAIN meets) /\ in # 0
  <2>1. r = [ s EXCEPT !.ucTimer = later ]
    BY <1>4, Zenon DEF SendUnicast
  <2> HIDE DEF r, later
  <2>2. /\ r.host = s.host /\ r.mcast = s.mcast /\ r.mcTimer = s.mcTimer /\ r.next = f
        /\ r.sent = s.sent /\ r.gone = s.gone /\ r.ucTimer = later
    BY <2>1, Zenon DEF State
  <2>3. later \in Timer => r \in State
    BY <2>1, Zenon DEF State
  <2>4. QED
    BY <1>4, <2>2, <2>3 DEF r, later
<1>5. QED
  BY <1>1, <1>2, <1>3, <1>4

(* The attempt to send the waiting unicast frame keeps it or disposes of   *)
(* it, and does not leave it without a timer.                              *)
LEMMA SendUnicastKeeps ==
  ASSUME now \in 0 .. Cycle - 1, NEW s \in State, Queued(s)
  PROVE  LET r == SendUnicast(s)
         IN  /\ r \in State /\ Queued(r) /\ Kept(s, r) /\ Extends(s, r)
             /\ r.mcast = s.mcast /\ r.mcTimer = s.mcTimer
             /\ r.next # NoFrame => r.ucTimer # Off
<1> DEFINE r == SendUnicast(s)
           f == s.next
           in == CanSendUnicastIn(f.dst)
           unsent == f = NoFrame /\ r.next = f
                     /\ r.sent = s.sent /\ r.gone = s.gone /\ r.ucTimer = s.ucTimer
           dropped == f # NoFrame /\ r.next = NoFrame
                      /\ r.gone = Append(s.gone, f) /\ r.sent = s.sent /\ r.ucTimer = s.ucTimer
           sends == f # NoFrame /\ in = 0 /\ r.next = NoFrame
                    /\ r.sent = Append(s.sent, f) /\ r.gone = s.gone /\ r.ucTimer = s.ucTimer
           waits == f # NoFrame /\ r.next = f
                    /\ r.sent = s.sent /\ r.gone = s.gone /\ r.ucTimer = Retry(in, UnicastGuard)
<1>1. /\ r.host = s.host /\ r.mcast = s.mcast /\ r.mcTimer = s.mcTimer
      /\ unsent \/ dropped \/ sends \/ waits
      /\ { r.sent, r.gone } \subseteq Seq(Frame) /\ r.ucTimer \in Timer => r \in State
  BY SendUnicastFields
<1>2. /\ Retry(in, UnicastGuard) \in 0 .. SlotLen
      /\ in = 0 =>
           /\ SlotAt(now) \in meets[f.dst]
           /\ \/ Offset \in UnicastGuard .. SlotLen - UnicastGuard
              \/ Offset < UnicastGuard /\ (SlotAt(now) - 1) % Slots \in meets[f.dst]
              \/ Offset > SlotLen - UnicastGuard /\ (SlotAt(now) + 1) % Slots \in meets[f.dst]
  BY UnicastEdges
<1>3. /\ s.sent \in Seq(Frame) /\ s.gone \in Seq(Frame) /\ s.ucTimer \in Timer
      /\ f # NoFrame => f \in Frame /\ f.dst # Group
  BY Fields DEF Queued, Held
<1> HIDE DEF r, in
<1>4. CASE unsent
  <2>1. r \in State /\ Queued(r) /\ Kept(s, r)
    BY <1>1, <1>3, <1>4, SameFrames
  <2>2. Extends(s, r)
    BY <1>3, <1>4 DEF Extends
  <2>3. QED
    BY <1>1, <1>4, <2>1, <2>2 DEF r
<1>5. CASE dropped
  <2>1. r.gone \in Seq(Frame)
    BY <1>3, <1>5, AppendFrame
  <2>2. r \in State
    BY <1>1, <1>3, <1>5, <2>1
  <2>3. Queued(r) /\ Kept(s, r)
    BY <1>1, <1>5, <2>2, NextDone
  <2>4. Extends(s, r)
    BY <1>3, <1>5 DEF Extends
  <2>5. QED
    BY <1>1, <1>5, <2>2, <2>3, <2>4 DEF r
<1>6. CASE sends
  <2>1. r.sent \in Seq(Frame)
    BY <1>3, <1>6, AppendFrame
  <2>2. r \in State
    BY <1>1, <1>3, <1>6, <2>1
  <2>3. Queued(r) /\ Kept(s, r)
    BY <1>1, <1>6, <2>2, NextDone
  <2>4. InWindow(f)
    BY <1>2, <1>3, <1>6 DEF InWindow, Clear, Offset
  <2>5. Extends(s, r)
    BY <1>3, <1>6, <2>4, AppendProperties DEF Extends
  <2>6. QED
    BY <1>1, <1>6, <2>2, <2>3, <2>5 DEF r
<1>7. CASE waits
  <2>1. r.ucTimer \in Timer /\ r.ucTimer # Off
    BY <1>2, <1>7, TimerFacts
  <2>2. r \in State
    BY <1>1, <1>3, <1>7, <2>1
  <2>3. Queued(r) /\ Kept(s, r)
    BY <1>1, <1>7, SameFrames
  <2>4. Extends(s, r)
    BY <1>3, <1>7 DEF Extends
  <2>5. QED
    BY <1>1, <1>7, <2>1, <2>2, <2>3, <2>4 DEF r
<1>8. QED
  BY <1>1, <1>4, <1>5, <1>6, <1>7

LEMMA FrontFrames ==
  ASSUME NEW q \in Seq(Frame), Len(q) > 0
  PROVE  /\ Front(q) \in Seq(Frame) /\ Len(Front(q)) = Len(q) - 1
         /\ \A i \in 1 .. Len(q) - 1 : Front(q)[i] = q[i]
         /\ q = Append(Front(q), q[Len(q)]) /\ q[Len(q)] \in Frame
<1> DEFINE a == Front(q)
           f == q[Len(q)]
<1>1. Len(q) \in Nat /\ Len(q) - 1 \in 0 .. Len(q) /\ f \in Frame
  OBVIOUS
<1>2. a \in Seq(Frame) /\ Len(a) = Len(q) - 1 /\ \A i \in 1 .. Len(q) - 1 : a[i] = q[i]
  BY <1>1, SplitFrames DEF Front
<1> HIDE DEF a
<1>3. /\ Append(a, f) \in Seq(Frame) /\ Len(Append(a, f)) = Len(q)
      /\ \A i \in 1 .. Len(q) - 1 : Append(a, f)[i] = a[i]
      /\ Append(a, f)[Len(q)] = f
  BY <1>1, <1>2, AppendProperties
<1>4. \A i \in 1 .. Len(q) : q[i] = Append(a, f)[i]
  BY <1>1, <1>2, <1>3
<1>5. q = Append(a, f)
  BY <1>3, <1>4, SeqEqual
<1>6. QED
  BY <1>1, <1>2, <1>5 DEF a

(* A group of multicast frames is read, and perhaps a unicast frame.       *)
LEMMA FramesRead ==
  ASSUME NEW s \in State, NEW r \in State, Queued(s),
         NEW group \in Seq(Frame), NEW u \in Frame,
         r.mcast = s.mcast \o group, r.sent = s.sent, r.gone = s.gone,
         Len(s.mcast) + Len(group) <= Capacity,
         \A f \in Range(group) : f.dst = Group,
         \/ s.host = group \o r.host /\ r.next = s.next
         \/ /\ s.host = Append(group, u) \o r.host
            /\ s.next = NoFrame /\ r.next = u /\ u.dst # Group
  PROVE  Queued(r) /\ Kept(s, r)
<1>1. /\ s.host \in Seq(Frame) /\ s.mcast \in Seq(Frame) /\ s.sent \in Seq(Frame)
      /\ s.gone \in Seq(Frame) /\ r.host \in Seq(Frame) /\ u # NoFrame
  BY Fields, NoFrameFacts
<1>2. /\ Range(r.mcast) = Range(s.mcast) \cup Range(group)
      /\ Len(r.mcast) = Len(s.mcast) + Len(group)
      /\ Increasing(s.mcast) /\ Increasing(group) /\ Earlier(Range(s.mcast), Range(group))
           => Increasing(r.mcast)
  BY <1>1, ConcatFrames
<1>3. CASE s.host = group \o r.host /\ r.next = s.next
  <2>1. /\ Range(s.host) = Range(group) \cup Range(r.host)
        /\ Len(s.host) = Len(group) + Len(r.host)
        /\ Increasing(group) /\ Increasing(r.host) /\ Earlier(Range(group), Range(r.host))
    BY <1>1, <1>3, ConcatFrames DEF Queued
  <2>2. Held(r) = Held(s) /\ Waiting(r) = Waiting(s)
    BY <1>3 DEF Held, Waiting
  <2>3. All(r) = All(s)
    BY <1>2, <2>1, <2>2 DEF All
  <2>4. Total(r) = Total(s)
    <3>1. Measured(s) /\ Measured(r) /\ Len(group) \in Nat
      BY Lengths
    <3>2. Len(s.host) = Len(group) + 0 + Len(r.host) /\ Waiting(r) = Waiting(s) + 0
      BY <2>1, <2>2, <3>1 DEF Measured
    <3>3. QED
      BY <1>2, <3>1, <3>2, Read
  <2>5. Increasing(r.mcast)
    BY <1>2, <2>1 DEF Queued, Earlier
  <2>6. /\ Earlier(Range(r.sent) \cup Range(r.mcast) \cup Held(r), Range(r.host))
        /\ Earlier({ f \in Range(r.sent) : f.dst = Group }, Range(r.mcast))
        /\ Earlier({ f \in Range(r.sent) : f.dst # Group }, Held(r))
    BY <1>2, <2>1, <2>2 DEF Queued, Earlier
  <2>7. QED
    BY <1>2, <2>1, <2>2, <2>3, <2>4, <2>5, <2>6 DEF Queued, Kept
<1>4. CASE /\ s.host = Append(group, u) \o r.host
           /\ s.next = NoFrame /\ r.next = u /\ u.dst # Group
  <2> DEFINE a == Append(group, u)
  <2>1. /\ a \in Seq(Frame) /\ Len(a) = Len(group) + 1
        /\ Range(a) = Range(group) \cup { u }
        /\ Increasing(a) => Increasing(group) /\ Earlier(Range(group), { u })
    BY AppendFrame
  <2>2. s.host = a \o r.host
    BY <1>4
  <2> HIDE DEF a
  <2>3. /\ Range(s.host) = Range(group) \cup { u } \cup Range(r.host)
        /\ Len(s.host) = Len(group) + 1 + Len(r.host)
        /\ Increasing(a) /\ Increasing(r.host)
        /\ Earlier(Range(group) \cup { u }, Range(r.host))
    <3>1. Increasing(s.host)
      BY DEF Queued
    <3>2. a \in Seq(Frame) /\ r.host \in Seq(Frame)
      BY <1>1, <2>1
    <3>3. /\ Range(a \o r.host) = Range(a) \cup Range(r.host)
          /\ Len(a \o r.host) = Len(a) + Len(r.host)
          /\ Increasing(a \o r.host) =>
               Increasing(a) /\ Increasing(r.host) /\ Earlier(Range(a), Range(r.host))
      BY <3>2, ConcatFrames, Zenon
    <3>4. QED
      BY <2>1, <2>2, <3>1, <3>3
  <2>4. Held(r) = { u } /\ Held(s) = { } /\ Waiting(r) = 1 /\ Waiting(s) = 0
    BY <1>1, <1>4 DEF Held, Waiting
  <2>5. All(r) = All(s)
    BY <1>2, <2>3, <2>4 DEF All
  <2>6. Total(r) = Total(s)
    <3>1. Len(group) \in Nat /\ Waiting(r) = Waiting(s) + 1
      BY <2>4
    <3>2. QED
      BY <1>2, <2>3, <3>1, Read
  <2>7. Increasing(r.mcast)
    BY <1>2, <2>1, <2>3 DEF Queued, Earlier
  <2>8. /\ Earlier(Range(r.sent) \cup Range(r.mcast) \cup Held(r), Range(r.host))
        /\ Earlier({ f \in Range(r.sent) : f.dst = Group }, Range(r.mcast))
        /\ Earlier({ f \in Range(r.sent) : f.dst # Group }, Held(r))
    BY <1>2, <2>3, <2>4 DEF Queued, Earlier
  <2>9. QED
    BY <1>2, <1>4, <2>3, <2>4, <2>5, <2>6, <2>7, <2>8 DEF Queued, Kept
<1>5. QED
  BY <1>3, <1>4

(* A put of frames that fit appends them.                                  *)
LEMMA PushedThatFit ==
  ASSUME NEW q \in Seq(Frame), NEW xs \in Seq(Frame), Len(q) + Len(xs) <= Capacity
  PROVE  Q!PushedAll(q, xs) = q \o xs
<1>1. Len(q \o xs) = Len(q) + Len(xs) /\ Len(q) \in Nat /\ Len(xs) \in Nat
  OBVIOUS
<1>2. QED
  BY <1>1, Constants DEF Q!PushedAll

(* Reading stops at the first place where it must.                         *)
Stop(s, k) ==
  \/ s.next # NoFrame
  \/ k = Len(s.host)
  \/ k > 0 /\ s.host[k].dst # Group
  \/ Len(s.mcast) + k >= Capacity
Count(s) == CHOOSE k \in 0 .. Len(s.host) : Stop(s, k) /\ \A j \in 0 .. k - 1 : ~Stop(s, j)

LEMMA CountFacts ==
  ASSUME NEW s \in State, Queued(s)
  PROVE  /\ Count(s) \in 0 .. Len(s.host)
         /\ s.next # NoFrame => Count(s) = 0
         /\ Len(s.mcast) + Count(s) <= Capacity
         /\ \A j \in 1 .. Count(s) - 1 : s.host[j].dst = Group
<1> DEFINE n == Len(s.host)
           T == { k \in 0 .. n : Stop(s, k) }
<1>1. n \in Nat /\ Len(s.mcast) \in Nat /\ Len(s.mcast) <= Capacity
  BY Lengths DEF Measured, Queued
<1>2. T \in SUBSET Nat /\ n \in T
  BY <1>1 DEF Stop
<1>3. PICK k \in T : \A m \in T : k <= m
  BY <1>2, LeastNumber
<1>4. k \in 0 .. n /\ Stop(s, k) /\ \A j \in 0 .. k - 1 : ~Stop(s, j)
  BY <1>1, <1>3
<1>5. Count(s) \in 0 .. n /\ \A j \in 0 .. Count(s) - 1 : ~Stop(s, j)
  BY <1>4 DEF Count
<1> DEFINE c == Count(s)
<1> HIDE DEF c, n
<1>6. s.next # NoFrame => c = 0
  <2>1. SUFFICES ASSUME s.next # NoFrame, c > 0 PROVE FALSE
    BY <1>1, <1>5 DEF c
  <2>2. 0 \in 0 .. c - 1
    BY <1>1, <1>5, <2>1 DEF c
  <2>3. ~Stop(s, 0)
    BY <1>5, <2>2 DEF c
  <2>4. QED
    BY <2>1, <2>3 DEF Stop
<1>7. Len(s.mcast) + c <= Capacity
  <2>1. CASE c = 0
    BY <1>1, <2>1, Constants
  <2>2. CASE c > 0
    <3>1. c - 1 \in 0 .. c - 1
      BY <1>1, <1>5, <2>2 DEF c
    <3>2. ~(Len(s.mcast) + (c - 1) >= Capacity)
      BY <1>5, <3>1 DEF Stop, c
    <3>3. QED
      BY <1>1, <1>5, <3>2, Constants DEF c
  <2>3. QED
    BY <1>1, <1>5, <2>1, <2>2 DEF c
<1>8. \A j \in 1 .. c - 1 : s.host[j].dst = Group
  <2>1. SUFFICES ASSUME NEW j \in 1 .. c - 1 PROVE s.host[j].dst = Group
    OBVIOUS
  <2>2. j \in 0 .. c - 1 /\ j > 0
    BY <1>1, <1>5 DEF c
  <2>3. ~Stop(s, j)
    BY <1>5, <2>2 DEF c
  <2>4. QED
    BY <2>2, <2>3 DEF Stop
<1>9. QED
  BY <1>5, <1>6, <1>7, <1>8 DEF c, n

(* What poll_host_device does, field by field.                             *)
LEMMA PolledFields ==
  ASSUME NEW s \in State
  PROVE  LET r == Polled(s)
             read == SubSeq(s.host, 1, Count(s))
             isUnicast == Count(s) > 0 /\ read[Count(s)].dst # Group
             group == IF isUnicast THEN Front(read) ELSE read
         IN  /\ r.sent = s.sent /\ r.gone = s.gone
             /\ r.ucTimer = s.ucTimer /\ r.mcTimer = s.mcTimer
             /\ r.host = SubSeq(s.host, Count(s) + 1, Len(s.host))
             /\ r.next = IF isUnicast THEN read[Count(s)] ELSE s.next
             /\ r.mcast = Q!PushedAll(s.mcast, group)
             /\ { r.host, r.mcast } \subseteq Seq(Frame) /\ r.next \in Frame \cup { NoFrame }
                  => r \in State
<1> DEFINE read == SubSeq(s.host, 1, Count(s))
           isUnicast == Count(s) > 0 /\ read[Count(s)].dst # Group
           group == IF isUnicast THEN Front(read) ELSE read
           host2 == SubSeq(s.host, Count(s) + 1, Len(s.host))
           next2 == IF isUnicast THEN read[Count(s)] ELSE s.next
           mcast2 == Q!PushedAll(s.mcast, group)
           r == [ s EXCEPT !.host = host2, !.next = next2, !.mcast = mcast2 ]
<1>1. Polled(s) = r
  BY Zenon DEF Polled, Count, Stop
<1> HIDE DEF host2, next2, mcast2
<1>2. /\ r.sent = s.sent /\ r.gone = s.gone
      /\ r.ucTimer = s.ucTimer /\ r.mcTimer = s.mcTimer
      /\ r.host = host2 /\ r.next = next2 /\ r.mcast = mcast2
  BY Zenon DEF State
<1>3. host2 \in Seq(Frame) /\ mcast2 \in Seq(Frame) /\ next2 \in Frame \cup { NoFrame } => r \in State
  BY Zenon DEF State
<1> HIDE DEF r
<1>4. { r.host, r.mcast } \subseteq Seq(Frame) /\ r.next \in Frame \cup { NoFrame } => r \in State
  BY <1>2, <1>3
<1>5. QED
  BY <1>1, <1>2, <1>4 DEF r, host2, next2, mcast2

(* Reading moves frames from the host to the queue, never more than fit,   *)
(* and at most one unicast frame to its place.                             *)
LEMMA PolledKeeps ==
  ASSUME NEW s \in State, Queued(s)
  PROVE  LET r == Polled(s)
         IN  /\ r \in State /\ Queued(r) /\ Kept(s, r)
             /\ r.sent = s.sent /\ r.ucTimer = s.ucTimer /\ r.mcTimer = s.mcTimer
<1> DEFINE r == Polled(s)
           c == Count(s)
           read == SubSeq(s.host, 1, c)
           rest == SubSeq(s.host, c + 1, Len(s.host))
           isUnicast == c > 0 /\ read[c].dst # Group
           group == IF isUnicast THEN Front(read) ELSE read
<1>1. /\ r.sent = s.sent /\ r.gone = s.gone
      /\ r.ucTimer = s.ucTimer /\ r.mcTimer = s.mcTimer
      /\ r.host = rest
      /\ r.next = IF isUnicast THEN read[c] ELSE s.next
      /\ r.mcast = Q!PushedAll(s.mcast, group)
      /\ { r.host, r.mcast } \subseteq Seq(Frame) /\ r.next \in Frame \cup { NoFrame }
           => r \in State
  BY PolledFields
<1>2. /\ s.host \in Seq(Frame) /\ s.mcast \in Seq(Frame) /\ s.next \in Frame \cup { NoFrame }
      /\ Len(s.mcast) \in Nat
  BY Fields
<1>3. /\ c \in 0 .. Len(s.host)
      /\ s.next # NoFrame => c = 0
      /\ Len(s.mcast) + c <= Capacity
      /\ \A j \in 1 .. c - 1 : s.host[j].dst = Group
  BY CountFacts
<1>4. /\ read \in Seq(Frame) /\ rest \in Seq(Frame) /\ s.host = read \o rest
      /\ Len(read) = c /\ \A i \in 1 .. c : read[i] = s.host[i]
  BY <1>2, <1>3, SplitFrames
<1> HIDE DEF r, c, read, rest
<1>5. c \in Nat
  BY <1>2, <1>3
<1>6. CASE isUnicast
  <2> DEFINE u == read[c]
             g == Front(read)
  <2>1. /\ g \in Seq(Frame) /\ Len(g) = c - 1 /\ u \in Frame
        /\ \A i \in 1 .. c - 1 : g[i] = read[i]
        /\ read = Append(g, u)
    BY <1>4, <1>6, FrontFrames
  <2>2. u.dst # Group /\ c > 0 /\ s.next = NoFrame
    BY <1>3, <1>6
  <2> HIDE DEF g, u
  <2>3. \A f \in Range(g) : f.dst = Group
    <3>1. \A i \in 1 .. Len(g) : g[i].dst = Group
      BY <1>3, <1>4, <1>5, <2>1
    <3>2. DOMAIN g = 1 .. Len(g)
      BY <2>1
    <3>3. QED
      BY <3>1, <3>2 DEF Range
  <2>4. Len(s.mcast) + Len(g) <= Capacity
    BY <1>2, <1>3, <1>5, <2>1, Constants
  <2>5. r.mcast = s.mcast \o g /\ r.next = u /\ r.host = rest
    BY <1>1, <1>2, <1>6, <2>1, <2>4, PushedThatFit DEF g, u
  <2>6. s.mcast \o g \in Seq(Frame)
    BY <1>2, <2>1, ConcatFrames
  <2>7. r \in State
    BY <1>1, <1>4, <2>1, <2>5, <2>6
  <2>8. s.host = Append(g, u) \o r.host
    BY <1>4, <2>1, <2>5
  <2>9. Queued(r) /\ Kept(s, r)
    BY <1>1, <2>1, <2>2, <2>3, <2>4, <2>5, <2>7, <2>8, FramesRead
  <2>10. QED
    BY <1>1, <2>7, <2>9 DEF r
<1>7. CASE ~isUnicast
  <2>1. \A f \in Range(read) : f.dst = Group
    <3>1. c > 0 => read[c].dst = Group
      BY <1>7
    <3>2. \A i \in 1 .. c : read[i].dst = Group
      BY <1>3, <1>4, <1>5, <3>1
    <3>3. DOMAIN read = 1 .. c
      BY <1>4
    <3>4. QED
      BY <3>2, <3>3 DEF Range
  <2>2. r.mcast = s.mcast \o read /\ r.next = s.next /\ r.host = rest
    BY <1>1, <1>2, <1>3, <1>4, <1>7, PushedThatFit
  <2>3. s.mcast \o read \in Seq(Frame)
    BY <1>2, <1>4, ConcatFrames
  <2>4. r \in State
    BY <1>1, <1>2, <1>4, <2>2, <2>3
  <2>5. s.host = read \o r.host
    BY <1>4, <2>2
  <2>6. Queued(r) /\ Kept(s, r)
    <3>1. CASE c > 0
      <4>1. read[c] \in Frame
        BY <1>4, <1>5, <3>1
      <4>2. QED
        BY <1>1, <1>3, <1>4, <2>1, <2>2, <2>4, <2>5, <4>1, FramesRead
    <3>2. CASE c = 0
      <4>1. read = << >>
        BY <1>4, <3>2, EmptySeq
      <4>2. r.mcast = s.mcast /\ r.host = s.host
        BY <1>2, <1>4, <2>2, <2>3, <4>1
      <4>3. QED
        BY <1>1, <2>2, <4>2, SameFrames
    <3>3. QED
      BY <1>5, <3>1, <3>2
  <2>7. QED
    BY <1>1, <2>4, <2>6 DEF r
<1>8. QED
  BY <1>6, <1>7
-----------------------------------------------------------------------------
(* The inductive invariant: what each property says of the state, and the  *)
(* order of all the frames, without which the order of those sent would    *)
(* not last.                                                               *)
TxTypes ==
  /\ now \in 0 .. Cycle - 1
  /\ Current \in State
  /\ DOMAIN meets \subseteq Peer /\ Range(meets) \subseteq Meetings
  /\ written \in 0 .. MaxFrames /\ changes \in 0 .. MaxChanges

Accounted ==
  /\ { f.id : f \in All(Current) } = 1 .. written
  /\ Total(Current) = written

TxInv == TxTypes /\ NoFrameStranded /\ Queued(Current) /\ Accounted

(* The step of SentInWindow.                                               *)
InTime == \A i \in DOMAIN sent' \ DOMAIN sent : InWindow(sent'[i])

LEMMA CurrentFields ==
  /\ Current.host = host /\ Current.next = next /\ Current.mcast = mcast
  /\ Current.ucTimer = ucTimer /\ Current.mcTimer = mcTimer /\ Current.fed = fed
  /\ Current.sent = sent /\ Current.gone = gone
BY DEF Current

LEMMA Became == ASSUME NEW r \in State, Become(r) PROVE Current' = r
BY DEF Become, Current, State

LEMMA Together ==
  ASSUME NEW s, NEW r, NEW t, Kept(s, r), Kept(r, t), Extends(s, r), Extends(r, t)
  PROVE  Kept(s, t) /\ Extends(s, t)
<1>1. Kept(s, t)
  BY DEF Kept
<1>2. Extends(s, t)
  BY DEF Extends
<1>3. QED
  BY <1>1, <1>2

(* A callback that keeps the frames keeps the invariant.                   *)
LEMMA CallbackStep ==
  ASSUME TxInv, NEW r \in State, Become(r), UNCHANGED << now, meets, written, changes >>,
         Queued(r), Kept(Current, r), Extends(Current, r),
         r.next # NoFrame => r.ucTimer # Off,
         r.mcast # << >> => r.mcTimer # Off
  PROVE  TxInv' /\ InTime
<1>1. Current' = r /\ next' = r.next /\ mcast' = r.mcast /\ ucTimer' = r.ucTimer
      /\ mcTimer' = r.mcTimer /\ sent' = r.sent
  BY Became DEF Become
<1>2. TxTypes'
  BY <1>1 DEF TxInv, TxTypes
<1>3. NoFrameStranded'
  BY <1>1 DEF NoFrameStranded
<1>4. Queued(Current)'
  BY <1>1
<1>5. Accounted'
  BY <1>1 DEF TxInv, Accounted, Kept
<1>6. InTime
  BY <1>1, CurrentFields DEF InTime, Extends
<1>7. QED
  BY <1>2, <1>3, <1>4, <1>5, <1>6 DEF TxInv

LEMMA UnicastTimerStep == TxInv /\ UnicastTimer => TxInv' /\ InTime
<1> SUFFICES ASSUME TxInv, UnicastTimer PROVE TxInv' /\ InTime
  OBVIOUS
<1> DEFINE s == [ Current EXCEPT !.ucTimer = Off ]
           r == SendUnicast(s)
<1>1. Current \in State /\ Queued(Current) /\ now \in 0 .. Cycle - 1
  BY DEF TxInv, TxTypes
<1>2. /\ s \in State
      /\ s.host = host /\ s.next = next /\ s.mcast = mcast /\ s.mcTimer = mcTimer
      /\ s.sent = sent /\ s.gone = gone
  BY <1>1, TimerFacts, CurrentFields DEF State
<1>3. Become(r) /\ UNCHANGED << now, meets, written, changes >>
  BY DEF UnicastTimer
<1> HIDE DEF s
<1>4. Queued(s) /\ Kept(Current, s)
  BY <1>1, <1>2, CurrentFields, SameFrames
<1>5. /\ r \in State /\ Queued(r) /\ Kept(s, r) /\ Extends(s, r)
      /\ r.mcast = s.mcast /\ r.mcTimer = s.mcTimer
      /\ r.next # NoFrame => r.ucTimer # Off
  BY <1>1, <1>2, <1>4, SendUnicastKeeps
<1> HIDE DEF r
<1>6. Kept(Current, r) /\ Extends(Current, r)
  BY <1>2, <1>4, <1>5, CurrentFields DEF Kept, Extends
<1>7. r.mcast # << >> => r.mcTimer # Off
  BY <1>2, <1>5 DEF TxInv, NoFrameStranded
<1>8. QED
  BY <1>3, <1>5, <1>6, <1>7, CallbackStep

LEMMA MulticastTimerStep == TxInv /\ MulticastTimer => TxInv' /\ InTime
<1> SUFFICES ASSUME TxInv, MulticastTimer PROVE TxInv' /\ InTime
  OBVIOUS
<1> DEFINE s == [ Current EXCEPT !.mcTimer = Off ]
           r == SendMulticast(s)
<1>1. Current \in State /\ Queued(Current) /\ now \in 0 .. Cycle - 1
  BY DEF TxInv, TxTypes
<1>2. /\ s \in State
      /\ s.host = host /\ s.next = next /\ s.mcast = mcast /\ s.ucTimer = ucTimer
      /\ s.sent = sent /\ s.gone = gone
  BY <1>1, TimerFacts, CurrentFields DEF State
<1>3. Become(r) /\ UNCHANGED << now, meets, written, changes >>
  BY DEF MulticastTimer
<1> HIDE DEF s
<1>4. Queued(s) /\ Kept(Current, s)
  BY <1>1, <1>2, CurrentFields, SameFrames
<1>5. /\ r \in State /\ Queued(r) /\ Kept(s, r) /\ Extends(s, r)
      /\ r.next = s.next /\ r.ucTimer = s.ucTimer
      /\ r.mcast # << >> => r.mcTimer # Off
  BY <1>1, <1>2, <1>4, SendMulticastKeeps
<1> HIDE DEF r
<1>6. Kept(Current, r) /\ Extends(Current, r)
  BY <1>2, <1>4, <1>5, CurrentFields DEF Kept, Extends
<1>7. r.next # NoFrame => r.ucTimer # Off
  BY <1>2, <1>5 DEF TxInv, NoFrameStranded
<1>8. QED
  BY <1>3, <1>5, <1>6, <1>7, CallbackStep

LEMMA HostDeviceReadyStep == TxInv /\ HostDeviceReady => TxInv' /\ InTime
<1> SUFFICES ASSUME TxInv, HostDeviceReady PROVE TxInv' /\ InTime
  OBVIOUS
<1> DEFINE s == [ Current EXCEPT !.fed = FALSE ]
           polled == Polled(s)
           multicast == IF polled.mcast # mcast THEN SendMulticast(polled) ELSE polled
           r == IF polled.next # next THEN SendUnicast(multicast) ELSE multicast
<1>1. Current \in State /\ Queued(Current) /\ now \in 0 .. Cycle - 1
  BY DEF TxInv, TxTypes
<1>2. /\ s \in State
      /\ s.host = host /\ s.next = next /\ s.mcast = mcast /\ s.ucTimer = ucTimer
      /\ s.mcTimer = mcTimer /\ s.sent = sent /\ s.gone = gone
  BY <1>1, CurrentFields DEF State
<1>3. Become(r) /\ UNCHANGED << now, meets, written, changes >>
  BY DEF HostDeviceReady
<1> HIDE DEF s
<1>4. Queued(s) /\ Kept(Current, s) /\ Extends(Current, s)
  BY <1>1, <1>2, CurrentFields, SameFrames DEF Extends
<1>5. /\ polled \in State /\ Queued(polled) /\ Kept(s, polled)
      /\ polled.sent = s.sent /\ polled.ucTimer = s.ucTimer /\ polled.mcTimer = s.mcTimer
  BY <1>2, <1>4, PolledKeeps
<1> HIDE DEF polled
<1>6. Kept(Current, polled) /\ Extends(Current, polled)
  <2>1. Extends(s, polled)
    BY <1>5 DEF Extends
  <2>2. QED
    BY <1>4, <1>5, <2>1, Together
<1>7. /\ multicast \in State /\ Queued(multicast)
      /\ Kept(Current, multicast) /\ Extends(Current, multicast)
      /\ multicast.next = polled.next /\ multicast.ucTimer = polled.ucTimer
      /\ multicast.mcast # << >> => multicast.mcTimer # Off
  <2>1. CASE polled.mcast # mcast
    <3>1. multicast = SendMulticast(polled)
      BY <2>1
    <3> HIDE DEF multicast
    <3>2. /\ multicast \in State /\ Queued(multicast)
          /\ Kept(polled, multicast) /\ Extends(polled, multicast)
          /\ multicast.next = polled.next /\ multicast.ucTimer = polled.ucTimer
          /\ multicast.mcast # << >> => multicast.mcTimer # Off
      BY <1>1, <1>5, <3>1, SendMulticastKeeps
    <3>3. QED
      BY <1>6, <3>2, Together
  <2>2. CASE polled.mcast = mcast
    <3>1. multicast = polled
      BY <2>2
    <3>2. polled.mcast # << >> => polled.mcTimer # Off
      BY <1>2, <1>5, <2>2 DEF TxInv, NoFrameStranded
    <3>3. QED
      BY <1>5, <1>6, <3>1, <3>2
  <2>3. QED
    BY <2>1, <2>2
<1> HIDE DEF multicast
<1>8. /\ r \in State /\ Queued(r) /\ Kept(Current, r) /\ Extends(Current, r)
      /\ r.next # NoFrame => r.ucTimer # Off
      /\ r.mcast # << >> => r.mcTimer # Off
  <2>1. CASE polled.next # next
    <3>1. r = SendUnicast(multicast)
      BY <2>1
    <3> HIDE DEF r
    <3>2. /\ r \in State /\ Queued(r) /\ Kept(multicast, r) /\ Extends(multicast, r)
          /\ r.mcast = multicast.mcast /\ r.mcTimer = multicast.mcTimer
          /\ r.next # NoFrame => r.ucTimer # Off
      BY <1>1, <1>7, <3>1, SendUnicastKeeps
    <3>3. Kept(Current, r) /\ Extends(Current, r)
      BY <1>7, <3>2, Together
    <3>4. QED
      BY <1>7, <3>2, <3>3
  <2>2. CASE polled.next = next
    <3>1. r = multicast
      BY <2>2
    <3>2. multicast.next # NoFrame => multicast.ucTimer # Off
      BY <1>2, <1>5, <1>7, <2>2 DEF TxInv, NoFrameStranded
    <3>3. QED
      BY <1>7, <3>1, <3>2
  <2>3. QED
    BY <2>1, <2>2
<1> HIDE DEF r
<1>9. QED
  BY <1>3, <1>8, CallbackStep

(* Time does not strand a frame: a timer that runs stays on.               *)
LEMMA TickStep == TxInv /\ Tick => TxInv' /\ InTime
<1> SUFFICES ASSUME TxInv, Tick PROVE TxInv' /\ InTime
  OBVIOUS
<1>1. /\ now' = (now + 1) % Cycle
      /\ ucTimer' = Elapsed(ucTimer) /\ mcTimer' = Elapsed(mcTimer)
      /\ ucTimer # -MaxLate /\ mcTimer # -MaxLate
      /\ UNCHANGED << host, next, mcast, fed, sent, gone, meets, written, changes >>
  BY DEF Tick
<1>2. Current \in State /\ now \in 0 .. Cycle - 1
  BY DEF TxInv, TxTypes
<1>3. /\ ucTimer \in Timer /\ mcTimer \in Timer
      /\ host \in Seq(Frame) /\ next \in Frame \cup {NoFrame} /\ mcast \in Seq(Frame)
      /\ fed \in BOOLEAN /\ sent \in Seq(Frame) /\ gone \in Seq(Frame)
  BY <1>2, Fields, CurrentFields
<1>4. \A t \in Timer : t # -MaxLate =>
        Elapsed(t) \in Timer /\ (t # Off => Elapsed(t) # Off)
  BY Constants DEF Elapsed, Timer, Off
<1>5. ucTimer' \in Timer /\ mcTimer' \in Timer
      /\ (ucTimer # Off => ucTimer' # Off) /\ (mcTimer # Off => mcTimer' # Off)
  BY <1>1, <1>3, <1>4
<1>6. Current' \in State
  BY <1>1, <1>3, <1>5 DEF Current, State
<1>7. TxTypes'
  <2>1. now' \in 0 .. Cycle - 1
    BY <1>1, <1>2, CycleFacts
  <2>2. QED
    BY <1>1, <1>6, <2>1 DEF TxInv, TxTypes
<1>8. NoFrameStranded'
  BY <1>1, <1>5 DEF TxInv, NoFrameStranded
<1>9. /\ Current'.host = Current.host /\ Current'.next = Current.next
      /\ Current'.gone = Current.gone /\ Current'.mcast = Current.mcast
      /\ Current'.sent = Current.sent
  BY <1>1 DEF Current
<1>10. Queued(Current)' /\ Kept(Current, Current')
  BY <1>9, SameFrames DEF TxInv
<1>11. Accounted'
  BY <1>1, <1>10 DEF TxInv, Accounted, Kept
<1>12. InTime
  BY <1>1 DEF InTime
<1>13. QED
  BY <1>7, <1>8, <1>10, <1>11, <1>12 DEF TxInv

(* The new frame comes after all the others.                               *)
LEMMA WriteStep ==
  ASSUME TxInv, NEW dst \in Peer \cup {Group, Self}, Write(dst)
  PROVE  TxInv' /\ InTime
<1> DEFINE f == [ id |-> written + 1, dst |-> dst ]
           s == Current
<1>1. /\ written < MaxFrames /\ written' = written + 1 /\ host' = Append(host, f)
      /\ UNCHANGED << now, next, mcast, ucTimer, mcTimer, fed, sent, gone, meets, changes >>
  BY DEF Write
<1>2. written \in 0 .. MaxFrames /\ s \in State /\ Queued(s)
      /\ { g.id : g \in All(s) } = 1 .. written /\ Total(s) = written
  BY DEF TxInv, TxTypes, Accounted
<1>3. f \in Frame /\ f.id = written + 1 /\ written + 1 \in Nat
  BY <1>1, <1>2, Constants DEF Frame
<1> HIDE DEF f
<1>4. /\ host \in Seq(Frame) /\ next \in Frame \cup {NoFrame} /\ mcast \in Seq(Frame)
      /\ ucTimer \in Timer /\ mcTimer \in Timer /\ fed \in BOOLEAN
      /\ sent \in Seq(Frame) /\ gone \in Seq(Frame)
  BY <1>2, Fields, CurrentFields
<1>5. \A g \in All(s) : g.id < f.id
  <2>1. \A g \in All(s) : g.id \in 1 .. written
    BY <1>2
  <2>2. QED
    BY <1>2, <1>3, <2>1
<1>6. /\ host' \in Seq(Frame) /\ Len(host') = Len(host) + 1
      /\ Range(host') = Range(host) \cup { f }
      /\ Increasing(host) /\ Earlier(Range(host), { f }) => Increasing(host')
  BY <1>1, <1>3, <1>4, AppendFrame
<1>7. Current' \in State
  BY <1>1, <1>4, <1>6 DEF Current, State
<1>8. /\ Current'.host = host' /\ Current'.next = next /\ Current'.mcast = mcast
      /\ Current'.sent = sent /\ Current'.gone = gone
  BY <1>1 DEF Current
<1>9. /\ s.host = host /\ s.next = next /\ s.mcast = mcast /\ s.sent = sent /\ s.gone = gone
  BY CurrentFields
<1> HIDE DEF s
<1>10. TxTypes'
  BY <1>1, <1>2, <1>7, Constants DEF TxInv, TxTypes
<1>11. NoFrameStranded'
  BY <1>1 DEF TxInv, NoFrameStranded
<1>12. Held(Current') = Held(s) /\ Waiting(Current') = Waiting(s)
  BY <1>8, <1>9 DEF Held, Waiting
<1>13. All(Current') = All(s) \cup { f }
  BY <1>6, <1>8, <1>9, <1>12 DEF All
<1>14. Queued(Current)'
  <2>1. Earlier(Range(host), { f }) /\ Increasing(host)
    BY <1>2, <1>5, <1>9 DEF Earlier, All, Queued
  <2>2. Earlier(Range(sent) \cup Range(mcast) \cup Held(s), Range(host'))
    BY <1>2, <1>5, <1>6, <1>9 DEF Earlier, All, Queued
  <2>3. QED
    BY <1>2, <1>6, <1>8, <1>9, <1>12, <2>1, <2>2 DEF Queued
<1>15. Total(Current') = written'
  <2>1. Measured(s) /\ Measured(Current') /\ Len(Current'.host) = Len(s.host) + 1
    BY <1>2, <1>6, <1>7, <1>8, <1>9, Lengths
  <2>2. Total(Current') = Total(s) + 1
    BY <1>2, <1>7, <1>8, <1>9, <1>12, <2>1, OneMore
  <2>3. QED
    BY <1>1, <1>2, <2>2
<1>16. { g.id : g \in All(Current') } = 1 .. written'
  <2>1. { g.id : g \in All(Current') } = { g.id : g \in All(s) } \cup { f.id }
    BY <1>13
  <2>2. 1 .. written + 1 = (1 .. written) \cup { written + 1 }
    BY <1>2
  <2>3. QED
    BY <1>1, <1>2, <1>3, <2>1, <2>2
<1>17. InTime
  BY <1>1 DEF InTime
<1>18. QED
  BY <1>10, <1>11, <1>14, <1>15, <1>16, <1>17 DEF TxInv, Accounted

LEMMA SameCurrent ==
  ASSUME TxInv, UNCHANGED << tx, written >>, TxTypes'
  PROVE  TxInv' /\ InTime
<1>1. Current' = Current
  BY DEF Current, tx
<1>2. NoFrameStranded'
  BY DEF TxInv, NoFrameStranded, tx
<1>3. Queued(Current)' /\ Accounted'
  BY <1>1 DEF TxInv, Accounted
<1>4. InTime
  BY DEF InTime, tx
<1>5. QED
  BY <1>2, <1>3, <1>4 DEF TxInv

(* Changes of peers and of the clock leave the frames alone.               *)
LEMMA ChangeStep ==
  ASSUME TxInv,
         \/ \E p \in Peer : Leave(p) \/ Expire(p) \/ \E slots \in Meetings : Learn(p, slots)
         \/ \E t \in 0 .. Cycle - 1 : Resync(t)
  PROVE  TxInv' /\ InTime
<1>1. UNCHANGED << tx, written >> /\ changes' \in 0 .. MaxChanges
  <2>1. /\ tx' = tx /\ written' = written
        /\ \/ changes' = changes
           \/ changes < MaxChanges /\ changes' = changes + 1
    BY DEF Leave, Expire, Learn, Resync, Change
  <2>2. QED
    BY <2>1, Constants DEF TxInv, TxTypes
<1>2. Current' = Current
  BY <1>1 DEF Current, tx
<1>3. now' \in 0 .. Cycle - 1
  BY DEF Leave, Expire, Learn, Resync, TxInv, TxTypes
<1>4. DOMAIN meets' \subseteq Peer /\ Range(meets') \subseteq Meetings
  <2>1. \A q \in DOMAIN meets : q \in Peer /\ meets[q] \in Meetings
    BY DEF TxInv, TxTypes, Range
  <2>2. CASE \E p \in Peer : Leave(p) \/ Expire(p)
    <3>1. PICK p \in Peer : meets' = Without(p)
      BY <2>2 DEF Leave, Expire
    <3>2. DOMAIN meets' \subseteq DOMAIN meets /\ \A q \in DOMAIN meets' : meets'[q] = meets[q]
      BY <3>1 DEF Without
    <3>3. QED
      BY <2>1, <3>2 DEF Range
  <2>3. CASE \E p \in Peer, slots \in Meetings : Learn(p, slots)
    <3>1. PICK p \in Peer, slots \in Meetings :
            meets' = [ q \in DOMAIN meets \cup {p} |-> IF q = p THEN slots ELSE meets[q] ]
      BY <2>3 DEF Learn
    <3>2. /\ DOMAIN meets' = DOMAIN meets \cup {p}
          /\ \A q \in DOMAIN meets' : meets'[q] = IF q = p THEN slots ELSE meets[q]
      BY <3>1
    <3>3. QED
      BY <2>1, <3>2 DEF Range
  <2>4. CASE \E t \in 0 .. Cycle - 1 : Resync(t)
    BY <2>4 DEF Resync, TxInv, TxTypes
  <2>5. QED
    BY <2>2, <2>3, <2>4
<1>5. TxTypes'
  BY <1>1, <1>2, <1>3, <1>4 DEF TxInv, TxTypes
<1>6. QED
  BY <1>1, <1>5, SameCurrent

LEMMA TxStep == TxInv /\ [Next]_vars => TxInv' /\ InTime
<1> SUFFICES ASSUME TxInv, [Next]_vars PROVE TxInv' /\ InTime
  OBVIOUS
<1>1. CASE HostDeviceReady
  BY <1>1, HostDeviceReadyStep
<1>2. CASE UnicastTimer
  BY <1>2, UnicastTimerStep
<1>3. CASE MulticastTimer
  BY <1>3, MulticastTimerStep
<1>4. CASE Tick
  BY <1>4, TickStep
<1>5. CASE \E dst \in Peer \cup {Group, Self} : Write(dst)
  BY <1>5, WriteStep
<1>6. CASE \/ \E p \in Peer : Leave(p) \/ Expire(p) \/ \E slots \in Meetings : Learn(p, slots)
           \/ \E t \in 0 .. Cycle - 1 : Resync(t)
  BY <1>6, ChangeStep
<1>7. CASE UNCHANGED vars
  <2>1. UNCHANGED << tx, written >> /\ Current' = Current
    BY <1>7 DEF vars, tx, Current
  <2>2. TxTypes'
    BY <1>7, <2>1 DEF vars, TxInv, TxTypes
  <2>3. QED
    BY <2>1, <2>2, SameCurrent
<1>8. QED
  BY <1>1, <1>2, <1>3, <1>4, <1>5, <1>6, <1>7 DEF Next

LEMMA TxInit == Init => TxInv
<1> SUFFICES ASSUME Init PROVE TxInv
  OBVIOUS
<1>1. /\ now = 0 /\ host = << >> /\ next = NoFrame /\ mcast = << >>
      /\ ucTimer = 0 /\ mcTimer = 0 /\ fed = FALSE /\ sent = << >> /\ gone = << >>
      /\ meets = << >> /\ written = 0 /\ changes = 0
  BY DEF Init
<1>2. << >> \in Seq(Frame) /\ Len(<< >>) = 0 /\ DOMAIN << >> = { } /\ Range(<< >>) = { }
  BY DEF Range
<1>3. 0 \in Timer
  BY TimerFacts, Constants
<1>4. Current \in State
  BY <1>1, <1>2, <1>3 DEF Current, State
<1>5. TxTypes
  BY <1>1, <1>2, <1>4, Constants, CycleFacts DEF TxTypes
<1>6. NoFrameStranded
  BY <1>1 DEF NoFrameStranded
<1>7. Held(Current) = { } /\ Waiting(Current) = 0 /\ All(Current) = { }
  BY <1>1, <1>2, CurrentFields DEF Held, Waiting, All
<1>8. Queued(Current)
  BY <1>1, <1>2, <1>7, CurrentFields, Constants DEF Queued, Increasing, InOrder, Earlier
<1>9. Accounted
  <2>1. Total(Current) = 0
    BY <1>1, <1>2, <1>7, CurrentFields DEF Total
  <2>2. QED
    BY <1>1, <1>7, <2>1 DEF Accounted
<1>10. QED
  BY <1>5, <1>6, <1>8, <1>9 DEF TxInv

(* The frames in all places, in a row.                                     *)
LEMMA TxInvImplies ==
  ASSUME TxInv
  PROVE  TypeOK /\ NoFrameStranded /\ EveryFrameOnce /\ SentInOrder
<1> DEFINE s == Current
           rest == IF next = NoFrame THEN << >> ELSE << next >>
           a == host \o mcast
           b == a \o sent
           c == b \o gone
           all == c \o rest
<1>1. s \in State /\ Queued(s)
      /\ { f.id : f \in All(s) } = 1 .. written /\ Total(s) = written /\ written \in 0 .. MaxFrames
  BY DEF TxInv, TxTypes, Accounted
<1>2. /\ host \in Seq(Frame) /\ next \in Frame \cup {NoFrame} /\ mcast \in Seq(Frame)
      /\ ucTimer \in Timer /\ mcTimer \in Timer /\ fed \in BOOLEAN
      /\ sent \in Seq(Frame) /\ gone \in Seq(Frame)
  BY <1>1, Fields, CurrentFields
<1>3. TypeOK
  <2>1. \A q \in {host, mcast, sent, gone} : Range(q) \subseteq Frame
    BY <1>2, RangeOfSeq
  <2>2. Len(mcast) <= Capacity
    BY <1>1, CurrentFields DEF Queued
  <2>3. QED
    BY <1>2, <2>1, <2>2 DEF TypeOK, TxInv, TxTypes
<1>4. SentInOrder
  BY <1>1, CurrentFields DEF Queued, InOrder, SameKind, SentInOrder
<1>5. /\ rest \in Seq(Frame) /\ Len(rest) = Waiting(s) /\ Range(rest) = Held(s)
  <2>1. s.next = next
    BY CurrentFields
  <2>2. CASE next = NoFrame
    BY <2>1, <2>2 DEF Range, Waiting, Held
  <2>3. CASE next # NoFrame
    BY <1>2, <2>1, <2>3 DEF Range, Waiting, Held
  <2>4. QED
    BY <2>2, <2>3
<1> HIDE DEF rest
<1>6. a \in Seq(Frame) /\ Len(a) = Len(host) + Len(mcast) /\ Range(a) = Range(host) \cup Range(mcast)
  BY <1>2, ConcatFrames, Zenon
<1> HIDE DEF a
<1>7. b \in Seq(Frame) /\ Len(b) = Len(a) + Len(sent) /\ Range(b) = Range(a) \cup Range(sent)
  BY <1>2, <1>6, ConcatFrames, Zenon
<1> HIDE DEF b
<1>8. c \in Seq(Frame) /\ Len(c) = Len(b) + Len(gone) /\ Range(c) = Range(b) \cup Range(gone)
  BY <1>2, <1>7, ConcatFrames, Zenon
<1> HIDE DEF c
<1>9. all \in Seq(Frame) /\ Len(all) = Len(c) + Len(rest) /\ Range(all) = Range(c) \cup Range(rest)
  BY <1>5, <1>8, ConcatFrames, Zenon
<1> HIDE DEF all
<1>10. Len(all) = written
  BY <1>1, <1>5, <1>6, <1>7, <1>8, <1>9, CurrentFields DEF Total
<1>11. Range(all) = All(s)
  BY <1>5, <1>6, <1>7, <1>8, <1>9, CurrentFields DEF All
<1>12. { all[i].id : i \in DOMAIN all } = { f.id : f \in Range(all) }
  BY DEF Range
<1>13. Cardinality({ all[i].id : i \in DOMAIN all }) = written
  <2>1. { all[i].id : i \in DOMAIN all } = 1 .. written
    BY <1>1, <1>11, <1>12
  <2>2. Cardinality(1 .. written) = written
    BY <1>1, Constants, FS_Interval
  <2>3. QED
    BY <2>1, <2>2
<1>14. EveryFrameOnce
  BY <1>10, <1>13 DEF EveryFrameOnce, all, c, b, a, rest
<1>15. QED
  BY <1>3, <1>4, <1>14 DEF TxInv

(* The invariant: after every callback, the timers run that are needed,    *)
(* and all frames written are somewhere, once, in their order.             *)
THEOREM TxInvariant == Spec => []TxInv
BY TxInit, TxStep, PTL DEF Spec

(* The queue stays within its capacity, the timers within the length of a  *)
(* slot, the position within the channel sequence, and the peers that      *)
(* frames are sent to are those of the table.                              *)
THEOREM TypeCorrect == Spec => []TypeOK
<1>1. TxInv => TypeOK
  BY TxInvImplies
<1>2. QED
  BY <1>1, TxInvariant, PTL

(* For every layout of the channel sequence, guard, capacity of the queue  *)
(* and lateness of the timers: a frame that waits in state->next or in     *)
(* tx_queue_multicast always has its timer running.                        *)
THEOREM NoneStranded == Spec => []NoFrameStranded
<1>1. TxInv => NoFrameStranded
  BY TxInvImplies
<1>2. QED
  BY <1>1, TxInvariant, PTL

(* poll_host_device never reads more than tx_queue_multicast can take, and *)
(* no order of the callbacks sends a frame twice or forgets one.           *)
THEOREM NoneLostOrDoubled == Spec => []EveryFrameOnce
<1>1. TxInv => EveryFrameOnce
  BY TxInvImplies
<1>2. QED
  BY <1>1, TxInvariant, PTL

(* Multicast frames leave in the order in which the host wrote them, and   *)
(* unicast frames in theirs.                                               *)
THEOREM NoneOvertaken == Spec => []SentInOrder
<1>1. TxInv => SentInOrder
  BY TxInvImplies
<1>2. QED
  BY <1>1, TxInvariant, PTL

(* apple_p2p_can_send_in and apple_p2p_can_send_unicast_in say 0 only in a *)
(* slot that the receivers listen in, at least a guard away from an edge   *)
(* behind which they do not: a frame is sent at no other time.             *)
THEOREM SentWhileHeard == Spec => SentInWindow
<1>1. TxInv /\ [Next]_vars
        => [ \A i \in DOMAIN sent' \ DOMAIN sent : InWindow(sent'[i]) ]_vars
  BY TxStep DEF InTime
<1>2. QED
  BY <1>1, TxInvariant, PTL DEF Spec, SentInWindow
=============================================================================
