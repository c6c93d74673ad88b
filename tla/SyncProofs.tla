----------------------------- MODULE SyncProofs -----------------------------
(***************************************************************************)
(* A clock follows the one it comes from within a bound that grows with    *)
(* the number of nodes in between and with nothing else, for all widths of *)
(* the counters, lengths of windows and delays.                            *)
(***************************************************************************)
EXTENDS Sync, TLAPS

Half == (EawTu \div 2) * TuUs

(* The position that an announcement gives, in whole TUs. *)
Announced(f) ==
  (f.next_aw_seq \div PresenceMode) * EawUs + (EawTu - f.tx_down_counter) * TuUs

(* What a hop may add: the rounding to a TU and the delay of a frame. *)
Hop == MaxDelay + (TuUs - 1)

Aligned == \A n \in Node : aw_counter[n] % PresenceMode = 0

(* A daemon that has not started follows nobody and nobody follows it.     *)
Running ==
  /\ \A n \in Node \ up :
       aw_counter[n] = 0 /\ origin[n] = n /\ hops[n] = 0 /\ shifted[n] /\ mifIn[n] = 0
  /\ \A n \in up : origin[n] \in up
  /\ \A frame \in air : frame.dst \in up /\ frame.body.src \in up /\ frame.body.origin \in up

(* Adjustments are counted once, and every one is one hop. *)
Counted ==
  /\ \A n \in Node : meas_total[n] <= syncs /\ meas_err[n] <= meas_total[n] /\ hops[n] <= syncs
  /\ \A frame \in air : frame.body.hops <= syncs

(* The part of BehindByHops that is on its way: an announcement grows old. *)
FramesBehind ==
  \A frame \in air :
    (free[frame.body.origin] - Announced(frame.body)) % Cycle
      <= frame.body.hops * Hop + (TuUs - 1) + frame.age

(* A MIF timer that nothing has shifted is aimed at the middle. *)
Aimed ==
  \A n \in up : ~shifted[n] => (Position(n) + mifIn[n]) % EawUs = Half

SyncInv ==
  TypeOK /\ Aligned /\ Running /\ Counted /\ BehindByHops /\ FramesBehind /\ Aimed
-----------------------------------------------------------------------------
(* Division and congruence.                                                *)

LEMMA DivMod ==
  ASSUME NEW m \in Nat, m > 0, NEW a \in Int
  PROVE  /\ a \div m \in Int /\ a % m \in 0 .. m - 1
         /\ a = m * (a \div m) + (a % m)
OBVIOUS

LEMMA Division ==
  ASSUME NEW m \in Nat, m > 0, NEW a \in Int, NEW q \in Int, NEW r \in 0 .. m - 1, a = m * q + r
  PROVE  a \div m = q /\ a % m = r
<1> DEFINE d == a \div m
           e == a % m
<1>1. d \in Int /\ e \in 0 .. m - 1 /\ a = m * d + e
  BY DivMod
<1> HIDE DEF d, e
<1>2. m * (d - q) = r - e
  BY <1>1
<1>3. ~(d - q >= 1)
  <2>1. d - q >= 1 => m * (d - q) >= m
    BY <1>1
  <2>2. QED
    BY <1>1, <1>2, <2>1
<1>4. ~(d - q <= -1)
  <2>1. d - q <= -1 => m * (d - q) <= -m
    BY <1>1
  <2>2. QED
    BY <1>1, <1>2, <2>1
<1>5. d = q
  BY <1>1, <1>3, <1>4
<1>6. QED
  BY <1>1, <1>5 DEF d, e

LEMMA Remainder ==
  ASSUME NEW m \in Nat, m > 0, NEW a \in 0 .. m - 1
  PROVE  a % m = a
<1>1. a = m * 0 + a
  OBVIOUS
<1>2. QED
  BY <1>1, Division

LEMMA Congruent ==
  ASSUME NEW m \in Nat, m > 0, NEW a \in Int, NEW b \in Int, NEW k \in Int, a = b + m * k
  PROVE  a % m = b % m
<1> DEFINE d == b \div m
           e == b % m
<1>1. d \in Int /\ e \in 0 .. m - 1 /\ b = m * d + e
  BY DivMod
<1> HIDE DEF d, e
<1>2. m * (d + k) = m * d + m * k /\ d + k \in Int
  BY <1>1
<1>3. a = m * (d + k) + e
  BY <1>1, <1>2
<1>4. a % m = e
  BY <1>1, <1>2, <1>3, Division
<1>5. QED
  BY <1>4 DEF e

(* A difference is the same whether its parts are reduced or not. *)
LEMMA Difference ==
  ASSUME NEW m \in Nat, m > 0, NEW a \in Int, NEW b \in Int
  PROVE  ((a % m) - (b % m)) % m = (a - b) % m
<1> DEFINE d == a \div m
           e == a % m
           g == b \div m
           h == b % m
<1>1. d \in Int /\ e \in 0 .. m - 1 /\ a = m * d + e
  BY DivMod
<1>2. g \in Int /\ h \in 0 .. m - 1 /\ b = m * g + h
  BY DivMod
<1> HIDE DEF d, e, g, h
<1>3. m * (g - d) = m * g - m * d /\ g - d \in Int
  BY <1>1, <1>2
<1>4. e - h = (a - b) + m * (g - d)
  BY <1>1, <1>2, <1>3
<1> DEFINE x == e - h
           y == a - b
           k == g - d
<1>5. x % m = y % m
  <2>1. x \in Int /\ y \in Int /\ k \in Int /\ x = y + m * k
    BY <1>1, <1>2, <1>3, <1>4
  <2> HIDE DEF x, y, k
  <2>2. QED
    BY <2>1, Congruent
<1>6. QED
  BY <1>5 DEF e, h

(* A sum is the same whether its first part is reduced or not. *)
LEMMA Sum ==
  ASSUME NEW m \in Nat, m > 0, NEW a \in Int, NEW b \in Int
  PROVE  ((a % m) + b) % m = (a + b) % m
<1> DEFINE d == a \div m
           e == a % m
<1>1. d \in Int /\ e \in 0 .. m - 1 /\ a = m * d + e
  BY DivMod
<1> HIDE DEF d, e
<1>2. m * (-d) = -(m * d) /\ -d \in Int
  BY <1>1
<1>3. e + b = (a + b) + m * (-d)
  BY <1>1, <1>2
<1> DEFINE x == e + b
           y == a + b
           k == -d
<1>4. x % m = y % m
  <2>1. x \in Int /\ y \in Int /\ k \in Int /\ x = y + m * k
    BY <1>1, <1>2, <1>3
  <2> HIDE DEF x, y, k
  <2>2. QED
    BY <2>1, Congruent
<1>5. QED
  BY <1>4 DEF e

(* What is more by r is at most more by r after reduction. *)
LEMMA Later ==
  ASSUME NEW m \in Nat, m > 0, NEW a \in Int, NEW r \in Nat, NEW b \in Int, b = a + r
  PROVE  b % m <= (a % m) + r
<1> DEFINE d == a \div m
           e == a % m
           g == b \div m
           h == b % m
<1>1. d \in Int /\ e \in 0 .. m - 1 /\ a = m * d + e
  BY DivMod
<1>2. g \in Int /\ h \in 0 .. m - 1 /\ b = m * g + h
  BY DivMod
<1> HIDE DEF d, e, g, h
<1>3. m * (d - g) = h - e - r
  BY <1>1, <1>2
<1>4. ~(h > e + r)
  <2>1. d - g >= 1 => m * (d - g) >= m
    BY <1>1, <1>2
  <2>2. d - g <= 0 => m * (d - g) <= 0
    BY <1>1, <1>2
  <2>3. QED
    BY <1>1, <1>2, <1>3, <2>1, <2>2
<1>5. QED
  BY <1>1, <1>2, <1>4 DEF e, h

-----------------------------------------------------------------------------
(* The widths.                                                             *)

LEMMA Constants ==
  /\ TuUs \in Nat /\ TuUs > 0 /\ AwPeriod \in Nat /\ AwPeriod > 0
  /\ Slots \in Nat /\ Slots > 0 /\ AwRange \in Nat /\ AwRange > 0
  /\ LongRange \in Nat /\ LongRange > 0 /\ WordRange \in Nat /\ WordRange > 0
  /\ PresenceMode = 4
  /\ Threshold \in Nat /\ MaxDelay \in Nat /\ MaxLate \in Nat /\ MaxSyncs \in Nat
BY SyncAssumption

Eaws == AwRange \div PresenceMode

LEMMA Positive ==
  ASSUME NEW a \in Nat, NEW b \in Nat, a > 0, b > 0
  PROVE  a * b \in Nat /\ a * b > 0
OBVIOUS

LEMMA Widths ==
  /\ EawTu = 4 * AwPeriod /\ EawTu \in Nat /\ EawTu > 0
  /\ EawUs = EawTu * TuUs /\ EawUs \in Nat /\ EawUs > 0
  /\ Eaws \in Nat /\ Eaws > 0 /\ AwRange = 4 * Eaws
  /\ Cycle = Eaws * EawUs /\ Cycle \in Nat /\ Cycle > 0
  /\ Half = (2 * AwPeriod) * TuUs /\ EawUs = 2 * Half /\ Half \in Nat /\ Half > 0
  /\ \E k \in Nat : k > 0 /\ LongRange = k * Cycle
  /\ \E k \in Nat : k > 0 /\ WordRange = k * LongRange
<1>1. EawTu = 4 * AwPeriod /\ EawTu \in Nat /\ EawTu > 0
  BY Constants DEF EawTu
<1>2. EawUs = EawTu * TuUs /\ EawUs \in Nat /\ EawUs > 0
  BY <1>1, Constants, Positive DEF EawUs
<1>3. Eaws \in Nat /\ Eaws > 0 /\ AwRange = 4 * Eaws
  <2>1. AwRange % (4 * Slots) = 0 /\ 4 * Slots \in Nat /\ 4 * Slots > 0
    BY Constants, SyncAssumption
  <2> DEFINE k == AwRange \div (4 * Slots)
  <2>2. k \in Int /\ AwRange = (4 * Slots) * k
    BY <2>1, DivMod, Constants
  <2> HIDE DEF k
  <2>3. AwRange = 4 * (Slots * k) + 0 /\ Slots * k \in Int
    BY <2>2, Constants
  <2>4. AwRange \div 4 = Slots * k
    BY <2>3, Constants, Division
  <2>5. QED
    BY <2>3, <2>4, Constants DEF Eaws
<1>4. Cycle = Eaws * EawUs /\ Cycle \in Nat /\ Cycle > 0
  BY <1>2, <1>3, Positive DEF Cycle, Eaws
<1>5. Half = (2 * AwPeriod) * TuUs
  <2>1. EawTu = 2 * (2 * AwPeriod) + 0 /\ 2 * AwPeriod \in Int
    BY <1>1, Constants
  <2>2. EawTu \div 2 = 2 * AwPeriod
    BY <1>1, <2>1, Division
  <2>3. QED
    BY <2>2 DEF Half
<1>6. EawUs = 2 * Half /\ Half \in Nat /\ Half > 0
  <2>1. (4 * AwPeriod) * TuUs = 2 * ((2 * AwPeriod) * TuUs)
    BY Constants
  <2>2. 2 * AwPeriod \in Nat /\ 2 * AwPeriod > 0
    BY Constants
  <2>3. (2 * AwPeriod) * TuUs \in Nat /\ (2 * AwPeriod) * TuUs > 0
    BY <2>2, Constants, Positive
  <2>4. QED
    BY <1>1, <1>2, <1>5, <2>1, <2>3
<1>7. \A a, b \in Nat : a > 0 /\ b > 0 /\ a % b = 0 => \E k \in Nat : k > 0 /\ a = k * b
  <2>1. SUFFICES ASSUME NEW a \in Nat, NEW b \in Nat, a > 0, b > 0, a % b = 0
                 PROVE  \E k \in Nat : k > 0 /\ a = k * b
    OBVIOUS
  <2> DEFINE k == a \div b
  <2>2. k \in Int /\ a = b * k
    BY <2>1, DivMod
  <2> HIDE DEF k
  <2>3. ~(k <= 0)
    <3>1. k <= 0 => b * k <= 0
      BY <2>1, <2>2
    <3>2. QED
      BY <2>1, <2>2, <3>1
  <2>4. QED
    BY <2>2, <2>3
<1>8. LongRange % Cycle = 0 /\ WordRange % LongRange = 0
  BY SyncAssumption
<1>9. QED
  BY <1>1, <1>2, <1>3, <1>4, <1>5, <1>6, <1>7, <1>8, Constants

-----------------------------------------------------------------------------
(* The code's windows, words and remainders count microseconds since one   *)
(* moment, to the size of the cycle.                                       *)
PositionOf(t, u, c) == ((c \div PresenceMode) * EawUs + (t - u)) % Cycle

Measured(n) ==
  /\ Position(n) \in 0 .. Cycle - 1
  /\ Position(n) = PositionOf(now[n], last_update[n], aw_counter[n])
  /\ NextAwUs(n) = EawUs - (Position(n) % EawUs)
  /\ CurrentAw(n) \in 0 .. AwRange - 1
  /\ CurrentEaw(n) \in 0 .. Eaws - 1
  /\ NextAwTu(n) \in 1 .. EawTu
  /\ \E r \in 0 .. TuUs - 1 :
       Position(n) = CurrentEaw(n) * EawUs + (EawTu - NextAwTu(n)) * TuUs + r

LEMMA PositionFacts == TypeOK /\ Aligned => \A n \in Node : Measured(n)
<1>1. SUFFICES ASSUME TypeOK, Aligned, NEW n \in Node PROVE Measured(n)
  OBVIOUS
<1> DEFINE v == aw_counter[n] \div PresenceMode
           x == now[n] - last_update[n]
           a == x \div WordRange
           el == x % WordRange
           b == el \div LongRange
           y == el % LongRange
           c == y \div TuUs
           t == y % TuUs
           d == c \div EawTu
           g == c % EawTu
           h == g \div AwPeriod
           j == g % AwPeriod
           q == (v + d) \div Eaws
           w == (v + d) % Eaws
           o == TuUs * g + t
<1>2. /\ aw_counter[n] \in 0 .. AwRange - 1 /\ aw_counter[n] % PresenceMode = 0
      /\ now[n] \in Int /\ last_update[n] \in Int
  BY <1>1, Constants DEF TypeOK, Aligned
<1>3. v \in Int /\ aw_counter[n] = 4 * v
  BY <1>2, Constants, DivMod
<1>4. x \in Int /\ a \in Int /\ el \in 0 .. WordRange - 1 /\ x = WordRange * a + el
  <2>1. x \in Int
    BY <1>2
  <2> HIDE DEF x
  <2>2. QED
    BY <2>1, Constants, DivMod
<1>5. b \in Int /\ y \in 0 .. LongRange - 1 /\ el = LongRange * b + y
  <2> HIDE DEF el
  <2>1. QED
    BY <1>4, Constants, DivMod
<1>6. c \in Int /\ t \in 0 .. TuUs - 1 /\ y = TuUs * c + t
  <2> HIDE DEF y
  <2>1. QED
    BY <1>5, Constants, DivMod
<1>7. d \in Int /\ g \in 0 .. EawTu - 1 /\ c = EawTu * d + g
  <2> HIDE DEF c
  <2>1. QED
    BY <1>6, Widths, DivMod
<1>8. h \in Int /\ j \in 0 .. AwPeriod - 1 /\ g = AwPeriod * h + j
  <2> HIDE DEF g
  <2>1. QED
    BY <1>7, Constants, DivMod
<1>9. q \in Int /\ w \in 0 .. Eaws - 1 /\ v + d = Eaws * q + w
  <2> HIDE DEF v, d
  <2>1. v + d \in Int
    BY <1>3, <1>7
  <2>2. QED
    BY <2>1, Widths, DivMod
<1>10. /\ Elapsed(n) = el /\ ElapsedTu(n) = c /\ NextAwTu(n) = EawTu - g
       /\ CurrentAw(n) = (aw_counter[n] + h + PresenceMode * d) % AwRange
  BY DEF Elapsed, ElapsedTu, NextAwTu, CurrentAw
<1> HIDE DEF v, x, a, el, b, y, c, t, d, g, h, j, q, w
<1>11. h \in 0 .. 3
  <2>1. ~(h < 0)
    <3>1. h < 0 => AwPeriod * h <= -AwPeriod
      BY <1>8, Constants
    <3>2. QED
      BY <1>7, <1>8, <3>1, Constants
  <2>2. ~(h > 3)
    <3>1. h > 3 => AwPeriod * h >= AwPeriod * 4
      BY <1>8, Constants
    <3>2. QED
      BY <1>7, <1>8, <3>1, Constants, Widths
  <2>3. QED
    BY <1>8, <2>1, <2>2
<1>12. CurrentAw(n) = 4 * w + h /\ 4 * w + h \in 0 .. AwRange - 1
  <2>1. aw_counter[n] + h + PresenceMode * d = 4 * (v + d) + h
    BY <1>2, <1>3, <1>7, <1>11, Constants
  <2>2. AwRange * q = 4 * (Eaws * q)
    BY <1>9, Widths
  <2>3. aw_counter[n] + h + PresenceMode * d = AwRange * q + (4 * w + h)
    BY <1>9, <1>11, <2>1, <2>2, Widths
  <2>4. 4 * w + h \in 0 .. AwRange - 1
    BY <1>9, <1>11, Widths
  <2>5. QED
    BY <1>9, <1>10, <2>3, <2>4, Constants, Division
<1>13. CurrentEaw(n) = w
  BY <1>9, <1>11, <1>12, Constants, Division DEF CurrentEaw
<1>14. o \in 0 .. EawUs - 1
  <2>1. TuUs * g <= TuUs * (EawTu - 1) /\ TuUs * g >= 0 /\ TuUs * g \in Int
    BY <1>7, Constants, Widths
  <2>2. TuUs * (EawTu - 1) = EawUs - TuUs
    BY Constants, Widths
  <2>3. QED
    BY <1>6, <2>1, <2>2, Constants, Widths
<1>15. y = EawUs * d + o
  <2>1. TuUs * (EawTu * d + g) = EawUs * d + TuUs * g
    BY <1>7, Constants, Widths
  <2>2. EawUs * d \in Int /\ TuUs * g \in Int
    BY <1>7, Constants, Widths
  <2>3. TuUs * c = EawUs * d + TuUs * g
    BY <1>7, <2>1
  <2>4. QED
    BY <1>6, <2>2, <2>3, Constants
<1> HIDE DEF o
<1>16. PICK k \in Nat : LongRange = k * Cycle
  BY Widths
<1>17. PICK l \in Nat : WordRange = l * LongRange
  BY Widths
<1>18. Elapsed(n) % EawUs = o
  <2>1. LongRange * b = EawUs * (k * Eaws * b)
    BY <1>5, <1>16, Widths
  <2>2. k * Eaws * b + d \in Int
    BY <1>5, <1>7, Widths
  <2>3. el = EawUs * (k * Eaws * b + d) + o
    <3>1. EawUs * (k * Eaws * b + d) = EawUs * (k * Eaws * b) + EawUs * d
      BY <1>5, <1>7, Widths
    <3>2. EawUs * (k * Eaws * b) \in Int /\ EawUs * d \in Int
      BY <1>5, <1>7, Widths
    <3>3. QED
      BY <1>5, <1>14, <1>15, <2>1, <3>1, <3>2
  <2>4. QED
    BY <1>4, <1>10, <1>14, <2>2, <2>3, Widths, Division
<1>19. NextAwUs(n) = EawUs - o
  BY <1>18 DEF NextAwUs
<1>20. Position(n) = w * EawUs + o
  BY <1>9, <1>13, <1>14, <1>19, Widths DEF Position
<1>21. Position(n) \in 0 .. Cycle - 1
  <2>1. w * EawUs >= 0 /\ w * EawUs <= (Eaws - 1) * EawUs /\ w * EawUs \in Int
    BY <1>9, Widths
  <2>2. (Eaws - 1) * EawUs = Cycle - EawUs
    BY Widths
  <2>3. QED
    BY <1>14, <1>20, <2>1, <2>2, Widths
<1>22. Position(n) % EawUs = o
  <2>1. Position(n) = EawUs * w + o
    BY <1>9, <1>14, <1>20, Widths
  <2> DEFINE p == Position(n)
  <2>2. p \in Int /\ p = EawUs * w + o
    BY <1>21, <2>1
  <2> HIDE DEF p
  <2>3. p % EawUs = o
    BY <1>9, <1>14, <2>2, Widths, Division
  <2>4. QED
    BY <2>3 DEF p
<1>23. Position(n) = PositionOf(now[n], last_update[n], aw_counter[n])
  <2> DEFINE z == l * k * a + k * b + q
             p == v * EawUs + x
  <2>1. WordRange * a = Cycle * (l * k * a) /\ LongRange * b = Cycle * (k * b)
    BY <1>4, <1>5, <1>16, <1>17, Widths
  <2>2. v * EawUs + EawUs * d = Cycle * q + w * EawUs
    <3>1. v * EawUs + EawUs * d = (v + d) * EawUs
      BY <1>3, <1>7, Widths
    <3>2. (Eaws * q + w) * EawUs = Cycle * q + w * EawUs
      BY <1>9, Widths
    <3>3. QED
      BY <1>9, <3>1, <3>2
  <2>3. z \in Int /\ Cycle * z = Cycle * (l * k * a) + Cycle * (k * b) + Cycle * q
    BY <1>4, <1>5, <1>9, Widths
  <2>4. p \in Int /\ p = Cycle * z + (w * EawUs + o)
    <3>1. v * EawUs \in Int /\ w * EawUs \in Int
      BY <1>3, <1>9, Widths
    <3>2. EawUs * d \in Int /\ Cycle * (l * k * a) \in Int /\ Cycle * (k * b) \in Int /\ Cycle * q \in Int
      BY <1>4, <1>5, <1>7, <1>9, Widths
    <3>3. x = Cycle * (l * k * a) + Cycle * (k * b) + EawUs * d + o
      BY <1>4, <1>5, <1>14, <1>15, <2>1, <3>2
    <3>4. QED
      BY <1>4, <1>14, <2>2, <2>3, <3>1, <3>2, <3>3
  <2> HIDE DEF z, p
  <2>5. p % Cycle = Position(n)
    BY <1>20, <1>21, <2>3, <2>4, Widths, Division
  <2>6. QED
    BY <2>5 DEF PositionOf, p, v, x
<1>24. Position(n) = CurrentEaw(n) * EawUs + (EawTu - NextAwTu(n)) * TuUs + t
  <2>1. EawTu - NextAwTu(n) = g
    BY <1>7, <1>10, Widths
  <2>2. g * TuUs = TuUs * g
    BY <1>7, Constants
  <2>3. QED
    BY <1>6, <1>7, <1>9, <1>13, <1>20, <2>1, <2>2, Constants, Widths DEF o
<1>25. NextAwTu(n) \in 1 .. EawTu
  BY <1>7, <1>10, Widths
<1>26. QED
  BY <1>6, <1>9, <1>12, <1>13, <1>19, <1>21, <1>22, <1>23, <1>24, <1>25 DEF Measured

AllMeasured == \A n \in Node : Measured(n)

LEMMA MeasuredNow == TypeOK /\ Aligned => AllMeasured
BY PositionFacts DEF AllMeasured

LEMMA MeasuredNext == TypeOK' /\ Aligned' => AllMeasured'
BY MeasuredNow, PTL

-----------------------------------------------------------------------------
(* Frames.                                                                 *)

FrameOK(frame) ==
  /\ frame \in Frame
  /\ frame.dst \in up /\ frame.body.src \in up /\ frame.body.origin \in up
  /\ frame.body.hops <= syncs
  /\ (free[frame.body.origin] - Announced(frame.body)) % Cycle
       <= frame.body.hops * Hop + (TuUs - 1) + frame.age

AirOK == \A frame \in air : FrameOK(frame)

LEMMA InvMeansAirOK == SyncInv => AirOK
BY DEF SyncInv, AirOK, FrameOK, TypeOK, Running, Counted, FramesBehind

LEMMA HopFacts == Hop \in Nat /\ \A h \in Nat : h * Hop \in Nat /\ (h + 1) * Hop = h * Hop + Hop
<1>1. Hop \in Nat
  BY Constants DEF Hop
<1>2. QED
  BY <1>1

LEMMA AnnouncedType ==
  ASSUME NEW f \in [ src : Node, next_aw_seq : 0 .. AwRange - 1, tx_down_counter : 1 .. EawTu,
                     origin : Node, hops : 0 .. MaxSyncs ]
  PROVE  /\ Announced(f) \in Int /\ f.next_aw_seq \div PresenceMode \in 0 .. Eaws - 1
         /\ (EawTu - f.tx_down_counter) * TuUs \in 0 .. EawUs - TuUs
         /\ Announced(f) \in 0 .. Cycle - 1
<1> DEFINE e == f.next_aw_seq \div PresenceMode
           r == f.next_aw_seq % PresenceMode
           d == EawTu - f.tx_down_counter
<1>1. f.next_aw_seq \in 0 .. AwRange - 1 /\ d \in 0 .. EawTu - 1
  BY Widths
<1>2. e \in Int /\ r \in 0 .. 3 /\ f.next_aw_seq = 4 * e + r
  BY <1>1, Constants, DivMod
<1> HIDE DEF e, r, d
<1>3. e \in 0 .. Eaws - 1
  BY <1>1, <1>2, Widths
<1>4. d * TuUs \in 0 .. EawUs - TuUs
  <2>1. d * TuUs >= 0 /\ d * TuUs <= (EawTu - 1) * TuUs /\ d * TuUs \in Int
    BY <1>1, Constants, Widths
  <2>2. (EawTu - 1) * TuUs = EawUs - TuUs
    BY Constants, Widths
  <2>3. QED
    BY <2>1, <2>2, Constants, Widths
<1>5. e * EawUs \in 0 .. Cycle - EawUs
  <2>1. e * EawUs >= 0 /\ e * EawUs <= (Eaws - 1) * EawUs /\ e * EawUs \in Int
    BY <1>3, Widths
  <2>2. (Eaws - 1) * EawUs = Cycle - EawUs
    BY Widths
  <2>3. QED
    BY <2>1, <2>2, Widths
<1>6. Announced(f) = e * EawUs + d * TuUs
  BY DEF Announced, e, d
<1>7. QED
  BY <1>3, <1>4, <1>5, <1>6, Constants, Widths DEF e, d

(* What is announced is the own position, rounded down to a TU.            *)
LEMMA AnnouncementFacts ==
  ASSUME SyncInv, NEW n \in up, NEW m \in up
  PROVE  FrameOK([ dst |-> m, age |-> 0, body |-> Announcement(n) ])
<1> DEFINE f == Announcement(n)
           frame == [ dst |-> m, age |-> 0, body |-> f ]
           o == origin[n]
<1>1. /\ n \in Node /\ m \in Node /\ o \in up /\ o \in Node
      /\ hops[n] \in 0 .. MaxSyncs /\ hops[n] <= syncs
      /\ free[o] \in 0 .. Cycle - 1
      /\ Behind(n) <= hops[n] * Hop
  BY Constants DEF SyncInv, TypeOK, Running, Counted, BehindByHops, Hop
<1>2. Measured(n)
  BY <1>1, MeasuredNow DEF SyncInv, AllMeasured
<1>3. /\ f.src = n /\ f.next_aw_seq = CurrentAw(n) /\ f.tx_down_counter = NextAwTu(n)
      /\ f.origin = o /\ f.hops = hops[n]
  BY DEF Announcement
<1>4. f \in [ src : Node, next_aw_seq : 0 .. AwRange - 1, tx_down_counter : 1 .. EawTu,
              origin : Node, hops : 0 .. MaxSyncs ]
  BY <1>1, <1>2 DEF Measured, Announcement
<1>5. frame \in Frame
  BY <1>1, <1>4, Constants DEF Frame
<1>6. PICK r \in 0 .. TuUs - 1 : Position(n) = Announced(f) + r
  <2>1. PICK r \in 0 .. TuUs - 1 :
          Position(n) = CurrentEaw(n) * EawUs + (EawTu - NextAwTu(n)) * TuUs + r
    BY <1>2 DEF Measured
  <2>2. Announced(f) = CurrentEaw(n) * EawUs + (EawTu - NextAwTu(n)) * TuUs
    BY <1>3 DEF Announced, CurrentEaw
  <2>3. QED
    BY <2>1, <2>2
<1>7. (free[o] - Announced(f)) % Cycle <= Behind(n) + r
  <2> DEFINE x == free[o] - Position(n)
             y == free[o] - Announced(f)
  <2>1. x \in Int /\ r \in Int /\ y = x + r
    BY <1>1, <1>2, <1>4, <1>6, AnnouncedType DEF Measured
  <2>2. Behind(n) = x % Cycle
    BY DEF Behind
  <2> HIDE DEF x, y
  <2>3. y % Cycle <= (x % Cycle) + r
    BY <1>6, <2>1, Widths, Later
  <2>4. QED
    BY <2>2, <2>3 DEF y
<1>8. hops[n] * Hop \in Nat /\ Behind(n) \in Int
  <2>1. free[o] - Position(n) \in Int
    BY <1>1, <1>2 DEF Measured
  <2>2. QED
    BY <1>1, <2>1, HopFacts, Widths DEF Behind
<1>9. (free[o] - Announced(f)) % Cycle <= hops[n] * Hop + (TuUs - 1) + 0
  <2>1. free[o] - Announced(f) \in Int
    BY <1>1, <1>4, AnnouncedType
  <2>2. (free[o] - Announced(f)) % Cycle \in Int
    <3> DEFINE y == free[o] - Announced(f)
    <3> HIDE DEF y
    <3>1. y \in Int => y % Cycle \in Int
      BY Widths, DivMod
    <3>2. QED
      BY <2>1, <3>1 DEF y
  <2>3. QED
    BY <1>1, <1>6, <1>7, <1>8, <2>2, Constants
<1>10. QED
  BY <1>1, <1>3, <1>5, <1>9 DEF FrameOK

(* The part of the invariant that is about nodes. *)
NodesOK ==
  /\ Aligned
  /\ \A n \in Node \ up :
       aw_counter[n] = 0 /\ origin[n] = n /\ hops[n] = 0 /\ shifted[n] /\ mifIn[n] = 0
  /\ \A n \in up : origin[n] \in up
  /\ \A n \in Node : meas_total[n] <= syncs /\ meas_err[n] <= meas_total[n] /\ hops[n] <= syncs
  /\ BehindByHops
  /\ Aimed

LEMMA InvMeansNodesOK == SyncInv => NodesOK
BY DEF SyncInv, NodesOK, Running, Counted

LEMMA Whole == TypeOK' /\ NodesOK' /\ AirOK' => SyncInv'
BY DEF SyncInv, NodesOK, AirOK, FrameOK, Running, Counted, FramesBehind

LEMMA InitInv == Init => SyncInv
<1> SUFFICES ASSUME Init PROVE SyncInv
  OBVIOUS
<1> USE DEF Init
<1>1. TypeOK
  <2>1. 0 \in 0 .. AwRange - 1 /\ 0 \in 0 .. MaxSyncs /\ 0 \in -MaxLate .. 2 * EawUs
        /\ 0 \in 0 .. Cycle - 1
    BY Constants, Widths
  <2>2. Booted \in [ Node -> 0 .. WordRange - 1 ]
    BY SyncAssumption
  <2>3. QED
    BY <2>1, <2>2 DEF TypeOK
<1>2. Aligned
  <2>1. 0 % PresenceMode = 0
    BY Constants
  <2>2. QED
    BY <2>1 DEF Aligned
<1>3. QED
  BY <1>1, <1>2, Constants DEF SyncInv, Running, Counted, BehindByHops, FramesBehind, Aimed

-----------------------------------------------------------------------------
(* Steps that leave the clocks alone.                                      *)

LEMMA SamePosition ==
  ASSUME NEW n, UNCHANGED << now[n], last_update[n], aw_counter[n] >>
  PROVE  Position(n)' = Position(n)
BY DEF Position, CurrentEaw, CurrentAw, ElapsedTu, Elapsed, NextAwUs

LEMMA QuietFacts ==
  ASSUME SyncInv, UNCHANGED << now, up, clock, free, history, syncs >>,
         \A n \in Node \ up : UNCHANGED << mifIn[n], shifted[n] >>, Aimed'
  PROVE  NodesOK' /\ \A frame : FrameOK(frame) => FrameOK(frame)'
<1> USE DEF clock, history
<1>1. NodesOK
  BY InvMeansNodesOK
<1>2. Aligned'
  BY <1>1 DEF NodesOK, Aligned
<1>3. BehindByHops'
  <2>1. ASSUME NEW n \in up PROVE Behind(n)' <= hops'[n] * (MaxDelay + TuUs - 1)
    <3>1. Position(n)' = Position(n)
      BY SamePosition
    <3>2. Behind(n)' = Behind(n)
      BY <3>1 DEF Behind
    <3>3. QED
      BY <1>1, <3>2 DEF NodesOK, BehindByHops
  <2>2. QED
    BY <2>1 DEF BehindByHops
<1>4. \A frame : FrameOK(frame) => FrameOK(frame)'
  BY DEF FrameOK
<1>5. QED
  BY <1>1, <1>2, <1>3, <1>4 DEF NodesOK

LEMMA StillAimed ==
  ASSUME SyncInv, UNCHANGED << now, up, clock >>, UNCHANGED << mifIn, shifted >>
  PROVE  Aimed'
<1>1. \A n \in Node : Position(n)' = Position(n)
  BY SamePosition DEF clock
<1>2. QED
  BY <1>1 DEF SyncInv, TypeOK, Aimed

LEMMA AnnounceFacts ==
  ASSUME SyncInv, NEW n \in up, Announce(n)
  PROVE  \A frame \in air' : FrameOK(frame)
<1>1. AirOK
  BY InvMeansAirOK
<1>2. \A frame \in Frames(n) : FrameOK(frame)
  BY AnnouncementFacts DEF Frames
<1>3. QED
  BY <1>1, <1>2 DEF Announce, AirOK

LEMMA SendPsfStep ==
  ASSUME SyncInv, NEW n \in up, SendPsf(n)
  PROVE  SyncInv'
<1> USE DEF SendPsf, timers
<1>1. \A frame \in air' : FrameOK(frame)
  BY AnnounceFacts
<1>2. NodesOK' /\ \A frame : FrameOK(frame) => FrameOK(frame)'
  BY QuietFacts, StillAimed DEF clock
<1>3. AirOK'
  BY <1>1, <1>2 DEF AirOK
<1>4. TypeOK'
  BY <1>1 DEF SyncInv, TypeOK, clock, history, FrameOK
<1>5. QED
  BY <1>2, <1>3, <1>4, Whole

LEMMA SendMifStep ==
  ASSUME SyncInv, NEW n \in up, SendMif(n)
  PROVE  SyncInv'
<1>1. /\ IF current[n] > 0 THEN Announce(n) ELSE UNCHANGED air
      /\ mifIn' = [ mifIn EXCEPT ![n] = NextAwUs(n) + Half ]
      /\ shifted' = [ shifted EXCEPT ![n] = FALSE ]
      /\ UNCHANGED << now, up, clock, master, current, free, history, syncs >>
  BY DEF SendMif, Half
<1>2. \A frame \in air' : FrameOK(frame)
  BY <1>1, AnnounceFacts, InvMeansAirOK DEF AirOK
<1>3. n \in Node /\ mifIn \in [ Node -> -MaxLate .. 2 * EawUs ] /\ shifted \in [ Node -> BOOLEAN ]
      /\ Measured(n)
  BY MeasuredNow DEF SyncInv, TypeOK, AllMeasured
<1> DEFINE p == Position(n)
           o == p % EawUs
<1>4. p \in Int /\ o \in 0 .. EawUs - 1 /\ p \div EawUs \in Int /\ p = EawUs * (p \div EawUs) + o
      /\ NextAwUs(n) = EawUs - o
  <2>1. p \in Int /\ NextAwUs(n) = EawUs - o
    BY <1>3 DEF Measured
  <2> HIDE DEF p
  <2>2. QED
    BY <2>1, Widths, DivMod
<1>5. mifIn'[n] = EawUs - o + Half /\ mifIn'[n] \in -MaxLate .. 2 * EawUs
  BY <1>1, <1>3, <1>4, Constants, Widths
<1>6. \A m \in Node : m # n => mifIn'[m] = mifIn[m] /\ shifted'[m] = shifted[m]
  BY <1>1, <1>3
<1>7. (Position(n)' + mifIn'[n]) % EawUs = Half
  <2>1. Position(n)' = p
    BY <1>1, SamePosition DEF clock
  <2> DEFINE x == p + mifIn'[n]
             q == (p \div EawUs) + 1
             r == p \div EawUs
  <2>2. x \in Int /\ q \in Int /\ x = EawUs * q + Half
    <3>1. q \in Int /\ EawUs * q = EawUs * r + EawUs
      <4>1. r \in Int /\ q = r + 1
        BY <1>4
      <4> HIDE DEF r, q
      <4>2. QED
        BY <4>1, Widths
    <3>2. EawUs * r \in Int /\ p = EawUs * r + o
      BY <1>4, Widths
    <3>3. p \in Int /\ o \in Int /\ EawUs \in Int /\ Half \in Int /\ mifIn'[n] = EawUs - o + Half
      BY <1>4, <1>5, Widths
    <3> HIDE DEF p, o, q, r
    <3>4. QED
      BY <3>1, <3>2, <3>3 DEF x
  <2>3. Half \in 0 .. EawUs - 1
    BY Widths
  <2> HIDE DEF x, q
  <2>4. x % EawUs = Half
    BY <2>2, <2>3, Widths, Division
  <2>5. QED
    BY <2>1, <2>4 DEF x
<1>8. Aimed'
  <2>1. ASSUME NEW m \in up, ~shifted'[m] PROVE (Position(m)' + mifIn'[m]) % EawUs = Half
    <3>1. CASE m = n
      BY <3>1, <1>7
    <3>2. CASE m # n
      <4>1. Position(m)' = Position(m) /\ m \in Node
        BY <1>1, SamePosition DEF clock, SyncInv, TypeOK
      <4>2. QED
        BY <2>1, <3>2, <4>1, <1>6 DEF SyncInv, Aimed
    <3>3. QED
      BY <3>1, <3>2
  <2>2. QED
    BY <1>1, <2>1 DEF Aimed
<1>9. NodesOK' /\ \A frame : FrameOK(frame) => FrameOK(frame)'
  BY <1>1, <1>6, <1>8, QuietFacts
<1>10. AirOK'
  BY <1>2, <1>9 DEF AirOK
<1>11. TypeOK'
  <2>1. mifIn' \in [ Node -> -MaxLate .. 2 * EawUs ] /\ shifted' \in [ Node -> BOOLEAN ]
    BY <1>1, <1>3, <1>5
  <2>2. air' \subseteq Frame
    BY <1>2 DEF FrameOK
  <2>3. QED
    BY <1>1, <2>1, <2>2 DEF SyncInv, TypeOK, clock, history
<1>12. QED
  BY <1>9, <1>10, <1>11, Whole

LEMMA SwitchChannelStep ==
  ASSUME SyncInv, NEW n \in up, SwitchChannel(n)
  PROVE  SyncInv'
<1> USE DEF SwitchChannel
<1>1. NodesOK' /\ \A frame : FrameOK(frame) => FrameOK(frame)'
  BY QuietFacts, StillAimed
<1>2. AirOK'
  BY <1>1, InvMeansAirOK DEF AirOK
<1>3. Slot(n) \in DOMAIN Sequence
  <2>1. CurrentEaw(n) \in Int
    BY MeasuredNow DEF SyncInv, TypeOK, AllMeasured, Measured
  <2>2. Slot(n) \in 0 .. Slots - 1
    BY <2>1, Constants, DivMod DEF Slot
  <2>3. QED
    BY <2>2, SyncAssumption
<1>4. TypeOK'
  BY <1>3 DEF SyncInv, TypeOK, clock, history
<1>5. QED
  BY <1>1, <1>2, <1>4, Whole

LEMMA LoseStep ==
  ASSUME SyncInv, NEW frame \in air, Lose(frame)
  PROVE  SyncInv'
<1> USE DEF Lose, timers
<1>1. NodesOK' /\ \A f : FrameOK(f) => FrameOK(f)'
  BY QuietFacts, StillAimed
<1>2. AirOK'
  BY <1>1, InvMeansAirOK DEF AirOK
<1>3. TypeOK'
  BY DEF SyncInv, TypeOK, clock, history
<1>4. QED
  BY <1>1, <1>2, <1>3, Whole

LEMMA ElectStep ==
  ASSUME SyncInv, NEW n \in up, NEW m \in up, Elect(n, m)
  PROVE  SyncInv'
<1> USE DEF Elect, timers
<1>1. NodesOK' /\ \A f : FrameOK(f) => FrameOK(f)'
  BY QuietFacts, StillAimed
<1>2. AirOK'
  BY <1>1, InvMeansAirOK DEF AirOK
<1>3. TypeOK'
  BY DEF SyncInv, TypeOK, clock, history
<1>4. QED
  BY <1>1, <1>2, <1>3, Whole

LEMMA Idle ==
  ASSUME SyncInv, UNCHANGED vars
  PROVE  SyncInv'
<1> USE DEF vars, timers
<1>1. NodesOK' /\ \A f : FrameOK(f) => FrameOK(f)'
  BY QuietFacts, StillAimed
<1>2. AirOK'
  BY <1>1, InvMeansAirOK DEF AirOK
<1>3. TypeOK'
  BY DEF SyncInv, TypeOK, clock, history
<1>4. QED
  BY <1>1, <1>2, <1>3, Whole

-----------------------------------------------------------------------------
(* An adjustment: the clock takes the position of the announcement.        *)

LEMMA AdjustTypes ==
  ASSUME SyncInv, NEW frame \in air, Receive(frame), master[frame.dst] = frame.body.src
  PROVE  TypeOK' /\ Aligned'
<1> DEFINE n == frame.dst
           f == frame.body
           z == ((EawTu - f.tx_down_counter) * TuUs) % LongRange
           r == f.next_aw_seq % 4
           e == f.next_aw_seq \div 4
<1>1. /\ air' = air \ {frame} /\ syncs < MaxSyncs /\ syncs' = syncs + 1 /\ Adjust(n, f)
      /\ UNCHANGED << now, up, master, current, mifIn, free >>
  BY DEF Receive
<1>2. /\ frame \in Frame /\ n \in Node /\ f.origin \in Node /\ f.hops \in Nat /\ f.hops <= syncs
      /\ f.next_aw_seq \in 0 .. AwRange - 1 /\ f.tx_down_counter \in 1 .. EawTu
  BY InvMeansAirOK, Constants DEF AirOK, FrameOK, Frame
<1>3. TypeOK /\ Counted /\ Aligned
  BY DEF SyncInv
<1>4. (now[n] - z) % WordRange \in 0 .. WordRange - 1
  <2>1. (EawTu - f.tx_down_counter) * TuUs \in Int
    BY <1>2, Constants, Widths
  <2> DEFINE y == (EawTu - f.tx_down_counter) * TuUs
             x == now[n] - (y % LongRange)
  <2>2. y % LongRange \in Int
    <3> HIDE DEF y
    <3>1. y \in Int => y % LongRange \in Int
      BY Constants, DivMod
    <3>2. QED
      BY <2>1, <3>1 DEF y
  <2>3. now[n] \in Int
    BY <1>2, <1>3, Constants DEF TypeOK
  <2> DEFINE w == now[n] - z
  <2>4. w \in Int
    BY <2>2, <2>3
  <2> HIDE DEF w
  <2>5. w % WordRange \in 0 .. WordRange - 1
    BY <2>4, Constants, DivMod
  <2>6. QED
    BY <2>5 DEF w
<1>5. r \in 0 .. 3 /\ e \in Int /\ f.next_aw_seq = 4 * e + r
  <2>1. \A s \in Int : s \div 4 \in Int /\ s % 4 \in 0 .. 3 /\ s = 4 * (s \div 4) + (s % 4)
    OBVIOUS
  <2>2. f.next_aw_seq \in Int
    BY <1>2, Constants
  <2>3. QED
    BY <2>1, <2>2
<1>6. f.next_aw_seq - r \in 0 .. AwRange - 1 /\ (f.next_aw_seq - r) % 4 = 0
  <2> DEFINE s == f.next_aw_seq - r
  <2>1. s \in 0 .. AwRange - 1 /\ s = 4 * e + 0
    <3> HIDE DEF e, r
    <3>1. e >= 0
      BY <1>2, <1>5
    <3>2. QED
      BY <1>2, <1>5, <3>1, Constants
  <2> HIDE DEF s, e
  <2>2. s % 4 = 0
    BY <1>5, <2>1, Division
  <2>3. QED
    BY <2>1, <2>2 DEF s
<1>7. /\ last_update' = [ last_update EXCEPT ![n] = (now[n] - z) % WordRange ]
      /\ aw_counter' = [ aw_counter EXCEPT ![n] = f.next_aw_seq - r ]
      /\ meas_total' = [ meas_total EXCEPT ![n] = @ + 1 ]
      /\ meas_err' = [ meas_err EXCEPT ![n] = IF Off(n, f) THEN @ + 1 ELSE @ ]
      /\ origin' = [ origin EXCEPT ![n] = f.origin ]
      /\ hops' = [ hops EXCEPT ![n] = f.hops + 1 ]
      /\ shifted' = [ shifted EXCEPT ![n] = TRUE ]
  BY <1>1 DEF Adjust, UpdateLast
<1> HIDE DEF n, f, z, r, e
<1>8. last_update' \in [ Node -> 0 .. WordRange - 1 ] /\ aw_counter' \in [ Node -> 0 .. AwRange - 1 ]
  BY <1>2, <1>3, <1>4, <1>6, <1>7 DEF TypeOK
<1>9. syncs \in Nat /\ syncs + 1 \in 0 .. MaxSyncs
  BY <1>1, <1>3, Constants DEF TypeOK
<1>10. meas_total[n] + 1 \in 0 .. MaxSyncs /\ meas_err[n] \in 0 .. MaxSyncs /\ meas_err[n] + 1 \in 0 .. MaxSyncs
  BY <1>1, <1>2, <1>3, <1>9, Constants DEF TypeOK, Counted
<1>11. meas_total' \in [ Node -> 0 .. MaxSyncs ] /\ meas_err' \in [ Node -> 0 .. MaxSyncs ]
  BY <1>3, <1>7, <1>10 DEF TypeOK
<1>12. f.hops + 1 \in 0 .. MaxSyncs
  <2>1. syncs \in Nat /\ syncs < MaxSyncs
    BY <1>1, <1>9
  <2>2. QED
    BY <1>2, <2>1, Constants
<1>13. hops' \in [ Node -> 0 .. MaxSyncs ] /\ origin' \in [ Node -> Node ] /\ shifted' \in [ Node -> BOOLEAN ]
  BY <1>2, <1>3, <1>7, <1>12 DEF TypeOK
<1>14. TypeOK'
  BY <1>1, <1>3, <1>8, <1>9, <1>11, <1>13 DEF TypeOK
<1>15. Aligned'
  <2>1. ASSUME NEW m \in Node PROVE aw_counter'[m] % PresenceMode = 0
    <3>1. CASE m = n
      BY <1>2, <1>3, <1>6, <1>7, <3>1, Constants DEF TypeOK
    <3>2. CASE m # n
      BY <1>3, <1>7, <3>2 DEF TypeOK, Aligned
    <3>3. QED
      BY <3>1, <3>2
  <2>2. QED
    BY <2>1 DEF Aligned
<1>16. QED
  BY <1>14, <1>15

LEMMA AdjustedPosition ==
  ASSUME SyncInv, NEW frame \in air, Receive(frame), master[frame.dst] = frame.body.src
  PROVE  Position(frame.dst)' = Announced(frame.body)
<1> DEFINE n == frame.dst
           f == frame.body
           z == (EawTu - f.tx_down_counter) * TuUs
           e == f.next_aw_seq \div 4
           r == f.next_aw_seq % 4
           x == now[n] - z
           j == x \div WordRange
           u == x % WordRange
<1>1. /\ Adjust(n, f) /\ UNCHANGED now
  BY DEF Receive
<1>2. /\ frame \in Frame /\ n \in Node
      /\ f.next_aw_seq \in 0 .. AwRange - 1 /\ f.tx_down_counter \in 1 .. EawTu
      /\ f \in [ src : Node, next_aw_seq : 0 .. AwRange - 1, tx_down_counter : 1 .. EawTu,
                 origin : Node, hops : 0 .. MaxSyncs ]
  BY InvMeansAirOK DEF AirOK, FrameOK, Frame
<1>3. /\ Announced(f) \in 0 .. Cycle - 1 /\ e \in 0 .. Eaws - 1 /\ z \in 0 .. EawUs - TuUs
      /\ Announced(f) = e * EawUs + z
  BY <1>2, AnnouncedType, Constants DEF Announced
<1>4. PICK k \in Nat : k > 0 /\ LongRange = k * Cycle
  BY Widths
<1>5. PICK l \in Nat : WordRange = l * LongRange
  BY Widths
<1>6. z % LongRange = z
  <2>1. (k - 1) * Cycle >= 0 /\ (k - 1) * Cycle = LongRange - Cycle
    BY <1>4, Widths
  <2>2. (Eaws - 1) * EawUs >= 0 /\ (Eaws - 1) * EawUs = Cycle - EawUs
    BY Widths
  <2>3. z \in 0 .. LongRange - 1
    <3> HIDE DEF z
    <3>1. z \in 0 .. EawUs - TuUs
      BY <1>3
    <3>2. EawUs <= Cycle /\ Cycle <= LongRange
      BY <1>4, <2>1, <2>2, Constants, Widths
    <3>3. QED
      BY <3>1, <3>2, Constants, Widths
  <2> HIDE DEF z
  <2>4. QED
    BY <2>3, Constants, Remainder
<1>7. r \in 0 .. 3 /\ f.next_aw_seq = 4 * e + r
  <2>1. \A s \in Int : s % 4 \in 0 .. 3 /\ s = 4 * (s \div 4) + (s % 4)
    OBVIOUS
  <2>2. f.next_aw_seq \in Int
    BY <1>2, Constants
  <2>3. QED
    BY <2>1, <2>2
<1>8. /\ last_update'[n] = (now[n] - (z % LongRange)) % WordRange
      /\ aw_counter'[n] = f.next_aw_seq - r
  BY <1>1, <1>2 DEF Adjust, UpdateLast, SyncInv, TypeOK
<1>9. last_update'[n] = u
  BY <1>6, <1>8
<1>10. x \in Int
  <2>1. now[n] \in Int
    BY <1>2, Constants DEF SyncInv, TypeOK
  <2> HIDE DEF z
  <2>2. QED
    BY <1>3, <2>1
<1>11. j \in Int /\ u \in 0 .. WordRange - 1 /\ x = WordRange * j + u
  <2> HIDE DEF x
  <2>1. QED
    BY <1>10, Constants, DivMod
<1>12. now'[n] = x + z
  <2>1. now[n] \in Int /\ z \in Int
    BY <1>2, <1>3, Constants DEF SyncInv, TypeOK
  <2>2. QED
    BY <1>1, <2>1
<1> HIDE DEF z, e, r, x, j, u
<1>13. aw_counter'[n] \div PresenceMode = e
  <2>1. aw_counter'[n] = 4 * e + 0 /\ e \in Int
    BY <1>3, <1>7, <1>8
  <2>2. QED
    BY <2>1, Constants, Division
<1>14. Position(n)' = PositionOf(now'[n], last_update'[n], aw_counter'[n])
  BY <1>2, AdjustTypes, MeasuredNext DEF AllMeasured, Measured
<1> DEFINE p == e * EawUs + ((x + z) - u)
           q == l * k * j
<1>15. p % Cycle = Announced(f)
  <2>1. WordRange * j = Cycle * q /\ q \in Int
    BY <1>4, <1>5, <1>11, Widths
  <2>2. p \in Int /\ p = Cycle * q + Announced(f)
    <3>1. e * EawUs \in Int /\ WordRange * j \in Int
      BY <1>3, <1>11, Constants, Widths
    <3>2. QED
      BY <1>3, <1>10, <1>11, <2>1, <3>1
  <2> HIDE DEF p, q
  <2>3. QED
    BY <1>3, <2>1, <2>2, Widths, Division
<1>16. QED
  BY <1>9, <1>12, <1>13, <1>14, <1>15 DEF PositionOf

LEMMA ReceiveStep ==
  ASSUME SyncInv, NEW frame \in air, Receive(frame)
  PROVE  SyncInv'
<1> DEFINE n == frame.dst
           f == frame.body
<1>1. /\ air' = air \ {frame} /\ UNCHANGED << now, up, master, current, mifIn, free >>
  BY DEF Receive
<1>2. CASE master[n] # f.src
  <2>1. UNCHANGED << clock, shifted, history, syncs >>
    BY <1>2 DEF Receive
  <2>2. NodesOK' /\ \A x : FrameOK(x) => FrameOK(x)'
    BY <1>1, <2>1, QuietFacts, StillAimed
  <2>3. AirOK'
    BY <1>1, <2>2, InvMeansAirOK DEF AirOK
  <2>4. TypeOK'
    BY <1>1, <2>1 DEF SyncInv, TypeOK, clock, history
  <2>5. QED
    BY <2>2, <2>3, <2>4, Whole
<1>3. CASE master[n] = f.src
  <2>1. syncs < MaxSyncs /\ syncs' = syncs + 1 /\ Adjust(n, f)
    BY <1>3 DEF Receive
  <2>2. TypeOK' /\ Aligned' /\ Position(n)' = Announced(f)
    BY <1>3, AdjustTypes, AdjustedPosition
  <2>3. FrameOK(frame) /\ n \in up /\ n \in Node /\ f.origin \in up /\ f.hops \in Nat
        /\ f.hops <= syncs /\ frame.age \in 0 .. MaxDelay /\ syncs \in Nat
    BY InvMeansAirOK, Constants DEF AirOK, FrameOK, Frame, SyncInv, TypeOK
  <2>4. /\ origin'[n] = f.origin /\ hops'[n] = f.hops + 1 /\ shifted'[n] = TRUE
        /\ meas_total'[n] = meas_total[n] + 1 /\ meas_err'[n] \in {meas_err[n], meas_err[n] + 1}
    BY <2>1, <2>3 DEF Adjust, SyncInv, TypeOK
  <2>5. \A m \in Node : m # n =>
          /\ origin'[m] = origin[m] /\ hops'[m] = hops[m] /\ shifted'[m] = shifted[m]
          /\ meas_total'[m] = meas_total[m] /\ meas_err'[m] = meas_err[m]
          /\ last_update'[m] = last_update[m] /\ aw_counter'[m] = aw_counter[m]
    BY <2>1 DEF Adjust, UpdateLast, SyncInv, TypeOK
  <2>6. NodesOK
    BY InvMeansNodesOK
  <2>7. \A m \in Node : m # n => Position(m)' = Position(m)
    BY <1>1, <2>5, SamePosition
  <2>8. AirOK'
    <3>1. ASSUME NEW x, FrameOK(x) PROVE FrameOK(x)'
      <4>1. x.body.hops <= syncs'
        <5>1. x.body.hops \in Nat /\ x.body.hops <= syncs
          BY <3>1, Constants DEF FrameOK, Frame
        <5>2. QED
          BY <2>1, <2>3, <5>1
      <4>2. QED
        BY <1>1, <3>1, <4>1 DEF FrameOK
    <3>2. QED
      BY <1>1, <3>1, InvMeansAirOK DEF AirOK
  <2>9. Behind(n)' <= hops'[n] * Hop
    <3>1. Behind(n)' = (free[f.origin] - Announced(f)) % Cycle
      BY <1>1, <2>2, <2>4 DEF Behind
    <3>2. Behind(n)' <= f.hops * Hop + (TuUs - 1) + frame.age
      BY <2>3, <3>1 DEF FrameOK
    <3>3. f.hops * Hop \in Nat /\ (f.hops + 1) * Hop = f.hops * Hop + Hop
      BY <2>3, HopFacts
    <3>4. Behind(n)' \in Int
      <4>1. free[f.origin] \in Int /\ Announced(f) \in Int
        BY <2>3, AnnouncedType, Widths DEF FrameOK, Frame, SyncInv, TypeOK
      <4> DEFINE x == free[f.origin] - Announced(f)
      <4>2. x \in Int
        BY <4>1
      <4> HIDE DEF x
      <4>3. x % Cycle \in Int
        BY <4>2, Widths, DivMod
      <4>4. QED
        BY <3>1, <4>3 DEF x
    <3>5. Hop = MaxDelay + (TuUs - 1) /\ hops'[n] = f.hops + 1
      BY <2>4 DEF Hop
    <3>6. Behind(n)' <= f.hops * Hop + Hop
      BY <2>3, <3>2, <3>3, <3>4, <3>5, Constants
    <3>7. QED
      BY <3>3, <3>5, <3>6
  <2>10. BehindByHops'
    <3>1. ASSUME NEW m \in up, m # n PROVE Behind(m)' <= hops'[m] * Hop
      <4>1. m \in Node /\ Behind(m)' = Behind(m) /\ hops'[m] = hops[m]
        BY <1>1, <2>5, <2>7, <3>1 DEF Behind, SyncInv, TypeOK
      <4>2. Behind(m) <= hops[m] * Hop
        BY <2>6, Constants DEF NodesOK, BehindByHops, Hop
      <4>3. QED
        BY <4>1, <4>2
    <3>2. \A m \in up' : Behind(m)' <= hops'[m] * Hop
      BY <1>1, <2>9, <3>1
    <3>3. Hop = MaxDelay + TuUs - 1
      BY Constants DEF Hop
    <3>4. QED
      BY <3>2, <3>3 DEF BehindByHops
  <2>11. Aimed'
    <3>1. ASSUME NEW m \in up, ~shifted'[m] PROVE (Position(m)' + mifIn'[m]) % EawUs = Half
      <4>1. m # n /\ m \in Node
        BY <2>4, <3>1 DEF SyncInv, TypeOK
      <4>2. Position(m)' = Position(m) /\ mifIn'[m] = mifIn[m] /\ ~shifted[m]
        BY <1>1, <2>5, <2>7, <3>1, <4>1
      <4>3. QED
        BY <2>6, <4>2 DEF NodesOK, Aimed
    <3>2. QED
      BY <1>1, <3>1 DEF Aimed
  <2>12. \A m \in Node : meas_total'[m] <= syncs' /\ meas_err'[m] <= meas_total'[m] /\ hops'[m] <= syncs'
    <3>1. ASSUME NEW m \in Node
          PROVE  meas_total'[m] <= syncs' /\ meas_err'[m] <= meas_total'[m] /\ hops'[m] <= syncs'
      <4>1. /\ meas_total[m] <= syncs /\ meas_err[m] <= meas_total[m] /\ hops[m] <= syncs
            /\ meas_total[m] \in Nat /\ meas_err[m] \in Nat /\ hops[m] \in Nat
        BY <2>6, Constants DEF NodesOK, SyncInv, TypeOK
      <4>2. CASE m = n
        BY <2>1, <2>3, <2>4, <4>1, <4>2
      <4>3. CASE m # n
        BY <2>1, <2>3, <2>5, <4>1, <4>3
      <4>4. QED
        BY <4>2, <4>3
    <3>2. QED
      BY <3>1
  <2>13. NodesOK'
    <3>1. \A m \in Node \ up :
            aw_counter'[m] = 0 /\ origin'[m] = m /\ hops'[m] = 0 /\ shifted'[m] /\ mifIn'[m] = 0
      BY <1>1, <2>3, <2>5, <2>6 DEF NodesOK
    <3>2. \A m \in up : origin'[m] \in up
      <4>1. up \subseteq Node
        BY DEF SyncInv, TypeOK
      <4>2. QED
        BY <2>3, <2>4, <2>5, <2>6, <4>1 DEF NodesOK
    <3>3. QED
      BY <1>1, <2>2, <2>10, <2>11, <2>12, <3>1, <3>2 DEF NodesOK
  <2>14. QED
    BY <2>2, <2>8, <2>13, Whole
<1>4. QED
  BY <1>2, <1>3

-----------------------------------------------------------------------------
(* Time passes, whatever wraps meanwhile.                                  *)

LEMMA TickTypes ==
  ASSUME SyncInv, Tick
  PROVE  TypeOK' /\ Aligned'
<1>1. TypeOK
  BY DEF SyncInv
<1>2. /\ \A n \in up : mifIn[n] > -MaxLate
      /\ \A frame \in air : frame.age < MaxDelay
      /\ now' = [ n \in Node |-> (now[n] + 1) % WordRange ]
      /\ free' = [ n \in Node |-> (free[n] + 1) % Cycle ]
      /\ mifIn' = [ n \in Node |-> IF n \in up THEN mifIn[n] - 1 ELSE 0 ]
      /\ air' = { [ frame EXCEPT !.age = @ + 1 ] : frame \in air }
      /\ UNCHANGED << up, clock, master, current, shifted, history, syncs >>
  BY DEF Tick
<1>3. \A m \in Nat : m > 0 => \A a \in Int : (a + 1) % m \in 0 .. m - 1
  <2>1. SUFFICES ASSUME NEW m \in Nat, m > 0, NEW a \in Int PROVE (a + 1) % m \in 0 .. m - 1
    OBVIOUS
  <2> DEFINE b == a + 1
  <2>2. b \in Int
    OBVIOUS
  <2> HIDE DEF b
  <2>3. b % m \in 0 .. m - 1
    BY <2>1, <2>2, DivMod
  <2>4. QED
    BY <2>3 DEF b
<1>4. now' \in [ Node -> 0 .. WordRange - 1 ]
  BY <1>1, <1>2, <1>3, Constants DEF TypeOK
<1>5. free' \in [ Node -> 0 .. Cycle - 1 ]
  BY <1>1, <1>2, <1>3, Widths DEF TypeOK
<1>6. mifIn' \in [ Node -> -MaxLate .. 2 * EawUs ]
  <2>1. ASSUME NEW n \in Node PROVE mifIn'[n] \in -MaxLate .. 2 * EawUs
    <3>1. mifIn[n] \in -MaxLate .. 2 * EawUs
      BY <1>1 DEF TypeOK
    <3>2. QED
      BY <1>2, <3>1, Constants, Widths
  <2>2. QED
    BY <1>2, <2>1
<1>7. air' \subseteq Frame
  <2>1. ASSUME NEW frame \in air PROVE [ frame EXCEPT !.age = @ + 1 ] \in Frame
    <3>1. frame \in Frame /\ frame.age < MaxDelay
      BY <1>1, <1>2 DEF TypeOK
    <3>2. frame.age + 1 \in 0 .. MaxDelay
      BY <3>1, Constants DEF Frame
    <3>3. QED
      BY <3>1, <3>2 DEF Frame
  <2>2. QED
    BY <1>2, <2>1
<1>8. TypeOK'
  BY <1>1, <1>2, <1>4, <1>5, <1>6, <1>7 DEF TypeOK, clock, history
<1>9. Aligned'
  BY <1>2 DEF SyncInv, Aligned, clock
<1>10. QED
  BY <1>8, <1>9

LEMMA TickPosition ==
  ASSUME SyncInv, Tick, NEW n \in Node
  PROVE  Position(n)' = (Position(n) + 1) % Cycle
<1> DEFINE t == now[n]
           u == last_update[n]
           c == (aw_counter[n] \div PresenceMode) * EawUs
           s == t + 1
           j == s \div WordRange
           r == s % WordRange
<1>1. TypeOK /\ Aligned /\ TypeOK' /\ Aligned'
  BY TickTypes DEF SyncInv
<1>2. now'[n] = r /\ last_update'[n] = u /\ aw_counter'[n] = aw_counter[n]
  BY DEF Tick, clock
<1>3. Position(n) = (c + (t - u)) % Cycle
  BY <1>1, MeasuredNow DEF AllMeasured, Measured, PositionOf
<1>4. Position(n)' = (c + (r - u)) % Cycle
  <2>1. Position(n)' = PositionOf(now'[n], last_update'[n], aw_counter'[n])
    BY <1>1, MeasuredNext DEF AllMeasured, Measured
  <2>2. QED
    BY <1>2, <2>1 DEF PositionOf
<1>5. t \in Int /\ u \in Int
  BY <1>1, Constants DEF TypeOK
<1>6. c \in Int
  <2>1. aw_counter[n] \in Int
    BY <1>1, Constants DEF TypeOK
  <2>2. aw_counter[n] \div PresenceMode \in Int
    BY <2>1, Constants, DivMod
  <2>3. QED
    BY <2>2, Widths
<1>7. j \in Int /\ r \in Int /\ s = WordRange * j + r
  <2>1. s \in Int
    BY <1>5
  <2> HIDE DEF s
  <2>2. QED
    BY <2>1, Constants, DivMod
<1>8. s = t + 1
  OBVIOUS
<1> HIDE DEF t, u, c, s, j, r
<1>9. PICK k \in Nat : LongRange = k * Cycle
  BY Widths
<1>10. PICK l \in Nat : WordRange = l * LongRange
  BY Widths
<1> DEFINE x == c + (r - u)
           y == c + (t - u)
           one == 1
           z == y + one
           q == -(l * k * j)
<1>11. x \in Int /\ z \in Int /\ q \in Int /\ x = z + Cycle * q
  <2>1. WordRange * j = Cycle * (l * k * j) /\ l * k * j \in Int
    BY <1>7, <1>9, <1>10, Widths
  <2>2. Cycle * q = -(WordRange * j) /\ q \in Int /\ WordRange * j \in Int
    BY <1>7, <2>1, Constants, Widths
  <2> HIDE DEF q
  <2>3. QED
    BY <1>5, <1>6, <1>7, <1>8, <2>2
<1>12. y \in Int /\ one \in Int
  BY <1>5, <1>6
<1>13. Position(n)' = x % Cycle /\ Position(n) = y % Cycle
  BY <1>3, <1>4
<1> HIDE DEF x, q, y, one
<1>14. ((y % Cycle) + one) % Cycle = z % Cycle
  BY <1>12, Widths, Sum
<1> HIDE DEF z
<1>15. x % Cycle = z % Cycle
  BY <1>11, Widths, Congruent
<1>16. QED
  BY <1>13, <1>14, <1>15 DEF one

LEMMA TickStep ==
  ASSUME SyncInv, Tick
  PROVE  SyncInv'
<1>1. /\ free' = [ n \in Node |-> (free[n] + 1) % Cycle ]
      /\ mifIn' = [ n \in Node |-> IF n \in up THEN mifIn[n] - 1 ELSE 0 ]
      /\ air' = { [ frame EXCEPT !.age = @ + 1 ] : frame \in air }
      /\ UNCHANGED << up, clock, master, current, shifted, history, syncs >>
  BY DEF Tick
<1>2. TypeOK /\ TypeOK' /\ Aligned' /\ NodesOK /\ AirOK
  BY TickTypes, InvMeansNodesOK, InvMeansAirOK DEF SyncInv
<1>3. \A n \in Node : Position(n) \in 0 .. Cycle - 1
  BY MeasuredNow DEF SyncInv, AllMeasured, Measured
<1>4. BehindByHops'
  <2>1. ASSUME NEW n \in up PROVE Behind(n)' = Behind(n)
    <3> DEFINE one == 1
               a == free[origin[n]]
               b == Position(n)
               x == a + one
               y == b + one
    <3>1. a \in Int /\ b \in Int /\ origin[n] \in Node /\ n \in Node
      BY <1>2, <1>3, Widths DEF TypeOK
    <3>2. free'[origin[n]] = x % Cycle /\ Position(n)' = y % Cycle /\ origin'[n] = origin[n]
      BY <1>1, <3>1, TickPosition DEF history
    <3>3. x \in Int /\ y \in Int /\ x - y = a - b
      BY <3>1
    <3>4. Behind(n) = (a - b) % Cycle /\ Behind(n)' = ((x % Cycle) - (y % Cycle)) % Cycle
      BY <3>2 DEF Behind
    <3> HIDE DEF x, y, a, b
    <3>5. ((x % Cycle) - (y % Cycle)) % Cycle = (x - y) % Cycle
      BY <3>3, Widths, Difference
    <3>6. QED
      BY <3>3, <3>4, <3>5
  <2>2. QED
    BY <1>1, <1>2, <2>1 DEF NodesOK, BehindByHops, history
<1>5. AirOK'
  <2>1. ASSUME NEW frame \in air PROVE FrameOK([ frame EXCEPT !.age = @ + 1 ])'
    <3> DEFINE older == [ frame EXCEPT !.age = @ + 1 ]
               o == frame.body.origin
               f == frame.body
    <3>1. FrameOK(frame) /\ frame \in Frame /\ o \in Node /\ frame.age \in Nat /\ f.hops \in Nat
      BY <1>2, Constants DEF AirOK, FrameOK, Frame
    <3>2. older \in air' /\ older.age = frame.age + 1 /\ older.body = f /\ older.dst = frame.dst
      BY <1>1, <3>1 DEF Frame
    <3>3. Announced(f) \in Int /\ free[o] \in Int
      BY <1>2, <3>1, AnnouncedType, Widths DEF Frame, TypeOK
    <3> DEFINE one == 1
               a == free[o]
               b == -Announced(f)
               x == a + one
               y == a + b
               z == x + b
    <3>4. x \in Int /\ b \in Int /\ y \in Int /\ z \in Int /\ z = y + one /\ one \in Nat
      BY <3>3
    <3>5. free'[o] = x % Cycle
      BY <1>1, <3>1
    <3>6. free[o] - Announced(f) = y
      BY <3>3
    <3>7. (free'[o] - Announced(f)) % Cycle = z % Cycle
      <4>1. x % Cycle \in Int
        <5> HIDE DEF x
        <5>1. QED
          BY <3>4, Widths, DivMod
      <4>2. free'[o] - Announced(f) = (x % Cycle) + b
        BY <3>3, <3>5, <4>1
      <4> HIDE DEF x, b
      <4>3. ((x % Cycle) + b) % Cycle = z % Cycle
        BY <3>4, Widths, Sum
      <4>4. QED
        BY <4>2, <4>3
    <3>8. z % Cycle <= (y % Cycle) + 1
      <4> HIDE DEF y, z, one
      <4>1. z % Cycle <= (y % Cycle) + one
        BY <3>4, Widths, Later
      <4>2. QED
        BY <4>1 DEF one
    <3>9. y % Cycle <= f.hops * Hop + (TuUs - 1) + frame.age
      BY <3>1, <3>6 DEF FrameOK
    <3>10. z % Cycle \in Int /\ y % Cycle \in Int /\ f.hops * Hop \in Int
      <4>1. f.hops * Hop \in Int
        BY <3>1, HopFacts
      <4> HIDE DEF y, z
      <4>2. QED
        BY <3>4, <4>1, Widths, DivMod
    <3>11. z % Cycle <= f.hops * Hop + (TuUs - 1) + (frame.age + 1)
      <4> HIDE DEF y, z
      <4>1. QED
        BY <3>1, <3>8, <3>9, <3>10, Constants
    <3>12. (free'[o] - Announced(f)) % Cycle <= f.hops * Hop + (TuUs - 1) + older.age
      BY <3>2, <3>7, <3>11
    <3>13. older \in Frame
      BY <1>2, <3>2 DEF TypeOK
    <3>14. ASSUME NEW g, g = older PROVE FrameOK(g)'
      <4> HIDE DEF older
      <4>1. g \in Frame /\ g.age = older.age /\ g.body = f /\ g.dst = frame.dst
        BY <3>2, <3>13, <3>14
      <4>2. f.hops <= syncs /\ f.src \in up /\ o \in up /\ frame.dst \in up
        BY <3>1 DEF FrameOK
      <4>3. g.body.origin = o /\ g.body.hops = f.hops /\ g.body.src = f.src
        BY <4>1
      <4>4. (free'[g.body.origin] - Announced(g.body)) % Cycle <= g.body.hops * Hop + (TuUs - 1) + g.age
        BY <3>12, <4>1, <4>3
      <4>5. up' = up /\ syncs' = syncs
        BY <1>1
      <4>6. QED
        BY <4>1, <4>2, <4>3, <4>4, <4>5 DEF FrameOK
    <3>15. QED
      BY <3>14
  <2>2. QED
    BY <1>1, <2>1 DEF AirOK
<1>6. Aimed'
  <2>1. ASSUME NEW n \in up, ~shifted[n] PROVE (Position(n)' + mifIn'[n]) % EawUs = Half
    <3> DEFINE p == Position(n)
               i == mifIn[n]
               s == p + 1
               j == s \div Cycle
               r == s % Cycle
               x == r + (i - 1)
               y == p + i
               q == -(Eaws * j)
    <3>1. n \in Node /\ p \in Int /\ i \in Int /\ mifIn'[n] = i - 1 /\ Position(n)' = r
      BY <1>1, <1>2, <1>3, TickPosition, Constants, Widths DEF TypeOK
    <3>2. s \in Int
      BY <3>1
    <3>3. j \in Int /\ r \in 0 .. Cycle - 1 /\ s = Cycle * j + r
      <4> HIDE DEF s
      <4>1. QED
        BY <3>2, Widths, DivMod
    <3> HIDE DEF p, i, s, j, r
    <3>4. x \in Int /\ y \in Int /\ q \in Int /\ x = y + EawUs * q
      <4>1. Cycle * j = EawUs * (Eaws * j) /\ Eaws * j \in Int
        BY <3>3, Widths
      <4>2. q \in Int /\ EawUs * q = -(Cycle * j) /\ Cycle * j \in Int
        BY <3>3, <4>1, Widths
      <4> HIDE DEF q
      <4>3. s = p + 1
        BY DEF s
      <4>4. r \in Int
        BY <3>3, Widths
      <4>5. QED
        BY <3>1, <3>3, <4>2, <4>3, <4>4
    <3>5. y % EawUs = Half
      BY <1>2, <2>1 DEF NodesOK, Aimed, p, i
    <3>6. x % EawUs = y % EawUs
      <4> HIDE DEF x, y, q
      <4>1. QED
        BY <3>4, Widths, Congruent
    <3>7. QED
      BY <3>1, <3>5, <3>6
  <2>2. QED
    BY <1>1, <2>1 DEF Aimed
<1>7. NodesOK'
  BY <1>1, <1>2, <1>4, <1>6 DEF NodesOK, clock, history, TypeOK
<1>8. QED
  BY <1>2, <1>5, <1>7, Whole

-----------------------------------------------------------------------------
(* A daemon starts: its clock shows nothing yet, and nobody follows it.    *)

LEMMA StartTypes ==
  ASSUME SyncInv, NEW n \in Node, Start(n)
  PROVE  TypeOK' /\ Aligned'
<1>1. TypeOK
  BY DEF SyncInv
<1>2. 0 \in 0 .. Cycle - 1 /\ 0 \in -MaxLate .. 2 * EawUs
  BY Constants, Widths
<1>3. now[n] \in 0 .. WordRange - 1
  BY <1>1 DEF TypeOK
<1>4. TypeOK'
  BY <1>1, <1>2, <1>3 DEF Start, TypeOK, history
<1>5. Aligned'
  BY DEF Start, SyncInv, Aligned
<1>6. QED
  BY <1>4, <1>5

LEMMA StartStep ==
  ASSUME SyncInv, NEW n \in Node, Start(n)
  PROVE  SyncInv'
<1>1. /\ n \notin up /\ up' = up \cup {n}
      /\ last_update' = [ last_update EXCEPT ![n] = now[n] ]
      /\ free' = [ free EXCEPT ![n] = 0 ]
      /\ mifIn' = [ mifIn EXCEPT ![n] = 0 ]
      /\ UNCHANGED << now, aw_counter, meas_total, meas_err, master, current, shifted, air,
                      origin, hops, syncs >>
  BY DEF Start, history
<1>2. TypeOK /\ TypeOK' /\ Aligned' /\ NodesOK /\ AirOK
  BY StartTypes, InvMeansNodesOK, InvMeansAirOK DEF SyncInv
<1>3. /\ aw_counter[n] = 0 /\ origin[n] = n /\ hops[n] = 0 /\ shifted[n]
      /\ mifIn[n] = 0
  BY <1>1, <1>2 DEF NodesOK
<1>4. 0 % Cycle = 0
  BY Widths, Remainder
<1>5. Position(n)' = 0
  <2>1. Position(n)' = PositionOf(now'[n], last_update'[n], aw_counter'[n])
    BY <1>2, MeasuredNext DEF AllMeasured, Measured
  <2>2. now'[n] = now[n] /\ last_update'[n] = now[n] /\ aw_counter'[n] = 0 /\ now[n] \in Int
    BY <1>1, <1>2, <1>3, Constants DEF TypeOK
  <2>3. 0 \div PresenceMode = 0
    BY Constants
  <2>4. 0 * EawUs + (now[n] - now[n]) = 0
    BY <2>2, Widths
  <2>5. QED
    BY <1>4, <2>1, <2>2, <2>3, <2>4 DEF PositionOf
<1>6. \A m \in Node : m # n =>
        free'[m] = free[m] /\ mifIn'[m] = mifIn[m] /\ Position(m)' = Position(m)
  BY <1>1, <1>2, SamePosition DEF TypeOK
<1>7. \A m \in up : m \in Node /\ m # n /\ origin[m] \in Node /\ origin[m] # n
  BY <1>1, <1>2 DEF TypeOK, NodesOK
<1>8. BehindByHops'
  <2>1. ASSUME NEW m \in up PROVE Behind(m)' = Behind(m)
    BY <1>1, <1>6, <1>7 DEF Behind
  <2>2. Behind(n)' = 0
    <3>1. free'[origin'[n]] = 0
      BY <1>1, <1>2, <1>3 DEF TypeOK
    <3>2. QED
      BY <1>4, <1>5, <3>1 DEF Behind
  <2>3. 0 <= hops'[n] * (MaxDelay + TuUs - 1)
    BY <1>1, <1>3, Constants
  <2>4. QED
    BY <1>1, <1>2, <2>1, <2>2, <2>3 DEF NodesOK, BehindByHops
<1>9. AirOK'
  <2>1. ASSUME NEW frame \in air PROVE FrameOK(frame)'
    <3>1. FrameOK(frame) /\ frame.body.origin \in Node /\ frame.body.origin # n
      BY <1>2, <1>7 DEF AirOK, FrameOK
    <3>2. free'[frame.body.origin] = free[frame.body.origin]
      BY <1>6, <3>1
    <3>3. QED
      BY <1>1, <3>1, <3>2 DEF FrameOK
  <2>2. QED
    BY <1>1, <2>1 DEF AirOK
<1>10. Aimed'
  BY <1>1, <1>2, <1>3, <1>6, <1>7 DEF NodesOK, Aimed
<1>11. NodesOK'
  <2>1. \A m \in up' : origin'[m] \in up'
    BY <1>1, <1>2, <1>3 DEF NodesOK
  <2>2. \A m \in Node \ up' :
          aw_counter'[m] = 0 /\ origin'[m] = m /\ hops'[m] = 0 /\ shifted'[m] /\ mifIn'[m] = 0
    BY <1>1, <1>2, <1>6 DEF NodesOK
  <2>3. QED
    BY <1>1, <1>2, <1>8, <1>10, <2>1, <2>2 DEF NodesOK
<1>12. QED
  BY <1>2, <1>9, <1>11, Whole

-----------------------------------------------------------------------------
LEMMA StepInv == SyncInv /\ [Next]_vars => SyncInv'
<1> SUFFICES ASSUME SyncInv, [Next]_vars PROVE SyncInv'
  OBVIOUS
<1>1. CASE Tick
  BY <1>1, TickStep
<1>2. ASSUME NEW n \in Node, Start(n) PROVE SyncInv'
  BY <1>2, StartStep
<1>3. ASSUME NEW n \in up, SendPsf(n) PROVE SyncInv'
  BY <1>3, SendPsfStep
<1>4. ASSUME NEW n \in up, SendMif(n) PROVE SyncInv'
  BY <1>4, SendMifStep
<1>5. ASSUME NEW n \in up, SwitchChannel(n) PROVE SyncInv'
  BY <1>5, SwitchChannelStep
<1>6. ASSUME NEW n \in up, NEW m \in up, Elect(n, m) PROVE SyncInv'
  BY <1>6, ElectStep
<1>7. ASSUME NEW frame \in air, Receive(frame) PROVE SyncInv'
  BY <1>7, ReceiveStep
<1>8. ASSUME NEW frame \in air, Lose(frame) PROVE SyncInv'
  BY <1>8, LoseStep
<1>9. CASE UNCHANGED vars
  BY <1>9, Idle
<1>10. QED
  BY <1>1, <1>2, <1>3, <1>4, <1>5, <1>6, <1>7, <1>8, <1>9 DEF Next

(* The clocks, the frames under way and the MIF timers are right together, *)
(* in every run of the daemons (sync.c, rx.c:15-39, core.c:167-183).       *)
THEOREM SyncInvariant == Spec => []SyncInv
<1>1. QED
  BY InitInv, StepInv, PTL DEF Spec

(* Every field stays within its width, and the counters within the number  *)
(* of adjustments (sync.c:4-53, rx.c:28-33).                               *)
THEOREM SyncTypeCorrect == Spec => []TypeOK
<1>1. SyncInv => TypeOK
  BY DEF SyncInv
<1>2. QED
  BY <1>1, SyncInvariant, PTL

(* A clock is never ahead of the one it comes from and behind it by at     *)
(* most a delay and the rounding to a TU for every node in between, for    *)
(* all widths and however often anything wraps (sync.c:28-53).             *)
THEOREM ClocksFollow == Spec => []BehindByHops
<1>1. SyncInv => BehindByHops
  BY DEF SyncInv
<1>2. QED
  BY <1>1, SyncInvariant, PTL

-----------------------------------------------------------------------------
(* The MIF timer.                                                          *)

MifOnTime ==
  \A n \in up :
    mifIn[n] <= 0 /\ mifIn'[n] > 0 /\ ~shifted[n] =>
      (Position(n) % EawUs) - (EawTu \div 2) * TuUs \in 0 .. MaxLate

LEMMA MifStep ==
  ASSUME SyncInv, MaxLate < Half, NEW n \in up, mifIn[n] <= 0, ~shifted[n]
  PROVE  (Position(n) % EawUs) - Half \in 0 .. MaxLate
<1> DEFINE p == Position(n)
           i == mifIn[n]
           d == p \div EawUs
           o == p % EawUs
           x == p + i
           g == x \div EawUs
           late == -i
           q == g - d
           own == Half + late
<1>1. n \in Node /\ p \in Int /\ i \in -MaxLate .. 0
  BY MeasuredNow, Widths, Constants DEF SyncInv, TypeOK, AllMeasured, Measured
<1>2. d \in Int /\ o \in 0 .. EawUs - 1 /\ p = EawUs * d + o
  <2> HIDE DEF p
  <2>1. QED
    BY <1>1, Widths, DivMod
<1>3. x % EawUs = Half
  BY DEF SyncInv, Aimed
<1>4. g \in Int /\ x = EawUs * g + Half
  <2>1. x \in Int
    BY <1>1
  <2> HIDE DEF x
  <2>2. QED
    BY <1>3, <2>1, Widths, DivMod
<1>5. x = p + i
  OBVIOUS
<1>6. late \in 0 .. MaxLate /\ i = -late
  BY <1>1, Constants
<1> HIDE DEF p, i, x, d, o, g, late
<1>7. own \in 0 .. EawUs - 1 /\ q \in Int
  BY <1>2, <1>4, <1>6, Widths, Constants
<1>8. o = EawUs * q + own
  <2>1. EawUs * q = EawUs * g - EawUs * d /\ EawUs * g \in Int /\ EawUs * d \in Int
    <3>1. d \in Int /\ g \in Int
      BY <1>2, <1>4
    <3>2. QED
      BY <3>1, Widths
  <2> DEFINE A == EawUs * g
             B == EawUs * d
             C == EawUs * q
  <2>2. A \in Int /\ B \in Int /\ C = A - B
    BY <2>1
  <2>3. p = B + o /\ x = A + Half
    BY <1>2, <1>4
  <2>4. Half \in Int /\ late \in Int /\ o \in Int /\ p \in Int
    BY <1>1, <1>2, <1>6, Widths, Constants
  <2> HIDE DEF A, B, C, q
  <2>5. o = C + (Half + late)
    BY <1>5, <1>6, <2>2, <2>3, <2>4
  <2>6. QED
    BY <2>5 DEF C
<1>9. o % EawUs = own /\ o % EawUs = o
  <2>1. o \in Int
    BY <1>2
  <2> HIDE DEF own, q
  <2>2. o % EawUs = own
    BY <1>7, <1>8, <2>1, Widths, Division
  <2>3. o % EawUs = o
    BY <1>2, Widths, Remainder
  <2>4. QED
    BY <2>2, <2>3
<1>10. o - Half \in 0 .. MaxLate
  <2>1. o = Half + late
    BY <1>9
  <2>2. Half \in Int /\ MaxLate \in Nat
    BY Widths, Constants
  <2>3. QED
    BY <1>6, <2>1, <2>2
<1>11. QED
  BY <1>10 DEF o, p

(* A MIF whose timer nothing has shifted goes out in the middle of an      *)
(* extended window, not later than the timers are: for every length of     *)
(* windows of which half is more than the lateness of a timer              *)
(* (core.c:181).                                                           *)
THEOREM MifsInMiddle == MaxLate < Half => (Spec => MifInMiddle)
<1> SUFFICES ASSUME MaxLate < Half PROVE Spec => MifInMiddle
  OBVIOUS
<1>1. SyncInv => MifOnTime
  BY MifStep DEF MifOnTime, Half
<1>2. SyncInv /\ [Next]_vars => [MifOnTime]_vars
  BY <1>1
<1>3. QED
  BY <1>2, SyncInvariant, PTL DEF Spec, MifInMiddle, MifOnTime

-----------------------------------------------------------------------------
(* The error in TUs that the code computes is that of the clock, but for   *)
(* the rounding of the announcement to a TU.                               *)
LEMMA ErrorFacts ==
  ASSUME SyncInv, NEW n \in up, NEW frame \in air
  PROVE  /\ SyncErrorTu(n, frame.body) \in Int
         /\ \E r \in 0 .. TuUs - 1 :
              Announced(frame.body) - Position(n) = SyncErrorTu(n, frame.body) * TuUs - r
<1> DEFINE f == frame.body
           e == f.next_aw_seq \div PresenceMode
           t == f.tx_down_counter
           c == CurrentEaw(n)
           a == NextAwTu(n)
           err == (e - c) * EawTu - (t - a)
<1>1. /\ f \in [ src : Node, next_aw_seq : 0 .. AwRange - 1, tx_down_counter : 1 .. EawTu,
                 origin : Node, hops : 0 .. MaxSyncs ]
      /\ Measured(n)
  BY InvMeansAirOK, MeasuredNow DEF AirOK, FrameOK, Frame, AllMeasured, SyncInv, TypeOK
<1>2. e \in Int /\ t \in Int /\ c \in Int /\ a \in Int
  <2>1. e \in 0 .. Eaws - 1 /\ t \in 1 .. EawTu
    BY <1>1, AnnouncedType
  <2>2. c \in 0 .. Eaws - 1 /\ a \in 1 .. EawTu
    BY <1>1 DEF Measured
  <2>3. QED
    BY <2>1, <2>2
<1>3. PICK r \in 0 .. TuUs - 1 : Position(n) = c * EawUs + (EawTu - a) * TuUs + r
  BY <1>1 DEF Measured
<1>4. Announced(f) = e * EawUs + (EawTu - t) * TuUs
  BY DEF Announced
<1>5. SyncErrorTu(n, f) = err
  BY DEF SyncErrorTu
<1> HIDE DEF e, t, c, a
<1>6. err \in Int
  BY <1>2, Widths
<1>7. err * TuUs = (e * EawUs + (EawTu - t) * TuUs) - (c * EawUs + (EawTu - a) * TuUs)
  <2>1. (e - c) * EawTu * TuUs = e * EawUs - c * EawUs
    <3>1. (e - c) * EawTu * TuUs = (e - c) * EawUs
      BY <1>2, Constants, Widths
    <3>2. (e - c) * EawUs = e * EawUs - c * EawUs
      BY <1>2, Widths
    <3>3. QED
      BY <3>1, <3>2
  <2>2. err * TuUs = (e - c) * EawTu * TuUs - (t - a) * TuUs
    BY <1>2, Constants, Widths
  <2>3. (EawTu - t) * TuUs - (EawTu - a) * TuUs = -((t - a) * TuUs)
    BY <1>2, Constants, Widths
  <2>4. e * EawUs \in Int /\ c * EawUs \in Int /\ (EawTu - t) * TuUs \in Int
        /\ (EawTu - a) * TuUs \in Int /\ (t - a) * TuUs \in Int
    BY <1>2, Constants, Widths
  <2>5. QED
    BY <2>1, <2>2, <2>3, <2>4
<1>8. Announced(f) - Position(n) = err * TuUs - r
  <2>1. e * EawUs \in Int /\ c * EawUs \in Int /\ (EawTu - t) * TuUs \in Int
        /\ (EawTu - a) * TuUs \in Int
    BY <1>2, Constants, Widths
  <2> DEFINE x == err * TuUs
  <2>2. x = (e * EawUs + (EawTu - t) * TuUs) - (c * EawUs + (EawTu - a) * TuUs)
    BY <1>7
  <2> HIDE DEF x, err
  <2>3. Announced(f) - Position(n) = x - r
    BY <1>3, <1>4, <2>1, <2>2
  <2>4. QED
    BY <2>3 DEF x
<1>9. QED
  BY <1>5, <1>6, <1>8

(* Half a cycle is a whole number of TUs, so a move that counts as one in  *)
(* the other direction is within the threshold there too.                  *)
LEMMA MoveFacts ==
  ASSUME SyncInv, NEW frame \in air, Receive(frame), master[frame.dst] = frame.body.src,
         ~Off(frame.dst, frame.body)
  PROVE  Moved(frame.dst) \in -(Threshold + 1) * TuUs + 1 .. Threshold * TuUs
<1> DEFINE n == frame.dst
           f == frame.body
           p == Position(n)
           o == Announced(f)
           D == o - p
           err == SyncErrorTu(n, f)
           m == Eaws * (2 * AwPeriod)
           h == m * TuUs
           d == D % Cycle
           top == Threshold * TuUs
           x == err * TuUs
<1>1. n \in up /\ n \in Node /\ o \in 0 .. Cycle - 1 /\ p \in 0 .. Cycle - 1
  <2>1. frame \in Frame /\ n \in up /\ n \in Node
    BY InvMeansAirOK DEF AirOK, FrameOK, SyncInv, TypeOK
  <2>2. Measured(n)
    BY <2>1, MeasuredNow DEF SyncInv, AllMeasured
  <2>3. o \in 0 .. Cycle - 1
    BY <2>1, AnnouncedType DEF Frame
  <2>4. QED
    BY <2>1, <2>2, <2>3 DEF Measured
<1>2. PICK r \in 0 .. TuUs - 1 : err \in Int /\ D = x - r
  BY <1>1, ErrorFacts
<1>3. err >= -Threshold /\ err <= Threshold
  BY <1>2, Constants DEF Off
<1>4. m \in Nat /\ h \in Nat /\ Cycle = 2 * h
  <2>1. 2 * AwPeriod \in Nat /\ m \in Nat
    BY Constants, Widths
  <2>2. Eaws * (4 * AwPeriod * TuUs) = 2 * (Eaws * (2 * AwPeriod) * TuUs)
    BY Constants, Widths
  <2>3. EawUs = 4 * AwPeriod * TuUs
    BY Widths
  <2>4. h \in Nat
    <3> HIDE DEF m
    <3>1. QED
      BY <2>1, Constants
  <2>5. QED
    BY <2>1, <2>2, <2>3, <2>4, Widths
<1>5. Cycle \div 2 = h
  <2> HIDE DEF h
  <2>1. Cycle = 2 * h + 0 /\ h \in Int
    BY <1>4
  <2>2. QED
    BY <2>1, Widths, Division
<1>6. Moved(n) = IF d > h THEN d - Cycle ELSE d
  <2>1. Position(n)' = o
    BY AdjustedPosition
  <2>2. QED
    BY <1>5, <2>1 DEF Moved
<1>7. x \in Int /\ -top <= x /\ x <= top /\ top \in Nat /\ (Threshold + 1) * TuUs = top + TuUs
  <2> HIDE DEF err
  <2>1. \A a, b \in Int : a <= b => a * TuUs <= b * TuUs
    BY Constants
  <2>2. (-Threshold) * TuUs = -top /\ top \in Nat /\ (Threshold + 1) * TuUs = top + TuUs
    BY Constants
  <2>3. (-Threshold) * TuUs <= x /\ x <= top
    BY <1>2, <1>3, <2>1, Constants
  <2>4. x \in Int
    BY <1>2, Constants
  <2>5. QED
    BY <2>2, <2>3, <2>4
<1>8. h <= top \/ h >= top + TuUs
  <2>1. m <= Threshold => m * TuUs <= Threshold * TuUs
    <3> HIDE DEF m
    <3>1. QED
      BY <1>4, Constants
  <2>2. m >= Threshold + 1 => m * TuUs >= (Threshold + 1) * TuUs
    <3> HIDE DEF m
    <3>1. QED
      BY <1>4, Constants
  <2>3. m <= Threshold \/ m >= Threshold + 1
    <3> HIDE DEF m
    <3>1. QED
      BY <1>4, Constants
  <2>4. QED
    BY <1>7, <2>1, <2>2, <2>3
<1>9. D \in Int /\ D >= -(top + TuUs) + 1 /\ D <= top
  <2> HIDE DEF x, top, D
  <2>1. QED
    BY <1>2, <1>7, Constants
<1>10. D > -Cycle /\ D < Cycle
  <2> HIDE DEF p, o
  <2>1. QED
    BY <1>1, Widths
<1> HIDE DEF D, h, x, top
<1>11. D >= 0 => d = D
  BY <1>9, <1>10, Widths, Remainder
<1>12. D < 0 => d = D + Cycle
  <2>1. ASSUME D < 0 PROVE d = D + Cycle
    <3> DEFINE s == D + Cycle
               q == -1
    <3>1. s \in 0 .. Cycle - 1 /\ q \in Int /\ D = Cycle * q + s
      BY <1>9, <1>10, <2>1, Widths
    <3> HIDE DEF s, q
    <3>2. D % Cycle = s
      BY <1>9, <3>1, Widths, Division
    <3>3. QED
      BY <3>2 DEF s
  <2>2. QED
    BY <2>1
<1> HIDE DEF d
<1>13. TuUs \in Nat /\ Cycle \in Nat
  BY Constants, Widths
<1>14. Moved(n) \in Int /\ Moved(n) >= -(top + TuUs) + 1 /\ Moved(n) <= top
  BY <1>4, <1>6, <1>7, <1>8, <1>9, <1>10, <1>11, <1>12, <1>13
<1>15. -(Threshold + 1) * TuUs + 1 = -(top + TuUs) + 1
  BY <1>7, Constants
<1>16. QED
  BY <1>7, <1>14, <1>15 DEF top

MovesCounted ==
  \A n \in up :
    /\ meas_total'[n] # meas_total[n]
    /\ Moved(n) \notin -(Threshold + 1) * TuUs + 1 .. Threshold * TuUs
    => meas_err'[n] = meas_err[n] + 1

LEMMA MovesStep == SyncInv /\ [Next]_vars => MovesCounted
<1> SUFFICES ASSUME SyncInv, Next, NEW n \in up, meas_total'[n] # meas_total[n],
                    Moved(n) \notin -(Threshold + 1) * TuUs + 1 .. Threshold * TuUs
             PROVE  meas_err'[n] = meas_err[n] + 1
  BY DEF MovesCounted, vars, clock
<1>1. meas_total' # meas_total
  OBVIOUS
<1>2. PICK frame \in air : Receive(frame)
  BY <1>1 DEF Next, Tick, Start, SendPsf, SendMif, SwitchChannel, Elect, Lose, clock
<1>3. master[frame.dst] = frame.body.src
  BY <1>1, <1>2 DEF Receive, clock
<1>4. Adjust(frame.dst, frame.body)
  BY <1>2, <1>3 DEF Receive
<1>5. frame.dst \in Node /\ n \in Node
  BY InvMeansAirOK DEF AirOK, FrameOK, SyncInv, TypeOK
<1>6. n = frame.dst
  BY <1>4, <1>5 DEF Adjust, SyncInv, TypeOK
<1>7. Off(n, frame.body)
  BY <1>2, <1>3, <1>6, MoveFacts
<1>8. QED
  BY <1>4, <1>5, <1>6, <1>7 DEF Adjust, SyncInv, TypeOK

(* Every adjustment that moves a clock by more than the threshold and the  *)
(* rounding is counted, also where the counter of windows or the clock     *)
(* wraps between the two positions (rx.c:28-33, sync.c:41-46).             *)
THEOREM MovesAreNoticed == Spec => MovesAreCounted
<1>1. SyncInv /\ [Next]_vars => [MovesCounted]_vars
  BY MovesStep
<1>2. QED
  BY <1>1, SyncInvariant, PTL DEF Spec, MovesAreCounted, MovesCounted
=============================================================================
