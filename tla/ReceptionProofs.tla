-------------------------- MODULE ReceptionProofs ---------------------------
(***************************************************************************)
(* What a node makes of the frames it receives: for any frames, headers    *)
(* and cuts, any memory and any widths of the constants.                   *)
(***************************************************************************)
EXTENDS ReceptionInvariant, SequenceTheorems, FiniteSetTheorems, WellFoundedInduction, TLAPS
-----------------------------------------------------------------------------
LEMMA Widths ==
  /\ ChanSeqLength \in Nat /\ ChanSeqLength >= 1
  /\ NameMax \in Nat /\ PresenceMode \in Nat
  /\ EtherMaxLen \in Nat /\ EtherMaxLen >= 14
  /\ MaxVersion \in Nat /\ MaxVersion >= 1
  /\ Cuts \subseteq Nat /\ HeaderCuts \subseteq Nat
<1>1. /\ ChanSeqLength \in 1 .. 255 /\ NameMax \in Nat /\ PresenceMode \in Nat
      /\ EtherMaxLen \in Nat /\ EtherMaxLen >= 14 /\ MaxVersion \in Nat \ {0}
      /\ Cuts \subseteq Nat /\ HeaderCuts \subseteq Nat
  BY ReceptionAssumption, Zenon
<1>2. QED
  BY <1>1

LEMMA FieldNames ==
  /\ "" \in Names /\ "action" \in Names /\ "address" \in Names
  /\ "af_period" \in Names /\ "ampdu_params" \in Names
  /\ "ap_alignment" \in Names /\ "apple_p2p_addr" \in Names
  /\ "arpa_flags" \in Names /\ "aw_com_length" \in Names
  /\ "aw_ext_length" \in Names /\ "aw_period" \in Names /\ "bitmask" \in Names
  /\ "bssid" \in Names /\ "channel" \in Names /\ "country_code" \in Names
  /\ "data_pad" \in Names /\ "devclass" \in Names
  /\ "distance_to_master" \in Names /\ "distancetop" \in Names
  /\ "domain" \in Names /\ "duration" \in Names /\ "ethertype" \in Names
  /\ "ext_flags" \in Names /\ "fcs" \in Names /\ "flags" \in Names
  /\ "guard_time" \in Names /\ "head" \in Names /\ "ht_capabilities" \in Names
  /\ "id" \in Names /\ "infra_addr" \in Names /\ "master_addr" \in Names
  /\ "master_channel" \in Names /\ "master_counter" \in Names
  /\ "master_metric" \in Names /\ "max_ext_af" \in Names
  /\ "max_ext_multicast" \in Names /\ "max_ext_unicast" \in Names
  /\ "memory" \in Names /\ "min_ext" \in Names /\ "name" \in Names
  /\ "next_aw_channel" \in Names /\ "next_aw_seq" \in Names /\ "oui" \in Names
  /\ "pad" \in Names /\ "payload" \in Names /\ "phy_tx" \in Names
  /\ "port" \in Names /\ "presence_mode" \in Names /\ "priority" \in Names
  /\ "radio" \in Names /\ "remaining_aw_length" \in Names
  /\ "reserved" \in Names /\ "rx_mcs" \in Names /\ "self_counter" \in Names
  /\ "self_metric" \in Names /\ "seq" \in Names /\ "seq_ctrl" \in Names
  /\ "sequence" \in Names /\ "short_name" \in Names
  /\ "social_channels" \in Names /\ "suffix" \in Names /\ "sui" \in Names
  /\ "sync_addr" \in Names /\ "target_tx" \in Names
  /\ "top_master_addr" \in Names /\ "top_master_metric" \in Names
  /\ "tx_down_counter" \in Names /\ "txt" \in Names /\ "unknown" \in Names
  /\ "unknown2" \in Names /\ "version" \in Names /\ "weight" \in Names
BY DEF Names

LEMMA NumByte ==
  ASSUME NEW n \in Nat
  PROVE  Num(n) \in Byte /\ Num(n)[3] = n
BY DEF Num, Byte, Names

LEMMA ByteValue ==
  ASSUME NEW b \in Byte
  PROVE  b[3] \in Nat
BY DEF Byte

LEMMA U8Bytes ==
  ASSUME NEW n \in Nat
  PROVE  U8(n) \in Buffer /\ Len(U8(n)) = 1 /\ U8(n)[1] = Num(n)
BY NumByte DEF U8, Buffer

LEMMA LE16Bytes ==
  ASSUME NEW n \in Nat
  PROVE  /\ LE16(n) \in Buffer /\ Len(LE16(n)) = 2
         /\ LE16(n)[1] = Num(n % 256) /\ LE16(n)[2] = Num(n \div 256)
BY NumByte DEF LE16, Buffer

LEMMA BE16Bytes ==
  ASSUME NEW n \in Nat
  PROVE  /\ BE16(n) \in Buffer /\ Len(BE16(n)) = 2
         /\ BE16(n)[1] = Num(n \div 256) /\ BE16(n)[2] = Num(n % 256)
BY NumByte DEF BE16, Buffer

LEMMA FieldBytes ==
  ASSUME NEW f \in Names, NEW v \in Nat, NEW width \in Nat
  PROVE  /\ Field(f, v, width) \in Buffer /\ Len(Field(f, v, width)) = width
         /\ \A k \in 1 .. width : Field(f, v, width)[k] = << f, v, k >>
<1>1. \A k \in 1 .. width : << f, v, k >> \in Byte
  BY DEF Byte
<1>2. QED
  BY <1>1 DEF Field, Buffer

LEMMA PaddingBytes ==
  ASSUME NEW n \in Nat
  PROVE  Padding(n) \in Buffer /\ Len(Padding(n)) = n
<1>1. Num(0) \in Byte
  BY NumByte
<1>2. QED
  BY <1>1 DEF Padding, Buffer

LEMMA ConcatBytes ==
  ASSUME NEW x \in Buffer, NEW y \in Buffer
  PROVE  /\ x \o y \in Buffer /\ Len(x \o y) = Len(x) + Len(y)
         /\ \A k \in 1 .. Len(x) : (x \o y)[k] = x[k]
         /\ \A k \in 1 .. Len(y) : (x \o y)[Len(x) + k] = y[k]
BY DEF Buffer

LEMMA LE32Bytes ==
  ASSUME NEW n \in Nat
  PROVE  LE32(n) \in Buffer /\ Len(LE32(n)) = 4
<1>1. n % 65536 \in Nat /\ n \div 65536 \in Nat
  OBVIOUS
<1>2. ASSUME NEW low \in Nat, NEW high \in Nat
      PROVE  /\ LE16(low) \o LE16(high) \in Buffer
             /\ Len(LE16(low) \o LE16(high)) = 4
  <2>1. /\ LE16(low) \in Buffer /\ LE16(high) \in Buffer
        /\ Len(LE16(low)) = 2 /\ Len(LE16(high)) = 2
    BY LE16Bytes
  <2>2. /\ LE16(low) \o LE16(high) \in Buffer
        /\ Len(LE16(low) \o LE16(high)) = Len(LE16(low)) + Len(LE16(high))
    BY <2>1, ConcatBytes
  <2>3. QED
    BY <2>1, <2>2
<1>3. QED
  BY <1>1, <1>2 DEF LE32

LEMMA NumberBytes ==
  /\ \A n \in Nat : U8(n) \in Buffer /\ LE16(n) \in Buffer /\ BE16(n) \in Buffer
  /\ \A n \in Nat : LE32(n) \in Buffer
BY U8Bytes, LE16Bytes, BE16Bytes, LE32Bytes, Zenon

LEMMA ManyBytes ==
  /\ \A f \in Names, v, width \in Nat : Field(f, v, width) \in Buffer
  /\ \A x, y \in Buffer : x \o y \in Buffer
BY FieldBytes, ConcatBytes, Zenon

LEMMA Chain3 == \A a, b, c \in Buffer : a \o b \o c \in Buffer
BY ManyBytes, Zenon
LEMMA Chain4 == \A a, b, c, d \in Buffer : a \o b \o c \o d \in Buffer
BY Chain3, ManyBytes, Zenon
LEMMA Chain5 == \A a, b, c, d, e \in Buffer : a \o b \o c \o d \o e \in Buffer
BY Chain4, ManyBytes, Zenon
LEMMA Chain6 == \A a, b, c, d, e, f \in Buffer : a \o b \o c \o d \o e \o f \in Buffer
BY Chain5, ManyBytes, Zenon

LEMMA FieldBlock == \A f \in Names, v, width \in Nat : Field(f, v, width) \in Block(width)
BY FieldBytes DEF Block

LEMMA NumberBlock ==
  \A n \in Nat : U8(n) \in Block(1) /\ LE16(n) \in Block(2) /\ BE16(n) \in Block(2)
                   /\ Padding(n) \in Block(n)
BY U8Bytes, LE16Bytes, BE16Bytes, PaddingBytes DEF Block

LEMMA ConcatBlock ==
  \A m, n \in Nat : \A x \in Block(m), y \in Block(n) : x \o y \in Block(m + n)
BY ConcatBytes DEF Block

(* A read that is within the buffer, and the two ways to shorten one.      *)
LEMMA ReadBytes ==
  ASSUME NEW buf \in Buffer, NEW offset \in Nat, NEW width \in Nat,
         offset + width <= Len(buf)
  PROVE  /\ Read(buf, offset, width) \in Buffer /\ Len(Read(buf, offset, width)) = width
         /\ \A k \in 1 .. width : Read(buf, offset, width)[k] = buf[offset + k]
BY DEF Buffer, Read

LEMMA ReadBlock ==
  \A buf \in Buffer : \A offset, width \in Nat :
    offset + width <= Len(buf) => Read(buf, offset, width) \in Block(width)
BY ReadBytes DEF Block

LEMMA NoBytes == << >> \in Buffer
BY DEF Buffer

LEMMA ByteRead ==
  ASSUME NEW buf \in Buffer, NEW offset \in Nat, offset < Len(buf)
  PROVE  ReadU8(buf, offset) \in Nat
<1>1. buf[offset + 1] \in Byte
  BY DEF Buffer
<1>2. QED
  BY <1>1, ByteValue DEF ReadU8

LEMMA WordRead ==
  ASSUME NEW buf \in Buffer, NEW offset \in Nat, offset + 1 < Len(buf)
  PROVE  ReadLE16(buf, offset) \in Nat /\ ReadBE16(buf, offset) \in Nat
<1>1. ReadU8(buf, offset) \in Nat /\ ReadU8(buf, offset + 1) \in Nat
  BY ByteRead
<1>2. QED
  BY <1>1 DEF ReadLE16, ReadBE16

LEMMA StripBytes ==
  ASSUME NEW buf \in Buffer, NEW n \in 0 .. Len(buf)
  PROVE  /\ Strip(buf, n) \in Buffer /\ Len(Strip(buf, n)) = Len(buf) - n
         /\ \A k \in 1 .. Len(buf) - n : Strip(buf, n)[k] = buf[n + k]
BY DEF Buffer, Strip

LEMMA TakeBytes ==
  ASSUME NEW buf \in Buffer, NEW n \in 0 .. Len(buf)
  PROVE  /\ Take(buf, n) \in Buffer /\ Len(Take(buf, n)) = Len(buf) - n
         /\ \A k \in 1 .. Len(buf) - n : Take(buf, n)[k] = buf[k]
BY DEF Buffer, Take

LEMMA StripFront ==
  ASSUME NEW x \in Buffer, NEW y \in Buffer
  PROVE  Strip(x \o y, Len(x)) = y
<1> DEFINE buf == x \o y
           n == Len(x)
           rest == Strip(buf, n)
<1>1. n \in Nat /\ Len(y) \in Nat
  BY DEF Buffer
<1>2. /\ buf \in Buffer /\ Len(buf) = n + Len(y)
      /\ \A k \in 1 .. Len(y) : buf[n + k] = y[k]
  BY ConcatBytes
<1> HIDE DEF buf, n
<1>3. n \in 0 .. Len(buf)
  BY <1>1, <1>2
<1>4. /\ rest \in Buffer /\ Len(rest) = Len(buf) - n
      /\ \A k \in 1 .. Len(buf) - n : rest[k] = buf[n + k]
  BY <1>2, <1>3, StripBytes
<1> HIDE DEF rest
<1>5. Len(rest) = Len(y) /\ \A k \in 1 .. Len(y) : rest[k] = y[k]
  BY <1>1, <1>2, <1>4
<1>6. rest = y
  BY <1>4, <1>5, SeqEqual DEF Buffer
<1>7. QED
  BY <1>6 DEF rest, buf, n

LEMMA TakeBack ==
  ASSUME NEW x \in Buffer, NEW y \in Buffer
  PROVE  Take(x \o y, Len(y)) = x
<1> DEFINE buf == x \o y
           n == Len(y)
           rest == Take(buf, n)
<1>1. n \in Nat /\ Len(x) \in Nat
  BY DEF Buffer
<1>2. /\ buf \in Buffer /\ Len(buf) = Len(x) + n
      /\ \A k \in 1 .. Len(x) : buf[k] = x[k]
  BY ConcatBytes
<1> HIDE DEF buf, n
<1>3. n \in 0 .. Len(buf)
  BY <1>1, <1>2
<1>4. /\ rest \in Buffer /\ Len(rest) = Len(buf) - n
      /\ \A k \in 1 .. Len(buf) - n : rest[k] = buf[k]
  BY <1>2, <1>3, TakeBytes
<1> HIDE DEF rest
<1>5. Len(rest) = Len(x) /\ \A k \in 1 .. Len(x) : rest[k] = x[k]
  BY <1>1, <1>2, <1>4
<1>6. rest = x
  BY <1>4, <1>5, SeqEqual DEF Buffer
<1>7. QED
  BY <1>6 DEF rest, buf, n
-----------------------------------------------------------------------------
(* Induction and recursion over a measure.  Both are stated for sets and   *)
(* functions, so that they can be used for any loop.                       *)

(* Every set of natural numbers that is not empty has a least element.     *)
LEMMA LeastNumber ==
  ASSUME NEW T \in SUBSET Nat, T # {}
  PROVE  \E n \in T : \A m \in T : n <= m
<1> DEFINE R == StrictSubsetOrdering(Nat)
           D == { 1 .. n : n \in T }
<1>1. IsWellFoundedOn(R, FiniteSubsetsOf(Nat))
  BY FS_StrictSubsetOrderingWellFounded
<1>2. D \subseteq FiniteSubsetsOf(Nat) /\ D # { }
  <2>1. \A n \in T : 1 .. n \in FiniteSubsetsOf(Nat)
    <3>1. ASSUME NEW n \in T PROVE IsFiniteSet(1 .. n) /\ 1 .. n \in SUBSET Nat
      BY FS_Interval
    <3>2. QED
      BY <3>1 DEF FiniteSubsetsOf
  <2>2. QED
    BY <2>1
<1>3. PICK d \in D : \A e \in D : ~(<< e, d >> \in R)
  BY <1>1, <1>2, WFMin
<1>4. PICK n \in T : d = 1 .. n
  OBVIOUS
<1>5. ASSUME NEW m \in T, m < n PROVE FALSE
  <2>1. 1 .. m \subseteq 1 .. n /\ n \in 1 .. n /\ n \notin 1 .. m
    BY <1>5
  <2>2. << 1 .. m, 1 .. n >> \in R
    BY <2>1 DEF StrictSubsetOrdering
  <2>3. QED
    BY <1>3, <1>4, <2>2
<1>6. QED
  BY <1>5

LEMMA MeasureInduction ==
  ASSUME NEW X, NEW measure \in [ X -> Nat ], NEW P,
         \A x \in X : (\A y \in X : measure[y] < measure[x] => y \in P) => x \in P
  PROVE  X \subseteq P
<1> DEFINE T == { measure[x] : x \in X \ P }
<1>1. SUFFICES ASSUME T # { } PROVE FALSE
  OBVIOUS
<1>2. T \subseteq Nat
  OBVIOUS
<1>3. PICK n \in T : \A k \in T : n <= k
  <2> HIDE DEF T
  <2>1. QED
    BY <1>1, <1>2, LeastNumber
<1>4. PICK x \in X \ P : measure[x] = n
  OBVIOUS
<1>5. \A y \in X : measure[y] < measure[x] => y \in P
  BY <1>3, <1>4
<1>6. QED
  BY <1>4, <1>5

(* A function that is defined at x by its value at next[x], of a smaller   *)
(* measure, exists.                                                        *)
Loop(X, N, measure, D, next, S, base, join) ==
  /\ N \in Nat /\ measure \in [ X -> 0 .. N ]
  /\ D \in SUBSET X /\ next \in [ D -> X ]
  /\ \A x \in D : measure[next[x]] < measure[x]
  /\ base \in [ X -> S ] /\ join \in [ D \X S -> S ]

LEMMA LoopHasResult ==
  ASSUME NEW X, NEW N, NEW measure, NEW D, NEW next, NEW S, NEW base, NEW join,
         Loop(X, N, measure, D, next, S, base, join)
  PROVE  \E g \in [ X -> S ] :
           \A x \in X : g[x] = IF x \in D THEN join[<< x, g[next[x]] >>] ELSE base[x]
<1> USE DEF Loop
<1> DEFINE Below(k) == { x \in X : measure[x] < k }
           Solves(g, k) ==
             \A x \in Below(k) :
               g[x] = IF x \in D THEN join[<< x, g[next[x]] >>] ELSE base[x]
           K == { k \in Nat : \E g \in [ Below(k) -> S ] : Solves(g, k) }
<1>1. 0 \in K
  <2>1. Below(0) = { }
    OBVIOUS
  <2>2. [ x \in Below(0) |-> base[x] ] \in [ Below(0) -> S ]
    OBVIOUS
  <2>3. QED
    BY <2>1, <2>2
<1>2. ASSUME NEW k \in K PROVE k + 1 \in K
  <2>1. PICK g \in [ Below(k) -> S ] : Solves(g, k)
    OBVIOUS
  <2> DEFINE value(x) == IF x \in Below(k) THEN g[x]
                         ELSE IF x \in D THEN join[<< x, g[next[x]] >>] ELSE base[x]
             h == [ x \in Below(k + 1) |-> value(x) ]
  <2>2. k \in Nat /\ Below(k) \subseteq Below(k + 1)
    OBVIOUS
  <2>3. \A x \in Below(k + 1) \cap D : next[x] \in Below(k)
    OBVIOUS
  <2>4. \A x \in Below(k + 1) : value(x) \in S
    <3>1. ASSUME NEW x \in Below(k + 1), x \notin Below(k), x \in D
          PROVE  join[<< x, g[next[x]] >>] \in S
      <4>1. g[next[x]] \in S
        BY <2>3, <3>1
      <4>2. QED
        BY <4>1, <3>1
    <3>2. QED
      BY <3>1
  <2>5. h \in [ Below(k + 1) -> S ]
    <3> HIDE DEF value
    <3>1. QED
      BY <2>4
  <2>6. \A x \in Below(k) : h[x] = g[x]
    BY <2>2
  <2>7. ASSUME NEW x \in Below(k + 1)
        PROVE  h[x] = IF x \in D THEN join[<< x, h[next[x]] >>] ELSE base[x]
    <3>1. x \in D => h[next[x]] = g[next[x]]
      BY <2>3, <2>6
    <3>2. CASE x \in Below(k)
      BY <2>1, <2>6, <3>1, <3>2
    <3>3. CASE x \notin Below(k)
      BY <3>1, <3>3
    <3>4. QED
      BY <3>2, <3>3
  <2>8. QED
    <3> HIDE DEF h
    <3>1. Solves(h, k + 1)
      BY <2>7
    <3>2. k + 1 \in Nat
      BY <2>2
    <3> HIDE DEF Solves, Below
    <3>3. QED
      BY <2>5, <3>1, <3>2
<1>3. Nat \subseteq K
  <2> DEFINE Rest == Nat \ K
  <2> HIDE DEF K
  <2>1. SUFFICES ASSUME Rest # { } PROVE FALSE
    OBVIOUS
  <2>6. \A k \in Nat : k \in K => k + 1 \in K
    BY <1>2
  <2>2. PICK n \in Rest : \A k \in Rest : n <= k
    BY <2>1, LeastNumber
  <2>3. n # 0 /\ n \in Nat
    BY <1>1
  <2>4. n - 1 \in K
    BY <2>2, <2>3
  <2>5. n - 1 \in Nat /\ n = (n - 1) + 1
    BY <2>3
  <2>7. n \in K
    BY <2>4, <2>5, <2>6
  <2>8. QED
    BY <2>2, <2>7
<1>4. PICK g \in [ Below(N + 1) -> S ] : Solves(g, N + 1)
  <2>1. N + 1 \in K
    <3> HIDE DEF K
    <3>1. QED
      BY <1>3
  <2>2. QED
    BY <2>1
<1>5. Below(N + 1) = X
  OBVIOUS
<1>6. QED
  BY <1>4, <1>5

(* The same for a loop that counts up, and what such a loop preserves.     *)
Count(N, S, start, join) ==
  N \in Nat /\ start \in S /\ join \in [ (1 .. N) \X S -> S ]

Counts(g, N, S, start, join) ==
  /\ g \in [ 0 .. N -> S ]
  /\ g[0] = start /\ \A n \in 1 .. N : g[n] = join[<< n, g[n - 1] >>]

LEMMA CountHasResult ==
  ASSUME NEW N, NEW S, NEW start, NEW join, Count(N, S, start, join)
  PROVE  \E g : Counts(g, N, S, start, join)
<1> USE DEF Count, Counts
<1> DEFINE X == 0 .. N
           D == 1 .. N
           measure == [ n \in X |-> n ]
           next == [ n \in D |-> n - 1 ]
           base == [ n \in X |-> start ]
<1>1. Loop(X, N, measure, D, next, S, base, join)
  BY DEF Loop
<1>2. PICK g \in [ X -> S ] :
        \A n \in X : g[n] = IF n \in D THEN join[<< n, g[next[n]] >>] ELSE base[n]
  <2> HIDE DEF X, D, measure, next, base
  <2>1. QED
    BY <1>1, LoopHasResult
<1>3. g[0] = start
  <2>1. 0 \in X /\ 0 \notin D /\ base[0] = start
    OBVIOUS
  <2> HIDE DEF X, D, next, base
  <2>2. QED
    BY <1>2, <2>1
<1>4. ASSUME NEW n \in 1 .. N PROVE g[n] = join[<< n, g[n - 1] >>]
  <2>1. n \in X /\ n \in D /\ next[n] = n - 1
    OBVIOUS
  <2> HIDE DEF X, D, next, base
  <2>2. QED
    BY <1>2, <2>1
<1>5. QED
  BY <1>3, <1>4

LEMMA CountPreserves ==
  ASSUME NEW N \in Nat, NEW S, NEW f,
         f[0] \in S, \A n \in 1 .. N : f[n - 1] \in S => f[n] \in S
  PROVE  \A n \in 0 .. N : f[n] \in S
<1> DEFINE X == 0 .. N
           measure == [ n \in X |-> n ]
           P == { n \in X : f[n] \in S }
<1>1. ASSUME NEW n \in X, \A m \in X : measure[m] < measure[n] => m \in P
      PROVE  n \in P
  <2>1. CASE n = 0
    BY <2>1
  <2>2. CASE n # 0
    <3>1. n \in 1 .. N /\ n - 1 \in X /\ measure[n - 1] < measure[n]
      BY <2>2
    <3>2. f[n - 1] \in S
      BY <1>1, <3>1
    <3>3. QED
      BY <3>1, <3>2
  <2>3. QED
    BY <2>1, <2>2
<1>2. measure \in [ X -> Nat ]
  OBVIOUS
<1>3. X \subseteq P
  <2> HIDE DEF X, measure, P
  <2>1. QED
    BY <1>1, <1>2, MeasureInduction
<1>4. QED
  BY <1>3
-----------------------------------------------------------------------------
(* What a buffer holds.                                                    *)

LEMMA AtItself ==
  ASSUME NEW x \in Buffer
  PROVE  At(x, 0, x)
BY DEF At, Buffer

LEMMA AtEnd ==
  ASSUME NEW x \in Buffer, NEW y \in Buffer
  PROVE  At(x \o y, Len(x), y)
BY ConcatBytes DEF At, Buffer

LEMMA AtFront ==
  ASSUME NEW x \in Buffer, NEW y \in Buffer, NEW z \in Buffer, NEW offset \in Nat,
         At(x, offset, z)
  PROVE  At(x \o y, offset, z)
<1>1. Len(x) \in Nat /\ Len(y) \in Nat /\ Len(z) \in Nat
  BY DEF Buffer
<1>2. \A k \in 1 .. Len(z) : offset + k \in 1 .. Len(x)
  BY <1>1 DEF At
<1>3. QED
  BY <1>1, <1>2, ConcatBytes DEF At

(* Parts of a part are parts.                                              *)
LEMMA AtParts ==
  ASSUME NEW buf \in Buffer, NEW offset \in Nat, NEW x \in Buffer, NEW y \in Buffer,
         At(buf, offset, x \o y)
  PROVE  At(buf, offset, x) /\ At(buf, offset + Len(x), y)
<1>1. Len(x) \in Nat /\ Len(y) \in Nat /\ Len(buf) \in Nat
  BY DEF Buffer
<1>2. At(buf, offset, x)
  BY <1>1, ConcatBytes DEF At
<1>3. At(buf, offset + Len(x), y)
  <2>1. offset + Len(x) + Len(y) <= Len(buf)
    BY <1>1, ConcatBytes DEF At
  <2>2. ASSUME NEW k \in 1 .. Len(y) PROVE buf[offset + Len(x) + k] = y[k]
    <3>1. Len(x) + k \in 1 .. Len(x \o y) /\ offset + Len(x) + k = offset + (Len(x) + k)
      BY <1>1, ConcatBytes
    <3>2. (x \o y)[Len(x) + k] = y[k]
      BY ConcatBytes
    <3>3. QED
      BY <3>1, <3>2 DEF At
  <2>3. QED
    BY <2>1, <2>2 DEF At
<1>4. QED
  BY <1>2, <1>3

LEMMA AtRead ==
  ASSUME NEW buf \in Buffer, NEW offset \in Nat, NEW x \in Buffer, NEW width \in Nat,
         At(buf, offset, x), Len(x) = width
  PROVE  Read(buf, offset, width) = x
<1>1. /\ Read(buf, offset, width) \in Buffer /\ Len(Read(buf, offset, width)) = Len(x)
      /\ \A k \in 1 .. Len(x) : Read(buf, offset, width)[k] = x[k]
  BY ReadBytes DEF At
<1>2. QED
  BY <1>1, SeqEqual DEF Buffer

(* FlattenSeq puts the sequences one behind the other.                     *)
LEMMA FlattenBytes ==
  ASSUME NEW n \in Nat \ {0}, NEW seqs \in [ 1 .. n -> Buffer ]
  PROVE  \E g \in [ 1 .. n -> Buffer ] :
           /\ g[1] = seqs[1]
           /\ \A i \in 2 .. n : g[i] = g[i - 1] \o seqs[i]
           /\ FlattenSeq(seqs) = g[n]
<1> DEFINE Step(f) == [ i \in 1 .. n |-> IF i = 1 THEN seqs[i] ELSE f[i - 1] \o seqs[i] ]
           flat == CHOOSE f : f = Step(f)
<1>1. Len(seqs) = n
  OBVIOUS
<1>2. FlattenSeq(seqs) = flat[n]
  BY <1>1 DEF FlattenSeq
<1>3. \E f : f = Step(f)
  <2> DEFINE X == 1 .. n
             D == 2 .. n
             measure == [ i \in X |-> i ]
             next == [ i \in D |-> i - 1 ]
             join == [ p \in D \X Buffer |-> p[2] \o seqs[p[1]] ]
  <2>1. measure \in [ X -> 0 .. n ] /\ D \in SUBSET X /\ next \in [ D -> X ]
    OBVIOUS
  <2>2. \A x \in D : measure[next[x]] < measure[x]
    OBVIOUS
  <2>3. join \in [ D \X Buffer -> Buffer ]
    <3>1. \A p \in D \X Buffer : p[2] \o seqs[p[1]] \in Buffer
      BY ConcatBytes
    <3>2. QED
      BY <3>1
  <2>4. PICK g \in [ X -> Buffer ] :
          \A x \in X : g[x] = IF x \in D THEN join[<< x, g[next[x]] >>] ELSE seqs[x]
    <3>1. Loop(X, n, measure, D, next, Buffer, seqs, join)
      BY <2>1, <2>2, <2>3 DEF Loop
    <3> HIDE DEF X, D, measure, next, join
    <3>2. QED
      BY <3>1, LoopHasResult
  <2>5. ASSUME NEW i \in D PROVE g[i] = g[i - 1] \o seqs[i]
    <3>1. i \in X /\ next[i] = i - 1 /\ g[i - 1] \in Buffer
      OBVIOUS
    <3>2. g[i] = join[<< i, g[i - 1] >>]
      BY <2>4, <3>1
    <3>3. QED
      BY <3>1, <3>2
  <2>6. g[1] = seqs[1]
    <3>1. 1 \in X /\ 1 \notin D
      OBVIOUS
    <3> HIDE DEF X, D, next, join
    <3>2. QED
      BY <2>4, <3>1
  <2>7. g = Step(g)
    <3>1. \A i \in 1 .. n : g[i] = IF i = 1 THEN seqs[i] ELSE g[i - 1] \o seqs[i]
      <4>1. \A i \in 1 .. n : i # 1 => i \in 2 .. n
        OBVIOUS
      <4>2. QED
        BY <2>5, <2>6, <4>1
    <3>2. g = [ i \in 1 .. n |-> g[i] ]
      OBVIOUS
    <3>3. QED
      BY <3>1, <3>2
  <2>8. QED
    BY <2>7
<1>4. flat = Step(flat)
  <2> HIDE DEF Step
  <2>1. QED
    BY <1>3
<1>5. flat[1] = seqs[1] /\ \A i \in 2 .. n : flat[i] = flat[i - 1] \o seqs[i]
  <2> HIDE DEF flat
  <2>1. \A i \in 1 .. n : flat[i] = IF i = 1 THEN seqs[i] ELSE flat[i - 1] \o seqs[i]
    <3>1. flat = Step(flat)
      BY <1>4
    <3>2. QED
      BY <3>1
  <2>2. 1 \in 1 .. n /\ \A i \in 2 .. n : i \in 1 .. n /\ i # 1
    OBVIOUS
  <2>3. QED
    BY <2>1, <2>2
<1>6. \A i \in 1 .. n : flat[i] \in Buffer
  <2> HIDE DEF flat
  <2> DEFINE X == 1 .. n
             measure == [ i \in X |-> i ]
             P == { i \in X : flat[i] \in Buffer }
  <2>1. ASSUME NEW i \in X, \A j \in X : measure[j] < measure[i] => j \in P
        PROVE  i \in P
    <3>1. CASE i = 1
      BY <3>1, <1>5
    <3>2. CASE i # 1
      <4>1. i - 1 \in P /\ i \in 2 .. n
        BY <2>1, <3>2
      <4>2. QED
        BY <4>1, <1>5, ConcatBytes
    <3>3. QED
      BY <3>1, <3>2
  <2>2. measure \in [ X -> Nat ]
    OBVIOUS
  <2>3. X \subseteq P
    <3> HIDE DEF X, measure, P
    <3>1. QED
      BY <2>1, <2>2, MeasureInduction
  <2>4. QED
    BY <2>3
<1>7. flat \in [ 1 .. n -> Buffer ]
  <2> HIDE DEF flat
  <2>1. flat = [ i \in 1 .. n |-> flat[i] ]
    BY <1>4
  <2>2. QED
    BY <2>1, <1>6
<1>8. QED
  <2> HIDE DEF flat
  <2>1. QED
    BY <1>2, <1>5, <1>7

(* A struct holds its fields at the offsets that the widths give.          *)
LEMMA StructLayout ==
  ASSUME NEW v \in Nat, NEW n \in Nat \ {0},
         NEW fields \in [ 1 .. n -> Names \X Nat ],
         NEW offset \in [ 1 .. n + 1 -> Nat ],
         offset[1] = 0,
         \A i \in 1 .. n : offset[i + 1] = offset[i] + fields[i][2]
  PROVE  /\ Struct(v, fields) \in Buffer
         /\ Len(Struct(v, fields)) = offset[n + 1]
         /\ \A i \in 1 .. n :
              At(Struct(v, fields), offset[i], Field(fields[i][1], v, fields[i][2]))
<1> DEFINE part(i) == Field(fields[i][1], v, fields[i][2])
           parts == [ i \in 1 .. n |-> part(i) ]
<1>1. \A i \in 1 .. n : part(i) \in Buffer /\ Len(part(i)) = fields[i][2]
  BY FieldBytes
<1>2. parts \in [ 1 .. n -> Buffer ]
  BY <1>1
<1>3. Struct(v, fields) = FlattenSeq(parts)
  BY DEF Struct
<1>4. PICK g \in [ 1 .. n -> Buffer ] :
        /\ g[1] = part(1)
        /\ \A i \in 2 .. n : g[i] = g[i - 1] \o part(i)
        /\ Struct(v, fields) = g[n]
  <2>1. PICK g \in [ 1 .. n -> Buffer ] :
          /\ g[1] = parts[1]
          /\ \A i \in 2 .. n : g[i] = g[i - 1] \o parts[i]
          /\ FlattenSeq(parts) = g[n]
    <3> HIDE DEF parts
    <3>1. QED
      BY <1>2, FlattenBytes
  <2>2. parts[1] = part(1) /\ \A i \in 2 .. n : parts[i] = part(i)
    OBVIOUS
  <2> HIDE DEF parts, part
  <2>3. QED
    BY <1>3, <2>1, <2>2
<1> HIDE DEF part
<1> DEFINE measure == [ i \in 1 .. n |-> i ]
           good(i) == /\ Len(g[i]) = offset[i + 1]
                      /\ \A j \in 1 .. i : At(g[i], offset[j], part(j))
           P == { i \in 1 .. n : good(i) }
<1>5. 1 \in P
  <2>1. At(g[1], offset[1], part(1)) /\ Len(g[1]) = offset[2]
    BY <1>1, <1>4, AtItself
  <2>2. QED
    BY <2>1
<1>6. ASSUME NEW i \in 2 .. n, i - 1 \in P PROVE i \in P
  <2>1. i \in 1 .. n /\ i - 1 \in 1 .. n /\ (i - 1) + 1 = i
    OBVIOUS
  <2>2. g[i] = g[i - 1] \o part(i) /\ g[i - 1] \in Buffer /\ part(i) \in Buffer
    BY <1>1, <1>4, <2>1
  <2>3. good(i - 1)
    BY <1>6
  <2>4. Len(g[i]) = offset[i + 1] /\ Len(g[i - 1]) = offset[i]
    <3>1. Len(g[i]) = Len(g[i - 1]) + Len(part(i))
      BY <2>2, ConcatBytes
    <3>2. Len(g[i - 1]) = offset[i]
      BY <2>1, <2>3
    <3>3. Len(part(i)) = fields[i][2] /\ offset[i + 1] = offset[i] + fields[i][2]
      BY <1>1, <2>1
    <3>4. QED
      BY <3>1, <3>2, <3>3
  <2>5. At(g[i], offset[i], part(i))
    BY <2>2, <2>4, AtEnd
  <2>6. ASSUME NEW j \in 1 .. i - 1 PROVE At(g[i], offset[j], part(j))
    <3>1. j \in 1 .. n /\ j \in 1 .. n + 1
      BY <2>1
    <3>2. At(g[i - 1], offset[j], part(j)) /\ offset[j] \in Nat /\ part(j) \in Buffer
      BY <1>1, <2>3, <3>1
    <3>3. At(g[i - 1] \o part(i), offset[j], part(j))
      BY <2>2, <3>2, AtFront, Zenon
    <3>4. QED
      BY <2>2, <3>3
  <2>7. good(i)
    BY <2>4, <2>5, <2>6
  <2>8. QED
    BY <2>1, <2>7
<1>7. 1 .. n \subseteq P
  <2>1. ASSUME NEW i \in 1 .. n, \A j \in 1 .. n : measure[j] < measure[i] => j \in P
        PROVE  i \in P
    <3>1. i # 1 => i \in 2 .. n /\ measure[i - 1] < measure[i] /\ i - 1 \in 1 .. n
      OBVIOUS
    <3> HIDE DEF P
    <3>2. QED
      BY <1>5, <1>6, <2>1, <3>1
  <2> DEFINE X == 1 .. n
  <2>2. measure \in [ X -> Nat ]
    OBVIOUS
  <2>3. \A i \in X : (\A j \in X : measure[j] < measure[i] => j \in P) => i \in P
    BY <2>1
  <2>4. X \subseteq P
    <3> HIDE DEF X, measure, P
    <3>1. QED
      BY <2>2, <2>3, MeasureInduction
  <2>5. QED
    BY <2>4
<1>8. good(n)
  BY <1>7
<1>9. QED
  BY <1>4, <1>8 DEF part
-----------------------------------------------------------------------------
(* The loop over the TLVs of a buffer.                                     *)

LEMMA TlvWithin ==
  ASSUME NEW buf \in Buffer, NEW at \in 0 .. Len(buf), HasTlv(buf, at)
  PROVE  /\ TlvAt(buf, at) \in Tlvs
         /\ ReadLE16(buf, at + 1) \in Nat
         /\ TlvEnd(buf, at) \in 0 .. Len(buf) /\ at < TlvEnd(buf, at)
<1>1. Len(buf) \in Nat
  BY DEF Buffer
<1>2. at + 3 <= Len(buf) /\ at + 3 + ReadLE16(buf, at + 1) <= Len(buf)
  BY DEF HasTlv, Fits
<1>3. ReadU8(buf, at) \in Nat
  BY <1>1, <1>2, ByteRead
<1>4. ReadLE16(buf, at + 1) \in Nat
  BY <1>1, <1>2, WordRead
<1>5. Read(buf, at + 3, ReadLE16(buf, at + 1)) \in Buffer
  BY <1>1, <1>2, <1>4, ReadBytes
<1>6. QED
  BY <1>1, <1>2, <1>3, <1>4, <1>5 DEF TlvAt, TlvEnd, Tlvs

(* Reading from an offset on is reading the TLV there, if there is one,    *)
(* and then from its end on.                                               *)
LEMMA ReadTlvsStep ==
  ASSUME NEW buf \in Buffer
  PROVE  \A at \in 0 .. Len(buf) :
           /\ HasTlv(buf, at) =>
                ReadTlvs(buf, at) =
                  [ ReadTlvs(buf, TlvEnd(buf, at)) EXCEPT !.tlvs = << TlvAt(buf, at) >> \o @ ]
           /\ ~HasTlv(buf, at) =>
                ReadTlvs(buf, at) = [ tlvs |-> << >>, left |-> Len(buf) - at ]
<1> DEFINE X == 0 .. Len(buf)
           Step(f) ==
             [ at \in X |->
                 IF HasTlv(buf, at)
                   THEN [ f[TlvEnd(buf, at)] EXCEPT !.tlvs = << TlvAt(buf, at) >> \o @ ]
                   ELSE [ tlvs |-> << >>, left |-> Len(buf) - at ] ]
           from == CHOOSE f : f = Step(f)
<1>1. \A at : ReadTlvs(buf, at) = from[at]
  BY DEF ReadTlvs, TlvAt, TlvEnd
<1>2. Len(buf) \in Nat
  BY DEF Buffer
<1>3. \E f : f = Step(f)
  <2> DEFINE S == [ tlvs : Seq(Tlvs), left : Nat ]
             D == { at \in X : HasTlv(buf, at) }
             measure == [ at \in X |-> Len(buf) - at ]
             next == [ at \in D |-> TlvEnd(buf, at) ]
             base == [ at \in X |-> [ tlvs |-> << >>, left |-> Len(buf) - at ] ]
             join == [ p \in D \X S |-> [ p[2] EXCEPT !.tlvs = << TlvAt(buf, p[1]) >> \o @ ] ]
  <2>1. measure \in [ X -> 0 .. Len(buf) ] /\ D \in SUBSET X /\ base \in [ X -> S ]
    BY <1>2
  <2>2. next \in [ D -> X ] /\ \A at \in D : measure[next[at]] < measure[at]
    <3>1. \A at \in D : TlvEnd(buf, at) \in X /\ at < TlvEnd(buf, at)
      BY TlvWithin
    <3>2. QED
      BY <1>2, <3>1
  <2>3. join \in [ D \X S -> S ]
    <3>1. ASSUME NEW at \in D, NEW s \in S
          PROVE  [ s EXCEPT !.tlvs = << TlvAt(buf, at) >> \o @ ] \in S
      <4>1. TlvAt(buf, at) \in Tlvs
        BY TlvWithin
      <4>2. << TlvAt(buf, at) >> \o s.tlvs \in Seq(Tlvs)
        BY <4>1
      <4>3. QED
        BY <4>2
    <3>2. QED
      BY <3>1
  <2>4. PICK g \in [ X -> S ] :
          \A at \in X : g[at] = IF at \in D THEN join[<< at, g[next[at]] >>] ELSE base[at]
    <3>1. Loop(X, Len(buf), measure, D, next, S, base, join)
      BY <1>2, <2>1, <2>2, <2>3 DEF Loop
    <3> HIDE DEF X, D, measure, next, join, base, S
    <3>2. QED
      BY <3>1, LoopHasResult
  <2>5. ASSUME NEW at \in D
        PROVE  g[at] = [ g[TlvEnd(buf, at)] EXCEPT !.tlvs = << TlvAt(buf, at) >> \o @ ]
    <3>1. at \in X /\ next[at] = TlvEnd(buf, at) /\ g[TlvEnd(buf, at)] \in S
      BY <2>2
    <3>2. g[at] = join[<< at, g[TlvEnd(buf, at)] >>]
      BY <2>4, <3>1
    <3>3. QED
      BY <3>1, <3>2
  <2>6. ASSUME NEW at \in X \ D PROVE g[at] = [ tlvs |-> << >>, left |-> Len(buf) - at ]
    <3> HIDE DEF D, join, next
    <3>1. QED
      BY <2>4, <2>6
  <2>7. g = Step(g)
    <3>1. \A at \in X : g[at] = IF HasTlv(buf, at)
            THEN [ g[TlvEnd(buf, at)] EXCEPT !.tlvs = << TlvAt(buf, at) >> \o @ ]
            ELSE [ tlvs |-> << >>, left |-> Len(buf) - at ]
      BY <2>5, <2>6
    <3>2. g = [ at \in X |-> g[at] ]
      OBVIOUS
    <3>3. QED
      BY <3>1, <3>2
  <2>8. QED
    BY <2>7
<1>4. from = Step(from)
  <2> HIDE DEF Step
  <2>1. QED
    BY <1>3
<1>5. QED
  <2> HIDE DEF from
  <2>1. \A at \in X : from[at] = IF HasTlv(buf, at)
          THEN [ from[TlvEnd(buf, at)] EXCEPT !.tlvs = << TlvAt(buf, at) >> \o @ ]
          ELSE [ tlvs |-> << >>, left |-> Len(buf) - at ]
    BY <1>4
  <2>2. QED
    BY <1>1, <2>1

LEMMA ReadTlvsRecord ==
  ASSUME NEW buf \in Buffer
  PROVE  \A at \in 0 .. Len(buf) :
           ReadTlvs(buf, at) \in [ tlvs : Seq(Tlvs), left : Nat ]
<1> DEFINE X == 0 .. Len(buf)
           S == [ tlvs : Seq(Tlvs), left : Nat ]
           measure == [ at \in X |-> Len(buf) - at ]
           P == { at \in X : ReadTlvs(buf, at) \in S }
<1>1. Len(buf) \in Nat
  BY DEF Buffer
<1>2. ASSUME NEW at \in X, \A end \in X : measure[end] < measure[at] => end \in P
      PROVE  at \in P
  <2>1. CASE HasTlv(buf, at)
    <3>1. /\ TlvAt(buf, at) \in Tlvs
          /\ TlvEnd(buf, at) \in X /\ at < TlvEnd(buf, at)
      BY <2>1, TlvWithin
    <3> DEFINE behind == ReadTlvs(buf, TlvEnd(buf, at))
    <3>2. measure[TlvEnd(buf, at)] < measure[at]
      BY <1>1, <3>1
    <3>3. behind \in S
      BY <1>2, <3>1, <3>2
    <3>4. ReadTlvs(buf, at) = [ behind EXCEPT !.tlvs = << TlvAt(buf, at) >> \o @ ]
      BY <2>1, ReadTlvsStep
    <3> HIDE DEF behind
    <3>5. << TlvAt(buf, at) >> \o behind.tlvs \in Seq(Tlvs)
      BY <3>1, <3>3
    <3>6. QED
      BY <3>3, <3>4, <3>5
  <2>2. CASE ~HasTlv(buf, at)
    <3>1. ReadTlvs(buf, at) = [ tlvs |-> << >>, left |-> Len(buf) - at ]
      BY <2>2, ReadTlvsStep
    <3>2. << >> \in Seq(Tlvs) /\ Len(buf) - at \in Nat
      BY <1>1
    <3>3. ReadTlvs(buf, at) \in S
      BY <3>1, <3>2
    <3>4. QED
      BY <3>3
  <2>3. QED
    BY <2>1, <2>2
<1>3. measure \in [ X -> Nat ]
  BY <1>1
<1>4. X \subseteq P
  <2> HIDE DEF X, measure, P
  <2>1. QED
    BY <1>2, <1>3, MeasureInduction
<1>5. QED
  BY <1>4
-----------------------------------------------------------------------------
(* TLVs of one sender.  Reading is stated for what a buffer holds behind   *)
(* an offset, the beginning of some bytes y, so that it covers frames that *)
(* are cut short.                                                          *)

LEMMA TlvBytes ==
  ASSUME NEW type \in Nat, NEW val \in Buffer
  PROVE  /\ Tlv(type, val) \in Buffer /\ Len(Tlv(type, val)) = 3 + Len(val)
         /\ Tlv(type, val)[1][3] = type
         /\ Tlv(type, val)[2][3] + 256 * Tlv(type, val)[3][3] = Len(val)
         /\ \A k \in 1 .. Len(val) : Tlv(type, val)[3 + k] = val[k]
<1> DEFINE head == U8(type) \o LE16(Len(val))
<1>1. Len(val) \in Nat
  BY DEF Buffer
<1>2. /\ U8(type) \in Buffer /\ Len(U8(type)) = 1 /\ U8(type)[1] = Num(type)
      /\ LE16(Len(val)) \in Buffer /\ Len(LE16(Len(val))) = 2
      /\ LE16(Len(val))[1] = Num(Len(val) % 256) /\ LE16(Len(val))[2] = Num(Len(val) \div 256)
  BY <1>1, U8Bytes, LE16Bytes
<1>3. head \in Buffer /\ Len(head) = Len(U8(type)) + Len(LE16(Len(val)))
  BY <1>2, ConcatBytes
<1>4. Len(head) = 3
  BY <1>2, <1>3
<1>5. head[1] = Num(type) /\ head[2] = Num(Len(val) % 256) /\ head[3] = Num(Len(val) \div 256)
  <2>1. ASSUME NEW x \in Buffer, NEW z \in Buffer, Len(x) = 1, Len(z) = 2
        PROVE  (x \o z)[1] = x[1] /\ (x \o z)[2] = z[1] /\ (x \o z)[3] = z[2]
    <3> DEFINE w == x \o z
    <3>1. /\ \A k \in 1 .. Len(x) : w[k] = x[k]
          /\ \A k \in 1 .. Len(z) : w[Len(x) + k] = z[k]
      BY ConcatBytes
    <3> HIDE DEF w
    <3>2. w[1] = x[1] /\ w[2] = z[1] /\ w[3] = z[2]
      BY <2>1, <3>1
    <3>3. QED
      BY <3>2 DEF w
  <2>2. head[1] = U8(type)[1] /\ head[2] = LE16(Len(val))[1] /\ head[3] = LE16(Len(val))[2]
    BY <1>2, <2>1, Zenon
  <2>3. QED
    BY <1>2, <2>2, Zenon
<1> HIDE DEF head
<1>6. /\ head \o val \in Buffer /\ Len(head \o val) = Len(head) + Len(val)
      /\ \A k \in 1 .. Len(head) : (head \o val)[k] = head[k]
      /\ \A k \in 1 .. Len(val) : (head \o val)[Len(head) + k] = val[k]
  BY <1>3, ConcatBytes
<1>7. Tlv(type, val) = head \o val
  BY DEF Tlv, head
<1>8. /\ Tlv(type, val)[1] = Num(type) /\ Tlv(type, val)[2] = Num(Len(val) % 256)
      /\ Tlv(type, val)[3] = Num(Len(val) \div 256)
  BY <1>4, <1>5, <1>6, <1>7
<1>9. (Len(val) % 256) + 256 * (Len(val) \div 256) = Len(val)
  BY <1>1
<1>10. QED
  <2>1. /\ Num(type)[3] = type /\ Num(Len(val) % 256)[3] = Len(val) % 256
        /\ Num(Len(val) \div 256)[3] = Len(val) \div 256
    BY DEF Num
  <2>2. Tlv(type, val)[2][3] + 256 * Tlv(type, val)[3][3] = Len(val)
    BY <1>8, <1>9, <2>1
  <2>3. QED
    BY <1>4, <1>6, <1>7, <1>8, <2>1, <2>2

(* The TLV that stands at the offset is the one that is read there.        *)
LEMMA TlvRead ==
  ASSUME NEW buf \in Buffer, NEW at \in 0 .. Len(buf), NEW type \in Nat, NEW val \in Buffer,
         NEW y \in Buffer, Begins(buf, at, Tlv(type, val) \o y)
  PROVE  /\ HasTlv(buf, at) <=> 3 + Len(val) <= Len(buf) - at
         /\ HasTlv(buf, at) =>
              /\ TlvAt(buf, at) = << type, val >> /\ TlvEnd(buf, at) = at + 3 + Len(val)
              /\ Begins(buf, TlvEnd(buf, at), y)
<1> DEFINE tlv == Tlv(type, val)
           room == Len(buf) - at
<1>1. /\ tlv \in Buffer /\ Len(tlv) = 3 + Len(val) /\ tlv[1][3] = type
      /\ tlv[2][3] + 256 * tlv[3][3] = Len(val)
      /\ \A k \in 1 .. Len(val) : tlv[3 + k] = val[k]
  BY TlvBytes
<1> HIDE DEF tlv
<1>2. /\ Len(tlv \o y) = Len(tlv) + Len(y)
      /\ \A k \in 1 .. Len(tlv) : (tlv \o y)[k] = tlv[k]
      /\ \A k \in 1 .. Len(y) : (tlv \o y)[Len(tlv) + k] = y[k]
  BY <1>1, ConcatBytes
<1>3. Len(buf) \in Nat /\ Len(val) \in Nat /\ Len(y) \in Nat /\ room \in Nat
  BY DEF Buffer
<1>4. /\ Len(buf) - at <= Len(tlv \o y)
      /\ \A k \in 1 .. Len(buf) - at : buf[at + k] = (tlv \o y)[k]
  BY DEF Begins, tlv
<1>5. ASSUME NEW k \in Nat, 1 <= k, k <= room, k <= 3 + Len(val)
      PROVE  buf[at + k] = tlv[k]
  <2>1. k \in 1 .. Len(tlv) /\ k \in 1 .. Len(buf) - at
    BY <1>1, <1>3, <1>5
  <2>2. QED
    BY <1>2, <1>4, <2>1
<1>6. 3 <= room => ReadU8(buf, at) = type /\ ReadLE16(buf, at + 1) = Len(val)
  <2>1. SUFFICES ASSUME 3 <= room PROVE ReadU8(buf, at) = type /\ ReadLE16(buf, at + 1) = Len(val)
    OBVIOUS
  <2>2. buf[at + 1] = tlv[1] /\ buf[at + 2] = tlv[2] /\ buf[at + 3] = tlv[3]
    BY <1>3, <1>5, <2>1
  <2>3. (at + 1) + 1 = at + 2 /\ (at + 1) + 1 + 1 = at + 3
    BY <1>3
  <2>4. ReadU8(buf, at) = tlv[1][3] /\ ReadU8(buf, at + 1) = tlv[2][3]
        /\ ReadU8(buf, at + 1 + 1) = tlv[3][3]
    BY <2>2, <2>3 DEF ReadU8
  <2>5. QED
    BY <1>1, <2>4 DEF ReadLE16
<1>7. HasTlv(buf, at) <=> 3 + Len(val) <= room
  <2>1. Fits(buf, at, 3) <=> 3 <= room
    BY <1>3 DEF Fits
  <2>2. 3 <= room => (Fits(buf, at + 3, ReadLE16(buf, at + 1)) <=> 3 + Len(val) <= room)
    BY <1>3, <1>6 DEF Fits
  <2>3. QED
    BY <1>3, <2>1, <2>2 DEF HasTlv
<1>8. ASSUME HasTlv(buf, at)
      PROVE  /\ TlvAt(buf, at) = << type, val >> /\ TlvEnd(buf, at) = at + 3 + Len(val)
             /\ Begins(buf, TlvEnd(buf, at), y)
  <2>1. 3 + Len(val) <= room /\ 3 <= room
    BY <1>3, <1>7, <1>8
  <2>2. At(buf, at + 3, val)
    <3>1. ASSUME NEW k \in 1 .. Len(val) PROVE buf[at + 3 + k] = val[k]
      <4>1. buf[at + (3 + k)] = tlv[3 + k] /\ at + (3 + k) = at + 3 + k
        BY <1>3, <1>5, <2>1
      <4>2. QED
        BY <1>1, <4>1
    <3>2. QED
      BY <1>3, <2>1, <3>1 DEF At
  <2>3. Read(buf, at + 3, Len(val)) = val
    BY <1>3, <2>2, AtRead
  <2>4. TlvAt(buf, at) = << type, val >> /\ TlvEnd(buf, at) = at + 3 + Len(val)
    BY <1>6, <2>1, <2>3 DEF TlvAt, TlvEnd
  <2>5. Begins(buf, at + 3 + Len(val), y)
    <3>1. Len(buf) - (at + 3 + Len(val)) <= Len(y)
      BY <1>1, <1>2, <1>3, <1>4
    <3>2. ASSUME NEW k \in 1 .. Len(buf) - (at + 3 + Len(val))
          PROVE  buf[at + 3 + Len(val) + k] = y[k]
      <4>1. /\ Len(tlv) + k \in 1 .. Len(buf) - at /\ k \in 1 .. Len(y)
            /\ at + 3 + Len(val) + k = at + (Len(tlv) + k)
        BY <1>1, <1>3, <3>1
      <4>2. buf[at + (Len(tlv) + k)] = (tlv \o y)[Len(tlv) + k]
        BY <1>4, <4>1
      <4>3. QED
        BY <1>2, <4>1, <4>2
    <3>3. QED
      BY <3>1, <3>2 DEF Begins
  <2>6. QED
    BY <2>4, <2>5
<1>9. QED
  BY <1>7, <1>8

LEMMA TlvChains ==
  ASSUME NEW v \in Nat, NEW type \in Nat, NEW val \in Buffer,
         << type, val >> \in Honest(v)
  PROVE  Tlv(type, val) \in Chains(v)
<1>1. Tlv(type, val) \in Buffer
  BY TlvBytes
<1>2. ASSUME NEW y \in Readable(v) PROVE Tlv(type, val) \o y \in Readable(v)
  <2>1. y \in Buffer /\ Tlv(type, val) \o y \in Buffer
    BY <1>1, ConcatBytes DEF Readable
  <2>2. ASSUME NEW buf \in Buffer, NEW at \in 0 .. Len(buf),
               Begins(buf, at, Tlv(type, val) \o y)
        PROVE  /\ ReadTlvs(buf, at).tlvs \in Seq(Honest(v))
               /\ ReadTlvs(buf, at).left \in Nat
    <3>1. CASE HasTlv(buf, at)
      <4>1. /\ TlvEnd(buf, at) \in 0 .. Len(buf) /\ TlvAt(buf, at) = << type, val >>
            /\ Begins(buf, TlvEnd(buf, at), y)
        BY <2>1, <2>2, <3>1, TlvRead, TlvWithin
      <4> DEFINE behind == ReadTlvs(buf, TlvEnd(buf, at))
      <4>2. behind.tlvs \in Seq(Honest(v)) /\ behind.left \in Nat
        BY <4>1 DEF Readable
      <4>3. ReadTlvs(buf, at) = [ behind EXCEPT !.tlvs = << << type, val >> >> \o @ ]
        BY <3>1, <4>1, ReadTlvsStep
      <4>4. "tlvs" \in DOMAIN behind /\ "left" \in DOMAIN behind
        <5> DEFINE X == 0 .. Len(buf)
        <5>1. TlvEnd(buf, at) \in X
          BY <4>1
        <5>2. QED
          BY <5>1, ReadTlvsRecord
      <4> HIDE DEF behind
      <4>5. /\ ReadTlvs(buf, at).tlvs = << << type, val >> >> \o behind.tlvs
            /\ ReadTlvs(buf, at).left = behind.left
        BY <4>3, <4>4
      <4>6. << << type, val >> >> \o behind.tlvs \in Seq(Honest(v))
        BY <4>2
      <4>7. QED
        BY <4>2, <4>5, <4>6
    <3>2. CASE ~HasTlv(buf, at)
      <4>1. ReadTlvs(buf, at) = [ tlvs |-> << >>, left |-> Len(buf) - at ]
        BY <3>2, ReadTlvsStep
      <4>2. Len(buf) - at \in Nat
        BY DEF Buffer
      <4>3. QED
        BY <4>1, <4>2
    <3>3. QED
      BY <3>1, <3>2
  <2>3. QED
    BY <2>1, <2>2 DEF Readable
<1>3. QED
  BY <1>1, <1>2 DEF Chains

LEMMA ConcatChains ==
  ASSUME NEW v \in Nat, NEW x \in Chains(v), NEW y \in Chains(v)
  PROVE  x \o y \in Chains(v)
<1>1. x \in Buffer /\ y \in Buffer /\ x \o y \in Buffer
  BY ConcatBytes DEF Chains
<1>2. ASSUME NEW z \in Readable(v) PROVE (x \o y) \o z \in Readable(v)
  <2>1. z \in Buffer
    BY DEF Readable
  <2>2. (x \o y) \o z = x \o (y \o z)
    BY <1>1, <2>1 DEF Buffer
  <2>3. y \o z \in Readable(v)
    BY DEF Chains
  <2>4. x \o (y \o z) \in Readable(v)
    BY <2>3 DEF Chains
  <2>5. QED
    BY <2>2, <2>4
<1>3. QED
  BY <1>1, <1>2 DEF Chains

LEMMA NothingChains ==
  ASSUME NEW v \in Nat
  PROVE  << >> \in Chains(v)
<1>1. ASSUME NEW y \in Readable(v) PROVE << >> \o y \in Readable(v)
  <2>1. y \in Buffer
    BY DEF Readable
  <2>2. << >> \o y = y
    BY <2>1 DEF Buffer
  <2>3. QED
    BY <2>2
<1>2. QED
  BY <1>1 DEF Chains, Buffer

(* Behind the last TLV stand the four bytes of the checksum, or fewer: too *)
(* few for what would be their length.                                     *)
LEMMA FcsReadable ==
  ASSUME NEW v \in Nat
  PROVE  Fcs \in Readable(v)
<1>1. /\ Fcs \in Buffer /\ Len(Fcs) = 4
      /\ \A k \in 1 .. 4 : Fcs[k] = << "fcs", 0, k >>
  <2>1. "fcs" \in Names
    BY DEF Names
  <2>2. QED
    BY <2>1, FieldBytes DEF Fcs
<1>2. ASSUME NEW buf \in Buffer, NEW at \in 0 .. Len(buf), Begins(buf, at, Fcs)
      PROVE  /\ ReadTlvs(buf, at).tlvs \in Seq(Honest(v))
             /\ ReadTlvs(buf, at).left \in Nat
  <2>1. Len(buf) \in Nat /\ Len(buf) - at <= 4
    BY <1>1, <1>2 DEF Begins, Buffer
  <2>2. ~HasTlv(buf, at)
    <3>1. SUFFICES ASSUME at + 3 <= Len(buf), HasTlv(buf, at) PROVE FALSE
      BY DEF HasTlv, Fits
    <3>2. buf[at + 2] = Fcs[2] /\ buf[at + 3] = Fcs[3]
      BY <1>2, <2>1, <3>1 DEF Begins
    <3>3. (at + 1) + 1 = at + 2 /\ (at + 1) + 1 + 1 = at + 3
      BY <2>1
    <3>4. ReadU8(buf, at + 1) = 2 /\ ReadU8(buf, at + 1 + 1) = 3
      BY <1>1, <3>2, <3>3 DEF ReadU8
    <3>5. ReadLE16(buf, at + 1) = 770
      BY <3>4 DEF ReadLE16
    <3>6. QED
      BY <2>1, <3>1, <3>5 DEF HasTlv, Fits
  <2>3. ReadTlvs(buf, at) = [ tlvs |-> << >>, left |-> Len(buf) - at ]
    BY <2>2, ReadTlvsStep
  <2>4. QED
    BY <2>1, <2>3
<1>3. QED
  BY <1>1, <1>2 DEF Readable

LEMMA StructBytes ==
  ASSUME NEW v \in Nat, NEW n \in Nat \ {0}, NEW fields \in [ 1 .. n -> Names \X Nat ]
  PROVE  Struct(v, fields) \in Buffer
<1> DEFINE parts == [ i \in 1 .. n |-> Field(fields[i][1], v, fields[i][2]) ]
<1>1. parts \in [ 1 .. n -> Buffer ]
  BY FieldBytes
<1>2. Struct(v, fields) = FlattenSeq(parts)
  BY DEF Struct
<1> HIDE DEF parts
<1>3. PICK g \in [ 1 .. n -> Buffer ] : FlattenSeq(parts) = g[n]
  BY <1>1, FlattenBytes
<1>4. QED
  BY <1>2, <1>3
-----------------------------------------------------------------------------
(* What tx.c writes.                                                       *)

LEMMA ElectionV1Layout ==
  ASSUME NEW v \in Nat
  PROVE  /\ ElectionV1(v) \in Buffer /\ Len(ElectionV1(v)) = 21
         /\ At(ElectionV1(v), 3, Field("distancetop", v, 1))
         /\ At(ElectionV1(v), 5, Field("top_master_addr", v, 6))
         /\ At(ElectionV1(v), 11, Field("top_master_metric", v, 4))
         /\ At(ElectionV1(v), 15, Field("self_metric", v, 4))
<1> DEFINE fields == << << "flags", 1 >>, << "id", 2 >>, << "distancetop", 1 >>,
                        << "unknown", 1 >>, << "top_master_addr", 6 >>,
                        << "top_master_metric", 4 >>, << "self_metric", 4 >>, << "pad", 2 >> >>
           offset == << 0, 1, 3, 4, 5, 11, 15, 19, 21 >>
<1>1. fields \in [ 1 .. 8 -> Names \X Nat ]
  <2>1. /\ << "flags", 1 >> \in Names \X Nat /\ << "id", 2 >> \in Names \X Nat
        /\ << "distancetop", 1 >> \in Names \X Nat /\ << "unknown", 1 >> \in Names \X Nat
        /\ << "top_master_addr", 6 >> \in Names \X Nat
        /\ << "top_master_metric", 4 >> \in Names \X Nat
        /\ << "self_metric", 4 >> \in Names \X Nat /\ << "pad", 2 >> \in Names \X Nat
    BY FieldNames
  <2>2. QED
    BY <2>1
<1>2. offset \in [ 1 .. 9 -> Nat ]
  OBVIOUS
<1>3. \A i \in 1 .. 8 : offset[i + 1] = offset[i] + fields[i][2]
  OBVIOUS
<1>4. offset[1] = 0 /\ offset[8 + 1] = 21
  OBVIOUS
<1>5. /\ fields[3][1] = "distancetop" /\ fields[3][2] = 1 /\ fields[5][1] = "top_master_addr" /\ fields[5][2] = 6
      /\ fields[6][1] = "top_master_metric" /\ fields[6][2] = 4 /\ fields[7][1] = "self_metric" /\ fields[7][2] = 4
      /\ offset[3] = 3 /\ offset[5] = 5 /\ offset[6] = 11 /\ offset[7] = 15
  OBVIOUS
<1> HIDE DEF fields, offset
<1>6. /\ Struct(v, fields) \in Buffer
      /\ Len(Struct(v, fields)) = offset[8 + 1]
      /\ \A i \in 1 .. 8 :
           At(Struct(v, fields), offset[i], Field(fields[i][1], v, fields[i][2]))
  <2>1. 8 \in Nat \ {0} /\ 8 + 1 = 9
    OBVIOUS
  <2>2. QED
    BY <1>1, <1>2, <1>3, <1>4, <2>1, StructLayout
<1>7. ElectionV1(v) = Struct(v, fields)
  BY DEF ElectionV1, fields
<1>8. /\ At(ElectionV1(v), offset[3], Field(fields[3][1], v, fields[3][2]))
      /\ At(ElectionV1(v), offset[5], Field(fields[5][1], v, fields[5][2]))
      /\ At(ElectionV1(v), offset[6], Field(fields[6][1], v, fields[6][2]))
      /\ At(ElectionV1(v), offset[7], Field(fields[7][1], v, fields[7][2]))
  BY <1>6, <1>7
<1>9. QED
  BY <1>4, <1>5, <1>6, <1>7, <1>8

LEMMA ElectionV2Layout ==
  ASSUME NEW v \in Nat
  PROVE  /\ ElectionV2(v) \in Buffer /\ Len(ElectionV2(v)) = 40
         /\ At(ElectionV2(v), 0, Field("master_addr", v, 6))
         /\ At(ElectionV2(v), 6, Field("sync_addr", v, 6))
         /\ At(ElectionV2(v), 12, Field("master_counter", v, 4))
         /\ At(ElectionV2(v), 16, Field("distance_to_master", v, 4))
         /\ At(ElectionV2(v), 20, Field("master_metric", v, 4))
         /\ At(ElectionV2(v), 24, Field("self_metric", v, 4))
         /\ At(ElectionV2(v), 36, Field("self_counter", v, 4))
<1> DEFINE fields == << << "master_addr", 6 >>, << "sync_addr", 6 >>,
                        << "master_counter", 4 >>, << "distance_to_master", 4 >>,
                        << "master_metric", 4 >>, << "self_metric", 4 >>,
                        << "unknown", 4 >>, << "reserved", 4 >>, << "self_counter", 4 >> >>
           offset == << 0, 6, 12, 16, 20, 24, 28, 32, 36, 40 >>
<1>1. fields \in [ 1 .. 9 -> Names \X Nat ]
  <2>1. /\ << "master_addr", 6 >> \in Names \X Nat /\ << "sync_addr", 6 >> \in Names \X Nat
        /\ << "master_counter", 4 >> \in Names \X Nat
        /\ << "distance_to_master", 4 >> \in Names \X Nat
        /\ << "master_metric", 4 >> \in Names \X Nat
        /\ << "self_metric", 4 >> \in Names \X Nat
        /\ << "unknown", 4 >> \in Names \X Nat /\ << "reserved", 4 >> \in Names \X Nat
        /\ << "self_counter", 4 >> \in Names \X Nat
    BY FieldNames
  <2>2. QED
    BY <2>1
<1>2. offset \in [ 1 .. 10 -> Nat ]
  OBVIOUS
<1>3. \A i \in 1 .. 9 : offset[i + 1] = offset[i] + fields[i][2]
  OBVIOUS
<1>4. offset[1] = 0 /\ offset[9 + 1] = 40
  OBVIOUS
<1>5. /\ fields[1][1] = "master_addr" /\ fields[1][2] = 6 /\ fields[2][1] = "sync_addr" /\ fields[2][2] = 6
      /\ fields[3][1] = "master_counter" /\ fields[3][2] = 4 /\ fields[4][1] = "distance_to_master" /\ fields[4][2] = 4
      /\ fields[5][1] = "master_metric" /\ fields[5][2] = 4 /\ fields[6][1] = "self_metric" /\ fields[6][2] = 4
      /\ fields[9][1] = "self_counter" /\ fields[9][2] = 4
      /\ offset[2] = 6 /\ offset[3] = 12 /\ offset[4] = 16 /\ offset[5] = 20
      /\ offset[6] = 24 /\ offset[9] = 36
  OBVIOUS
<1> HIDE DEF fields, offset
<1>6. /\ Struct(v, fields) \in Buffer
      /\ Len(Struct(v, fields)) = offset[9 + 1]
      /\ \A i \in 1 .. 9 :
           At(Struct(v, fields), offset[i], Field(fields[i][1], v, fields[i][2]))
  <2>1. 9 \in Nat \ {0} /\ 9 + 1 = 10
    OBVIOUS
  <2>2. QED
    BY <1>1, <1>2, <1>3, <1>4, <2>1, StructLayout
<1>7. ElectionV2(v) = Struct(v, fields)
  BY DEF ElectionV2, fields
<1>8. /\ At(ElectionV2(v), offset[1], Field(fields[1][1], v, fields[1][2]))
      /\ At(ElectionV2(v), offset[2], Field(fields[2][1], v, fields[2][2]))
      /\ At(ElectionV2(v), offset[3], Field(fields[3][1], v, fields[3][2]))
      /\ At(ElectionV2(v), offset[4], Field(fields[4][1], v, fields[4][2]))
      /\ At(ElectionV2(v), offset[5], Field(fields[5][1], v, fields[5][2]))
      /\ At(ElectionV2(v), offset[6], Field(fields[6][1], v, fields[6][2]))
      /\ At(ElectionV2(v), offset[9], Field(fields[9][1], v, fields[9][2]))
  BY <1>6, <1>7
<1>9. QED
  BY <1>4, <1>5, <1>6, <1>7, <1>8

LEMMA DnsNameBytes ==
  ASSUME NEW v \in Nat, NEW length \in Nat
  PROVE  DnsName(v, length) \in Buffer
<1>1. 2 \in Nat /\ "domain" \in Names /\ "short_name" \in Names
  BY FieldNames
<1>2. /\ U8(length) \in Buffer /\ Field("domain", v, length) \in Buffer
      /\ Field("short_name", v, 2) \in Buffer
  BY <1>1, NumberBytes, ManyBytes, Zenon
<1>3. QED
  BY <1>2, ManyBytes, Zenon DEF DnsName

LEMMA ChanSeqBytes ==
  ASSUME NEW v \in Nat, NEW step_count \in Nat
  PROVE  ChanSeqOf(v, step_count) \in Buffer
<1>1. ChanSeqLength - 1 \in Nat /\ 2 * ChanSeqLength \in Nat
  BY Widths
<1>2. /\ U8(ChanSeqLength - 1) \in Buffer /\ U8(Opclass) \in Buffer /\ U8(0) \in Buffer
      /\ U8(step_count) \in Buffer /\ LE16(65535) \in Buffer
      /\ Field("sequence", v, 2 * ChanSeqLength) \in Buffer
  <2>1. "sequence" \in Names
    BY FieldNames
  <2>2. Field("sequence", v, 2 * ChanSeqLength) \in Buffer
    BY <1>1, <2>1, ManyBytes
  <2>3. QED
    BY <1>1, <2>2, NumberBytes DEF Opclass
<1>3. ASSUME NEW bytes \in Buffer
      PROVE  U8(ChanSeqLength - 1) \o U8(Opclass) \o U8(0) \o U8(step_count) \o bytes
               \o Field("sequence", v, 2 * ChanSeqLength) \in Buffer
  BY <1>2, Chain6
<1>4. QED
  BY <1>2, <1>3 DEF ChanSeqOf

LEMMA SyncBytes ==
  ASSUME NEW v \in Nat
  PROVE  \E val \in Buffer : SyncParamsTlv(v) = Tlv(SyncType, val)
<1> DEFINE fields ==
      << << "next_aw_channel", 1 >>, << "tx_down_counter", 2 >>,
         << "master_channel", 1 >>, << "guard_time", 1 >>,
         << "aw_period", 2 >>, << "af_period", 2 >>, << "flags", 2 >>,
         << "aw_ext_length", 2 >>, << "aw_com_length", 2 >>,
         << "remaining_aw_length", 2 >>, << "min_ext", 1 >>,
         << "max_ext_multicast", 1 >>, << "max_ext_unicast", 1 >>,
         << "max_ext_af", 1 >>, << "master_addr", 6 >>,
         << "presence_mode", 1 >>, << "reserved", 1 >>,
         << "next_aw_seq", 2 >>, << "ap_alignment", 2 >> >>
<1>1. fields \in [ 1 .. 19 -> Names \X Nat ]
  <2>1. /\ << "next_aw_channel", 1 >> \in Names \X Nat
        /\ << "tx_down_counter", 2 >> \in Names \X Nat
        /\ << "master_channel", 1 >> \in Names \X Nat /\ << "guard_time", 1 >> \in Names \X Nat
        /\ << "aw_period", 2 >> \in Names \X Nat /\ << "af_period", 2 >> \in Names \X Nat
        /\ << "flags", 2 >> \in Names \X Nat /\ << "aw_ext_length", 2 >> \in Names \X Nat
        /\ << "aw_com_length", 2 >> \in Names \X Nat
        /\ << "remaining_aw_length", 2 >> \in Names \X Nat
        /\ << "min_ext", 1 >> \in Names \X Nat /\ << "max_ext_multicast", 1 >> \in Names \X Nat
        /\ << "max_ext_unicast", 1 >> \in Names \X Nat /\ << "max_ext_af", 1 >> \in Names \X Nat
        /\ << "master_addr", 6 >> \in Names \X Nat /\ << "presence_mode", 1 >> \in Names \X Nat
        /\ << "reserved", 1 >> \in Names \X Nat /\ << "next_aw_seq", 2 >> \in Names \X Nat
        /\ << "ap_alignment", 2 >> \in Names \X Nat
    BY FieldNames
  <2>2. QED
    BY <2>1
<1> HIDE DEF fields
<1>2. Struct(v, fields) \in Buffer
  <2>1. 19 \in Nat \ {0}
    OBVIOUS
  <2>2. QED
    BY <1>1, <2>1, StructBytes, Zenon
<1>3. ChanSeq(v) \in Buffer /\ Padding(2) \in Buffer
  BY ChanSeqBytes, PaddingBytes DEF ChanSeq
<1>4. Struct(v, fields) \o ChanSeq(v) \o Padding(2) \in Buffer
  BY <1>2, <1>3, ConcatBytes
<1>5. QED
  BY <1>4 DEF SyncParamsTlv, fields

LEMMA ShortStructs ==
  ASSUME NEW v \in Nat
  PROVE  /\ Struct(v, << << "unknown", 3 >>, << "sui", 2 >>, << "bitmask", 4 >> >>) \in Buffer
         /\ Struct(v, << << "unknown", 2 >>, << "ht_capabilities", 2 >>,
                         << "ampdu_params", 1 >>, << "rx_mcs", 1 >>,
                         << "unknown2", 2 >> >>) \in Buffer
         /\ Struct(v, << << "country_code", 3 >>, << "social_channels", 2 >>,
                         << "apple_p2p_addr", 6 >>, << "ext_flags", 2 >> >>) \in Buffer
         /\ Struct(v, << << "version", 1 >>, << "devclass", 1 >> >>) \in Buffer
         /\ Struct(v, << << "priority", 2 >>, << "weight", 2 >>, << "port", 2 >> >>) \in Buffer
         /\ Struct(v, << << "country_code", 3 >>, << "bssid", 6 >>,
                         << "channel", 2 >>, << "infra_addr", 6 >> >>) \in Buffer
<1> DEFINE Pair == Names \X Nat
<1>1. \A x, y \in Pair : << x, y >> \in [ 1 .. 2 -> Pair ]
  OBVIOUS
<1>2. \A x, y, z \in Pair : << x, y, z >> \in [ 1 .. 3 -> Pair ]
  OBVIOUS
<1>3. \A x, y, z, w \in Pair : << x, y, z, w >> \in [ 1 .. 4 -> Pair ]
  OBVIOUS
<1>4. \A x, y, z, w, u \in Pair : << x, y, z, w, u >> \in [ 1 .. 5 -> Pair ]
  OBVIOUS
<1>5. \A n \in 1 .. 5 : \A fields \in [ 1 .. n -> Pair ] : Struct(v, fields) \in Buffer
  <2>1. ASSUME NEW n \in 1 .. 5, NEW fields \in [ 1 .. n -> Pair ]
        PROVE  Struct(v, fields) \in Buffer
    <3>1. n \in Nat \ {0}
      OBVIOUS
    <3>2. QED
      BY <3>1, StructBytes, Zenon
  <2>2. QED
    BY <2>1
<1>6. /\ << "unknown", 3 >> \in Pair /\ << "sui", 2 >> \in Pair /\ << "bitmask", 4 >> \in Pair
      /\ << "unknown", 2 >> \in Pair /\ << "ht_capabilities", 2 >> \in Pair
      /\ << "ampdu_params", 1 >> \in Pair /\ << "rx_mcs", 1 >> \in Pair
      /\ << "unknown2", 2 >> \in Pair /\ << "country_code", 3 >> \in Pair
      /\ << "social_channels", 2 >> \in Pair /\ << "apple_p2p_addr", 6 >> \in Pair
      /\ << "ext_flags", 2 >> \in Pair /\ << "version", 1 >> \in Pair
      /\ << "devclass", 1 >> \in Pair /\ << "priority", 2 >> \in Pair
      /\ << "weight", 2 >> \in Pair /\ << "port", 2 >> \in Pair /\ << "bssid", 6 >> \in Pair
      /\ << "channel", 2 >> \in Pair /\ << "infra_addr", 6 >> \in Pair
  BY FieldNames
<1> HIDE DEF Pair
<1>7. /\ << << "unknown", 3 >>, << "sui", 2 >>, << "bitmask", 4 >> >> \in [ 1 .. 3 -> Pair ]
      /\ << << "priority", 2 >>, << "weight", 2 >>, << "port", 2 >> >> \in [ 1 .. 3 -> Pair ]
      /\ << << "version", 1 >>, << "devclass", 1 >> >> \in [ 1 .. 2 -> Pair ]
  BY <1>1, <1>2, <1>6, Zenon
<1>8. /\ << << "country_code", 3 >>, << "social_channels", 2 >>,
            << "apple_p2p_addr", 6 >>, << "ext_flags", 2 >> >> \in [ 1 .. 4 -> Pair ]
      /\ << << "country_code", 3 >>, << "bssid", 6 >>, << "channel", 2 >>,
            << "infra_addr", 6 >> >> \in [ 1 .. 4 -> Pair ]
  BY <1>3, <1>6, Zenon
<1>9. << << "unknown", 2 >>, << "ht_capabilities", 2 >>, << "ampdu_params", 1 >>,
         << "rx_mcs", 1 >>, << "unknown2", 2 >> >> \in [ 1 .. 5 -> Pair ]
  BY <1>4, <1>6, Zenon
<1>10. 2 \in 1 .. 5 /\ 3 \in 1 .. 5 /\ 4 \in 1 .. 5 /\ 5 \in 1 .. 5
  OBVIOUS
<1>11. QED
  BY <1>5, <1>7, <1>8, <1>9, <1>10, Zenon

LEMMA TxtLengths ==
  ASSUME NEW v \in Nat, NEW name \in Nat, NEW has_mac \in BOOLEAN,
         NEW n \in Nat \ {0}, NEW txt \in [ 1 .. n -> Nat ]
  PROVE  TxtData(v, name, has_mac, txt) \in Buffer
<1> DEFINE Step(f) == [ i \in 0 .. n |-> IF i = 0 THEN 0 ELSE f[i - 1] + txt[i] + 1 ]
           upTo == CHOOSE f : f = Step(f)
           domain == DomainLength(name, has_mac)
           strings == [ i \in 1 .. n |-> U8(txt[i]) \o Field("txt", v, txt[i]) ]
<1>1. Len(txt) = n
  OBVIOUS
<1>2. TxtData(v, name, has_mac, txt) =
        LE16(domain + 3 + 1) \o DnsName(v, domain) \o U8(TxtRecord)
          \o LE32(upTo[n]) \o FlattenSeq(strings)
  BY <1>1 DEF TxtData
<1>3. upTo[n] \in Nat
  <2>1. \E f : f = Step(f)
    <3> DEFINE join == [ p \in (1 .. n) \X Nat |-> p[2] + txt[p[1]] + 1 ]
    <3>1. join \in [ (1 .. n) \X Nat -> Nat ]
      OBVIOUS
    <3>2. PICK g \in [ 0 .. n -> Nat ] :
            g[0] = 0 /\ \A i \in 1 .. n : g[i] = join[<< i, g[i - 1] >>]
      <4>1. Count(n, Nat, 0, join)
        BY <3>1 DEF Count
      <4> HIDE DEF join
      <4>2. PICK g : Counts(g, n, Nat, 0, join)
        BY <4>1, CountHasResult, Zenon
      <4>3. QED
        BY <4>2 DEF Counts
    <3>3. \A i \in 1 .. n : g[i] = g[i - 1] + txt[i] + 1
      <4>1. \A i \in 1 .. n : i - 1 \in 0 .. n
        OBVIOUS
      <4>2. QED
        BY <3>2, <4>1
    <3>4. g = Step(g)
      BY <3>2, <3>3
    <3>5. QED
      BY <3>4
  <2>2. upTo = Step(upTo)
    <3> HIDE DEF Step
    <3>1. QED
      BY <2>1
  <2> HIDE DEF upTo
  <2>3. upTo[0] \in Nat /\ \A i \in 1 .. n : upTo[i] = upTo[i - 1] + txt[i] + 1
    BY <2>2
  <2>4. \A i \in 1 .. n : upTo[i - 1] \in Nat => upTo[i] \in Nat
    BY <2>3
  <2>5. \A i \in 0 .. n : upTo[i] \in Nat
    BY <2>3, <2>4, CountPreserves
  <2>6. QED
    BY <2>5
<1>4. strings \in [ 1 .. n -> Buffer ]
  <2>1. \A i \in 1 .. n : U8(txt[i]) \o Field("txt", v, txt[i]) \in Buffer
    BY U8Bytes, FieldBytes, FieldNames, ConcatBytes
  <2>2. QED
    BY <2>1
<1>5. FlattenSeq(strings) \in Buffer
  <2> HIDE DEF strings
  <2>1. PICK g \in [ 1 .. n -> Buffer ] : FlattenSeq(strings) = g[n]
    BY <1>4, FlattenBytes
  <2>2. QED
    BY <2>1
<1>6. domain \in Nat
  BY DEF DomainLength
<1> HIDE DEF upTo, strings, domain
<1>7. /\ LE16(domain + 3 + 1) \in Buffer /\ DnsName(v, domain) \in Buffer
      /\ U8(TxtRecord) \in Buffer /\ LE32(upTo[n]) \in Buffer
  <2>1. domain + 3 + 1 \in Nat /\ 16 \in Nat
    BY <1>6
  <2>2. QED
    BY <1>3, <1>6, <2>1, NumberBytes, DnsNameBytes, Zenon DEF TxtRecord
<1>8. LE16(domain + 3 + 1) \o DnsName(v, domain) \o U8(TxtRecord)
        \o LE32(upTo[n]) \o FlattenSeq(strings) \in Buffer
  BY <1>5, <1>7, Chain5, Zenon
<1>9. QED
  BY <1>2, <1>8, Zenon

LEMMA ArpaBytes ==
  ASSUME NEW v \in Nat, NEW name \in Nat
  PROVE  ArpaBody(v, name) \in Buffer
<1>1. "arpa_flags" \in Names /\ "name" \in Names /\ "suffix" \in Names
  BY FieldNames
<1>2. /\ Field("arpa_flags", v, 1) \in Buffer /\ U8(name) \in Buffer
      /\ Field("name", v, name) \in Buffer /\ Field("suffix", v, 2) \in Buffer
  BY <1>1, ManyBytes, NumberBytes
<1>3. QED
  BY <1>2, Chain4, Zenon DEF ArpaBody

(* The service responses, and the other TLVs of an action frame.           *)
LEMMA ResponseBytes ==
  ASSUME NEW v \in Nat, NEW name \in Nat, NEW has_mac \in BOOLEAN
  PROVE  /\ PtrData(v, name, has_mac) \in Buffer /\ SrvData(v, name, has_mac) \in Buffer
         /\ TxtData(v, name, has_mac, AirplayTxt) \in Buffer
         /\ TxtData(v, name, has_mac, RaopTxt) \in Buffer
<1> DEFINE domain == DomainLength(name, has_mac)
<1>1. domain \in Nat
  BY DEF DomainLength
<1> HIDE DEF domain
<1>2. /\ DnsName(v, domain) \in Buffer /\ DnsName(v, name) \in Buffer
      /\ LE16(domain + 3 + 1) \in Buffer /\ LE16(2 + 1) \in Buffer
      /\ LE32(domain + 3) \in Buffer /\ LE32(6 + name + 3) \in Buffer
      /\ U8(PtrRecord) \in Buffer /\ U8(SrvRecord) \in Buffer
  BY <1>1, DnsNameBytes, NumberBytes DEF PtrRecord, SrvRecord
<1>3. Field("short_name", v, 2) \in Buffer
  <2>1. "short_name" \in Names
    BY FieldNames
  <2>2. QED
    BY <2>1, ManyBytes
<1>4. PtrData(v, name, has_mac) \in Buffer
  <2>1. LE16(2 + 1) \o Field("short_name", v, 2) \o U8(PtrRecord)
          \o LE32(domain + 3) \o DnsName(v, domain) \in Buffer
    BY <1>2, <1>3, Chain5, Zenon
  <2>2. QED
    BY <2>1 DEF PtrData, domain
<1>5. SrvData(v, name, has_mac) \in Buffer
  <2> DEFINE ports == Struct(v, << << "priority", 2 >>, << "weight", 2 >>, << "port", 2 >> >>)
  <2>1. ports \in Buffer
    BY ShortStructs
  <2> HIDE DEF ports
  <2>2. LE16(domain + 3 + 1) \o DnsName(v, domain) \o U8(SrvRecord)
          \o LE32(6 + name + 3) \o ports \o DnsName(v, name) \in Buffer
    BY <1>2, <2>1, Chain6, Zenon
  <2>3. QED
    BY <2>2 DEF SrvData, domain, ports
<1>6. AirplayTxt \in [ 1 .. 2 -> Nat ] /\ RaopTxt \in [ 1 .. 3 -> Nat ]
  BY DEF AirplayTxt, RaopTxt
<1>7. /\ TxtData(v, name, has_mac, AirplayTxt) \in Buffer
      /\ TxtData(v, name, has_mac, RaopTxt) \in Buffer
  <2>1. 2 \in Nat \ {0} /\ 3 \in Nat \ {0}
    OBVIOUS
  <2>2. QED
    BY <1>6, <2>1, TxtLengths, Zenon
<1>8. QED
  BY <1>4, <1>5, <1>7

LEMMA OtherTlvChains ==
  ASSUME NEW v \in Nat, NEW type \in Nat \ { 5, 24 }, NEW val \in Buffer
  PROVE  Tlv(type, val) \in Chains(v)
<1>1. << type, val >> \in Honest(v)
  BY DEF Honest, Tlvs, ElectionType, ElectionV2Type
<1>2. QED
  BY <1>1, TlvChains

LEMMA TlvsChain ==
  ASSUME NEW v \in Nat, NEW name \in Nat
  PROVE  /\ SyncParamsTlv(v) \in Chains(v) /\ ElectionParamsTlv(v) \in Chains(v)
         /\ ChanSeqTlv(v) \in Chains(v) /\ ElectionParamsV2Tlv(v) \in Chains(v)
         /\ ServiceParamsTlv(v) \in Chains(v) /\ HtCapabilitiesTlv(v) \in Chains(v)
         /\ ArpaTlv(v, name) \in Chains(v) /\ DataPathStateTlv(v) \in Chains(v)
         /\ VersionTlv(v) \in Chains(v)
<1>1. SyncParamsTlv(v) \in Chains(v)
  BY SyncBytes, OtherTlvChains DEF SyncType
<1>2. ElectionParamsTlv(v) \in Chains(v)
  <2>1. << ElectionType, ElectionV1(v) >> \in Honest(v)
    BY ElectionV1Layout DEF Honest, Tlvs, ElectionType, ElectionV2Type
  <2>2. ElectionType \in Nat
    BY DEF ElectionType
  <2>3. Tlv(ElectionType, ElectionV1(v)) \in Chains(v)
    BY <2>1, <2>2, ElectionV1Layout, TlvChains
  <2>4. QED
    BY <2>3 DEF ElectionParamsTlv, ElectionV1
<1>3. ChanSeqTlv(v) \in Chains(v)
  <2>1. ChanSeq(v) \o Padding(3) \in Buffer
    BY ChanSeqBytes, PaddingBytes, ConcatBytes DEF ChanSeq
  <2>2. QED
    BY <2>1, OtherTlvChains DEF ChanSeqTlv, ChanSeqType
<1>4. ElectionParamsV2Tlv(v) \in Chains(v)
  <2>1. << ElectionV2Type, ElectionV2(v) >> \in Honest(v)
    BY ElectionV2Layout DEF Honest, Tlvs, ElectionType, ElectionV2Type
  <2>2. ElectionV2Type \in Nat
    BY DEF ElectionV2Type
  <2>3. Tlv(ElectionV2Type, ElectionV2(v)) \in Chains(v)
    BY <2>1, <2>2, ElectionV2Layout, TlvChains
  <2>4. QED
    BY <2>3 DEF ElectionParamsV2Tlv, ElectionV2
<1>5. ServiceParamsTlv(v) \in Chains(v)
  BY ShortStructs, OtherTlvChains DEF ServiceParamsTlv, ServiceParamsType
<1>6. HtCapabilitiesTlv(v) \in Chains(v)
  BY ShortStructs, OtherTlvChains DEF HtCapabilitiesTlv, HtType
<1>7. ArpaTlv(v, name) \in Chains(v)
  BY ArpaBytes, OtherTlvChains DEF ArpaTlv, ArpaType
<1>8. DataPathStateTlv(v) \in Chains(v)
  <2> DEFINE state == Struct(v, << << "country_code", 3 >>, << "social_channels", 2 >>,
                                   << "apple_p2p_addr", 6 >>, << "ext_flags", 2 >> >>)
  <2>1. state \in Buffer
    BY ShortStructs
  <2> HIDE DEF state
  <2>2. LE16(36708) \o state \in Buffer
    BY <2>1, NumberBytes, ManyBytes
  <2>3. QED
    BY <2>2, OtherTlvChains DEF DataPathStateTlv, DataPathType, state
<1>9. VersionTlv(v) \in Chains(v)
  BY ShortStructs, OtherTlvChains DEF VersionTlv, VersionType
<1>10. QED
  BY <1>1, <1>2, <1>3, <1>4, <1>5, <1>6, <1>7, <1>8, <1>9

(* What follows the header of an action frame.                             *)
LEMMA ActionHeaderBytes ==
  ASSUME NEW v \in Nat, NEW type \in Nat
  PROVE  /\ ActionHeader(v, type) \in Block(16)
         /\ At(ActionHeader(v, type), 0, Field("action", 0, 6))
         /\ ReadU8(ActionHeader(v, type), 6) = type
<1>1. /\ "action" \in Names /\ "reserved" \in Names /\ "phy_tx" \in Names
      /\ "target_tx" \in Names
  BY FieldNames
<1> DEFINE action == Field("action", 0, 6)
           reserved == Field("reserved", v, 1)
           phy_tx == Field("phy_tx", v, 4)
           target_tx == Field("target_tx", v, 4)
<1>2. /\ action \in Block(6) /\ reserved \in Block(1) /\ phy_tx \in Block(4)
      /\ target_tx \in Block(4)
  BY <1>1, FieldBlock
<1>3. U8(type) \in Block(1)
  BY NumberBlock
<1> HIDE DEF action, reserved, phy_tx, target_tx
<1>4. action \o U8(type) \in Block(7)
  BY <1>2, <1>3, ConcatBlock
<1>5. action \o U8(type) \o reserved \in Block(8)
  BY <1>2, <1>4, ConcatBlock
<1>6. action \o U8(type) \o reserved \o phy_tx \in Block(12)
  BY <1>2, <1>5, ConcatBlock
<1>7. action \o U8(type) \o reserved \o phy_tx \o target_tx \in Block(16)
  BY <1>2, <1>6, ConcatBlock
<1> DEFINE kind == U8(type)
           front == action \o kind
           rest == reserved \o phy_tx \o target_tx
<1>8. kind \in Buffer /\ Len(kind) = 1 /\ kind[1][3] = type
  <2>1. U8(type)[1] = Num(type) /\ Num(type)[3] = type
    BY U8Bytes, NumByte
  <2>2. QED
    BY <2>1, U8Bytes, Zenon
<1> HIDE DEF kind
<1>9. front \in Buffer /\ Len(front) = 7 /\ At(front, 0, action) /\ front[7][3] = type
  <2>1. action \in Buffer /\ Len(action) = 6
    BY <1>2 DEF Block
  <2>2. /\ front \in Buffer /\ Len(front) = Len(action) + Len(kind)
        /\ \A k \in 1 .. Len(kind) : front[Len(action) + k] = kind[k]
    BY <1>8, <2>1, ConcatBytes
  <2>3. At(front, 0, action)
    BY <1>8, <2>1, AtItself, AtFront
  <2>4. front[6 + 1] = kind[1]
    BY <1>8, <2>1, <2>2
  <2>5. QED
    BY <1>8, <2>1, <2>2, <2>3, <2>4
<1> HIDE DEF front
<1>10. reserved \in Buffer /\ phy_tx \in Buffer /\ target_tx \in Buffer /\ action \in Buffer
  BY <1>2 DEF Block
<1>11. rest \in Buffer
  BY <1>10, Chain3
<1>12. front \o reserved \o phy_tx \o target_tx = front \o rest
  <2>1. front \in Buffer
    BY <1>9, Zenon
  <2>2. front \in Seq(Byte) /\ reserved \in Seq(Byte) /\ phy_tx \in Seq(Byte)
          /\ target_tx \in Seq(Byte)
    BY <1>10, <2>1, Zenon DEF Buffer
  <2>3. QED
    BY <2>2
<1> HIDE DEF rest
<1> DEFINE whole == front \o rest
<1>13. At(whole, 0, action) /\ whole[6 + 1][3] = type
  <2>1. whole[7] = front[7]
    <3>1. 7 \in 1 .. Len(front)
      BY <1>9
    <3>2. QED
      BY <1>9, <1>11, <3>1, ConcatBytes
  <2>2. At(whole, 0, action)
    <3>1. 0 \in Nat
      OBVIOUS
    <3>2. QED
      BY <1>9, <1>10, <1>11, <3>1, AtFront, Zenon
  <2>3. 6 + 1 = 7
    OBVIOUS
  <2> HIDE DEF whole
  <2>4. QED
    BY <1>9, <2>1, <2>2, <2>3
<1>14. ActionHeader(v, type) = whole
  BY <1>12 DEF ActionHeader, front, kind, action, reserved, phy_tx, target_tx
<1>15. whole \in Block(16)
  BY <1>7, <1>14 DEF ActionHeader, action, reserved, phy_tx, target_tx
<1> HIDE DEF whole
<1>16. QED
  BY <1>13, <1>14, <1>15 DEF ReadU8, action

LEMMA ResponsesChain ==
  ASSUME NEW v \in Nat, NEW name \in Nat
  PROVE  ServiceResponses(v, name) \in Chains(v)
<1>1. ASSUME NEW val \in Buffer PROVE ServiceResponseTlv(val) \in Chains(v)
  BY OtherTlvChains DEF ServiceResponseTlv, ServiceResponseType
<1>2. FALSE \in BOOLEAN /\ TRUE \in BOOLEAN
  OBVIOUS
<1>3. /\ ServiceResponseTlv(PtrData(v, name, FALSE)) \in Chains(v)
      /\ ServiceResponseTlv(PtrData(v, name, TRUE)) \in Chains(v)
      /\ ServiceResponseTlv(SrvData(v, name, FALSE)) \in Chains(v)
      /\ ServiceResponseTlv(SrvData(v, name, TRUE)) \in Chains(v)
      /\ ServiceResponseTlv(TxtData(v, name, FALSE, AirplayTxt)) \in Chains(v)
      /\ ServiceResponseTlv(TxtData(v, name, TRUE, RaopTxt)) \in Chains(v)
  BY <1>1, <1>2, ResponseBytes, Zenon
<1>4. \A a, b, c, d, e, f \in Chains(v) : a \o b \o c \o d \o e \o f \in Chains(v)
  <2>1. \A a, b \in Chains(v) : a \o b \in Chains(v)
    BY ConcatChains
  <2>2. \A a, b, c \in Chains(v) : a \o b \o c \in Chains(v)
    BY <2>1, Zenon
  <2>3. \A a, b, c, d \in Chains(v) : a \o b \o c \o d \in Chains(v)
    BY <2>1, <2>2, Zenon
  <2>4. \A a, b, c, d, e \in Chains(v) : a \o b \o c \o d \o e \in Chains(v)
    BY <2>1, <2>3, Zenon
  <2>5. QED
    BY <2>1, <2>4, Zenon
<1>5. QED
  BY <1>3, <1>4, Zenon DEF ServiceResponses

LEMMA BodyParts ==
  ASSUME NEW v \in Nat, NEW h \in Heads, NEW t \in Chains(v)
  PROVE  h \o t \in HonestBodies(v)
<1>1. h \o t \in Buffer
  BY ManyBytes DEF Heads, Block, Chains
<1>2. QED
  BY <1>1, Zenon DEF HonestBodies

LEMMA BodyGrows ==
  ASSUME NEW v \in Nat, NEW b \in HonestBodies(v), NEW x \in Chains(v)
  PROVE  b \o x \in HonestBodies(v)
<1>1. PICK h \in Heads, t \in Chains(v) : b = h \o t
  BY DEF HonestBodies
<1>2. t \o x \in Chains(v)
  BY ConcatChains
<1>3. (h \o t) \o x = h \o (t \o x)
  <2>1. h \in Buffer /\ t \in Buffer /\ x \in Buffer
    BY DEF Heads, Block, Chains
  <2>2. QED
    BY <2>1 DEF Buffer
<1>4. h \o (t \o x) \in HonestBodies(v)
  BY <1>2, BodyParts, Zenon
<1>5. QED
  BY <1>1, <1>3, <1>4, Zenon

LEMMA BodyBegins ==
  ASSUME NEW v \in Nat, NEW type \in { Psf, Mif }
  PROVE  ActionHeader(v, type) \in HonestBodies(v)
<1>1. /\ ActionHeader(v, type) \in Heads /\ ActionHeader(v, type) \in Block(16)
      /\ << >> \in Chains(v)
  <2>1. type \in Nat
    BY DEF Psf, Mif
  <2>2. QED
    BY <2>1, ActionHeaderBytes, NothingChains, Zenon DEF Heads
<1>2. ActionHeader(v, type) = ActionHeader(v, type) \o << >>
  BY <1>1 DEF Block, Buffer
<1>3. ActionHeader(v, type) \o << >> \in HonestBodies(v)
  BY <1>1, BodyParts, Zenon
<1>4. QED
  BY <1>2, <1>3, Zenon

LEMMA ActionBodyHonest ==
  ASSUME NEW v \in Nat, NEW type \in { Psf, Mif }, NEW name \in Nat
  PROVE  ActionBody(v, type, name) \in HonestBodies(v)
<1> DEFINE H == HonestBodies(v)
           C == Chains(v)
           head == ActionHeader(v, type)
           sync == SyncParamsTlv(v)
           election == ElectionParamsTlv(v)
           sequence == ChanSeqTlv(v)
           election2 == ElectionParamsV2Tlv(v)
           service == ServiceParamsTlv(v)
           optional == IF type = Mif THEN HtCapabilitiesTlv(v) \o ArpaTlv(v, name) ELSE << >>
           state == DataPathStateTlv(v)
           versions == VersionTlv(v)
           responses == IF type = Mif THEN ServiceResponses(v, name) ELSE << >>
<1>1. \A b \in H, x \in C : b \o x \in H
  BY BodyGrows
<1>2. head \in H
  BY BodyBegins
<1>3. /\ sync \in C /\ election \in C /\ sequence \in C /\ election2 \in C /\ service \in C
      /\ state \in C /\ versions \in C
  BY TlvsChain
<1>4. optional \in C /\ responses \in C
  <2>1. HtCapabilitiesTlv(v) \o ArpaTlv(v, name) \in C
    BY TlvsChain, ConcatChains
  <2>2. ServiceResponses(v, name) \in C /\ << >> \in C
    BY ResponsesChain, NothingChains
  <2>3. QED
    BY <2>1, <2>2, Zenon
<1>5. ActionBody(v, type, name) =
        head \o sync \o election \o sequence \o election2 \o service \o optional
          \o state \o versions \o responses
  BY DEF ActionBody
<1> HIDE DEF H, C, head, sync, election, sequence, election2, service, optional, state,
             versions, responses
<1>6. head \o sync \o election \o sequence \in H
  BY <1>1, <1>2, <1>3
<1>7. head \o sync \o election \o sequence \o election2 \o service \o optional \in H
  BY <1>1, <1>3, <1>4, <1>6
<1>8. head \o sync \o election \o sequence \o election2 \o service \o optional
        \o state \o versions \o responses \in H
  BY <1>1, <1>3, <1>4, <1>7
<1>9. QED
  BY <1>5, <1>8 DEF H

LEMMA OtherBodyHonest ==
  ASSUME NEW v \in Nat, NEW make, NEW name \in Nat
  PROVE  BodyOfOthers(v, make, name) \in HonestBodies(v)
<1> DEFINE H == HonestBodies(v)
           C == Chains(v)
           head == ActionHeader(v, Mif)
           election == ElectionParamsTlv(v)
           arpa == ArpaTlv(v, name)
           steps == Tlv(ChanSeqType, ChanSeqOf(v, 0)) \o ElectionParamsV2Tlv(v)
           fields == Struct(v, << << "country_code", 3 >>, << "bssid", 6 >>,
                                  << "channel", 2 >>, << "infra_addr", 6 >> >>)
           state == Tlv(DataPathType, LE16(259) \o fields)
           optional == IF make = "steps" THEN steps ELSE state
           versions == VersionTlv(v)
<1>1. \A b \in H, x \in C : b \o x \in H
  BY BodyGrows
<1>2. head \in H
  BY BodyBegins DEF Mif
<1>3. election \in C /\ arpa \in C /\ versions \in C
  BY TlvsChain
<1>4. optional \in C
  <2>1. steps \in C
    <3>1. Tlv(ChanSeqType, ChanSeqOf(v, 0)) \in C
      <4>1. ChanSeqOf(v, 0) \in Buffer
        BY ChanSeqBytes
      <4>2. QED
        BY <4>1, OtherTlvChains DEF ChanSeqType
    <3>2. QED
      BY <3>1, TlvsChain, ConcatChains
  <2>2. state \in C
    <3>1. fields \in Buffer
      BY ShortStructs
    <3> HIDE DEF fields
    <3>2. LE16(259) \o fields \in Buffer
      BY <3>1, NumberBytes, ManyBytes
    <3>3. QED
      BY <3>2, OtherTlvChains DEF DataPathType
  <2>3. QED
    BY <2>1, <2>2, Zenon
<1>5. BodyOfOthers(v, make, name) = head \o election \o arpa \o optional \o versions
  BY DEF BodyOfOthers
<1> HIDE DEF H, C, head, election, arpa, optional, versions
<1>6. head \o election \o arpa \o optional \o versions \in H
  BY <1>1, <1>2, <1>3, <1>4
<1>7. QED
  BY <1>5, <1>6 DEF H

(* Wherever such a body is cut behind its header, with its checksum or     *)
(* without, only TLVs of the version v are read.                           *)
LEMMA HonestReading ==
  ASSUME NEW v \in Nat, NEW b \in HonestBodies(v), NEW body \in Buffer,
         Len(body) >= 16, Begins(body, 0, b \o Fcs)
  PROVE  /\ ReadTlvs(body, 16).tlvs \in Seq(Honest(v))
         /\ ReadTlvs(body, 16).left \in Nat
<1>1. PICK h \in Heads, t \in Chains(v) : b = h \o t
  BY DEF HonestBodies
<1>2. /\ t \o Fcs \in Readable(v) /\ h \in Buffer /\ Len(h) = 16 /\ t \in Buffer
      /\ Fcs \in Buffer /\ t \o Fcs \in Buffer
  BY FcsReadable, ManyBytes DEF Heads, Chains, Block, Readable
<1>3. (h \o t) \o Fcs = h \o (t \o Fcs)
  BY <1>2 DEF Buffer
<1> DEFINE y == t \o Fcs
           w == h \o y
<1>4. Len(w) = Len(h) + Len(y) /\ \A k \in 1 .. Len(y) : w[Len(h) + k] = y[k]
  BY <1>2, ConcatBytes
<1>5. Begins(body, 0, w)
  BY <1>1, <1>3
<1>6. Len(body) \in Nat /\ Len(y) \in Nat
  BY <1>2 DEF Buffer
<1> HIDE DEF y, w
<1>7. /\ Len(body) - 0 <= Len(w)
      /\ \A k \in 1 .. Len(body) - 0 : body[0 + k] = w[k]
  BY <1>5 DEF Begins
<1>8. Begins(body, 16, y)
  <2>1. Len(body) - 16 <= Len(y)
    BY <1>2, <1>4, <1>6, <1>7
  <2>2. ASSUME NEW k \in 1 .. Len(body) - 16 PROVE body[16 + k] = y[k]
    <3>1. k \in 1 .. Len(y) /\ 16 + k \in 1 .. Len(body) - 0 /\ 0 + (16 + k) = 16 + k
      BY <1>6, <2>1
    <3>2. body[0 + (16 + k)] = w[16 + k]
      BY <1>7, <3>1
    <3>3. w[Len(h) + k] = y[k]
      BY <1>4, <3>1
    <3>4. QED
      BY <1>2, <3>1, <3>2, <3>3
  <2>3. QED
    BY <2>1, <2>2 DEF Begins
<1>9. QED
  <2>1. 16 \in 0 .. Len(body) /\ y \in Readable(v)
    BY <1>2, <1>6 DEF y
  <2>2. QED
    BY <1>8, <2>1 DEF Readable
-----------------------------------------------------------------------------
(* The handlers of the TLVs.                                               *)

(* What Fill leaves of a record, whatever the value holds.                 *)
IsReads(reads) ==
  \A i \in DOMAIN reads : i \in Nat /\ i >= 1 /\ reads[i][2] \in Nat /\ reads[i][3] \in Nat

Fillable(D, B, record, val, reads) ==
  /\ Buffer \subseteq B /\ record \in [ D -> B ]
  /\ val \in Buffer /\ IsReads(reads)

LEMMA FillPart ==
  ASSUME NEW D, NEW B, NEW record, NEW val, NEW reads,
         Fillable(D, B, record, val, reads)
  PROVE  /\ Fill(record, val, reads).ok \in BOOLEAN
         /\ Fill(record, val, reads).record \in [ D -> B ]
         /\ \A field \in D :
              \/ Fill(record, val, reads).record[field] = record[field]
              \/ \E i \in DOMAIN reads :
                   /\ reads[i][1] = field
                   /\ Fill(record, val, reads).record[field] \in Block(reads[i][3])
<1> USE DEF Fillable
<1> DEFINE reached == { i \in DOMAIN reads :
                          \A k \in 1 .. i : Fits(val, reads[k][2], reads[k][3]) }
           into(field) == { i \in reached : reads[i][1] = field }
           value(field) == IF into(field) = { } THEN record[field]
                           ELSE LET i == CHOOSE i \in into(field) : TRUE
                                IN  Read(val, reads[i][2], reads[i][3])
<1>1. /\ Fill(record, val, reads).ok = (reached = DOMAIN reads)
      /\ Fill(record, val, reads).record = [ field \in D |-> value(field) ]
  BY DEF Fill
<1>2. ASSUME NEW i \in reached PROVE Read(val, reads[i][2], reads[i][3]) \in Block(reads[i][3])
  <2>1. i \in 1 .. i /\ reads[i][2] \in Nat /\ reads[i][3] \in Nat
    BY DEF IsReads
  <2>2. reads[i][2] + reads[i][3] <= Len(val)
    BY <2>1 DEF Fits
  <2>3. QED
    BY <2>1, <2>2, ReadBytes DEF Block
<1>3. ASSUME NEW field \in D
      PROVE  \/ value(field) = record[field]
             \/ \E i \in DOMAIN reads :
                  reads[i][1] = field /\ value(field) \in Block(reads[i][3])
  <2>1. CASE into(field) = { }
    BY <2>1
  <2>2. CASE into(field) # { }
    <3> DEFINE i == CHOOSE i \in into(field) : TRUE
    <3>1. i \in into(field)
      BY <2>2
    <3>2. value(field) = Read(val, reads[i][2], reads[i][3])
      BY <2>2
    <3> HIDE DEF i, value
    <3>3. QED
      BY <1>2, <3>1, <3>2
  <2>3. QED
    BY <2>1, <2>2
<1> HIDE DEF value
<1>4. \A field \in D : value(field) \in B
  <2>1. \A n : Block(n) \subseteq B
    BY DEF Block
  <2>2. QED
    BY <1>3, <2>1
<1>5. QED
  BY <1>1, <1>3, <1>4

(* All of it, if the value holds all fields.                               *)
Whole(D, record, val, reads) ==
  /\ DOMAIN record = D /\ IsReads(reads)
  /\ \A i \in DOMAIN reads : 1 .. i \subseteq DOMAIN reads
  /\ \A i \in DOMAIN reads : Fits(val, reads[i][2], reads[i][3])

LEMMA FillWhole ==
  ASSUME NEW D, NEW record, NEW val, NEW reads, Whole(D, record, val, reads)
  PROVE  /\ Fill(record, val, reads).ok
         /\ DOMAIN Fill(record, val, reads).record = D
         /\ \A i \in DOMAIN reads :
              ( /\ reads[i][1] \in D
                /\ \A j \in DOMAIN reads : reads[j][1] = reads[i][1] => j = i ) =>
                Fill(record, val, reads).record[reads[i][1]] =
                  Read(val, reads[i][2], reads[i][3])
         /\ \A field \in D : (\A i \in DOMAIN reads : reads[i][1] # field) =>
              Fill(record, val, reads).record[field] = record[field]
<1> USE DEF Whole
<1> DEFINE reached == { i \in DOMAIN reads :
                          \A k \in 1 .. i : Fits(val, reads[k][2], reads[k][3]) }
           into(field) == { i \in reached : reads[i][1] = field }
           value(field) == IF into(field) = { } THEN record[field]
                           ELSE LET i == CHOOSE i \in into(field) : TRUE
                                IN  Read(val, reads[i][2], reads[i][3])
<1>1. /\ Fill(record, val, reads).ok = (reached = DOMAIN reads)
      /\ Fill(record, val, reads).record = [ field \in D |-> value(field) ]
  BY DEF Fill
<1>2. reached = DOMAIN reads
  OBVIOUS
<1>3. ASSUME NEW i \in DOMAIN reads, \A j \in DOMAIN reads : reads[j][1] = reads[i][1] => j = i
      PROVE  value(reads[i][1]) = Read(val, reads[i][2], reads[i][3])
  <2>1. into(reads[i][1]) = { i }
    BY <1>2, <1>3
  <2>2. (CHOOSE j \in { i } : TRUE) = i
    OBVIOUS
  <2> HIDE DEF into
  <2>3. QED
    BY <2>1, <2>2
<1>4. ASSUME NEW field \in D, \A i \in DOMAIN reads : reads[i][1] # field
      PROVE  value(field) = record[field]
  <2>1. into(field) = { }
    BY <1>4
  <2>2. QED
    BY <2>1
<1> HIDE DEF value, reached
<1> DEFINE out == Fill(record, val, reads).record
<1>5. out = [ field \in D |-> value(field) ] /\ Fill(record, val, reads).ok
  BY <1>1, <1>2
<1> HIDE DEF out
<1>6. DOMAIN out = D /\ \A field \in D : out[field] = value(field)
  BY <1>5
<1>7. ASSUME NEW i \in DOMAIN reads, reads[i][1] \in D,
             \A j \in DOMAIN reads : reads[j][1] = reads[i][1] => j = i
      PROVE  out[reads[i][1]] = Read(val, reads[i][2], reads[i][3])
  BY <1>3, <1>6, <1>7
<1>8. ASSUME NEW field \in D, \A i \in DOMAIN reads : reads[i][1] # field
      PROVE  out[field] = record[field]
  BY <1>4, <1>6, <1>8
<1>9. QED
  BY <1>5, <1>6, <1>7, <1>8 DEF out

LEMMA SameRankRanked ==
  ASSUME NEW e, NEW f, SameRank(e, f), Ranked(e)
  PROVE  Ranked(f)
<1>1. /\ e.supports_v2 = f.supports_v2 /\ e.sync_addr = f.sync_addr
      /\ e.master_counter = f.master_counter /\ e.self_counter = f.self_counter
      /\ e.height = f.height /\ e.master_addr = f.master_addr
      /\ e.master_metric = f.master_metric /\ e.self_metric = f.self_metric
  BY DEF SameRank, RankFields
<1>2. \A v : Shows(e, AnnouncedV1, v) => Shows(f, AnnouncedV1, v)
  <2>1. \A a \in AnnouncedV1 : e[a[1]] = f[a[1]]
    BY <1>1 DEF AnnouncedV1
  <2>2. QED
    BY <2>1 DEF Shows
<1>3. \A v : Shows(e, AnnouncedV2, v) => Shows(f, AnnouncedV2, v)
  <2>1. \A a \in AnnouncedV2 : e[a[1]] = f[a[1]]
    BY <1>1 DEF AnnouncedV2
  <2>2. QED
    BY <2>1 DEF Shows
<1>4. QED
  BY <1>1, <1>2, <1>3, Zenon DEF Ranked

LEMMA EntryNames ==
  DOMAIN NewEntry =
    { "known", "height", "master_addr", "sync_addr", "master_counter", "master_metric",
      "self_metric", "self_counter", "supports_v2", "sequence", "name",
      "country_code", "infra_addr", "version", "devclass", "sent_mif" }
BY DEF NewEntry

LEMMA NewEntryTyped == NewEntry \in Entries /\ Ranked(NewEntry)
<1>1. NewEntry \in [ DOMAIN NewEntry -> Buffer \cup BOOLEAN ]
  <2>1. << >> \in Buffer
    BY DEF Buffer
  <2>2. \A field \in DOMAIN NewEntry : NewEntry[field] \in { << >>, TRUE, FALSE }
    <3>1. \A field \in { "height", "master_addr", "sync_addr", "master_counter",
                         "master_metric", "self_metric", "self_counter", "sequence",
                         "name", "country_code", "infra_addr", "version", "devclass" } :
            NewEntry[field] = << >>
      BY DEF NewEntry
    <3>2. NewEntry["known"] = TRUE /\ NewEntry["supports_v2"] = FALSE
            /\ NewEntry["sent_mif"] = FALSE
      BY DEF NewEntry
    <3>3. QED
      BY <3>1, <3>2, EntryNames
  <2>3. NewEntry = [ field \in DOMAIN NewEntry |-> NewEntry[field] ]
    BY DEF NewEntry
  <2>4. QED
    BY <2>1, <2>2, <2>3
<1>2. NewEntry["name"] \in Buffer /\ Len(NewEntry["name"]) <= NameMax
  BY Widths DEF NewEntry, Buffer
<1>3. NewEntry \in Entries
  BY <1>1, <1>2 DEF Entries, NewEntry, Optional
<1>4. QED
  BY <1>3 DEF Ranked, NewEntry

LEMMA HandleChanSeqTyped ==
  ASSUME NEW e \in Entries, NEW val \in Buffer
  PROVE  /\ HandleChanSeq(e, val).record \in Entries /\ HandleChanSeq(e, val).ok \in BOOLEAN
         /\ SameRank(e, HandleChanSeq(e, val).record)
<1> DEFINE size == EncodingSize(ReadU8(val, 1))
           stored == [ e EXCEPT !.sequence = Read(val, 6, size * ChanSeqLength) ]
<1>1. \/ HandleChanSeq(e, val) = Malformed(e)
      \/ /\ HandleChanSeq(e, val) = Done(stored)
         /\ size >= 1 /\ Fits(val, 6, size * ChanSeqLength)
  BY DEF HandleChanSeq
<1>2. CASE HandleChanSeq(e, val) = Malformed(e)
  BY <1>2 DEF Malformed, SameRank
<1>3. CASE /\ HandleChanSeq(e, val) = Done(stored)
           /\ size >= 1 /\ Fits(val, 6, size * ChanSeqLength)
  <2>1. size \in Nat /\ size * ChanSeqLength \in Nat
    <3>1. ChanSeqLength \in Nat
      BY Widths
    <3>2. size \in { 1, 2, -1 }
      BY DEF EncodingSize
    <3> HIDE DEF size
    <3>3. size = 1 \/ size = 2
      BY <1>3, <3>2
    <3>4. QED
      BY <3>1, <3>3
  <2> HIDE DEF size
  <2>2. Read(val, 6, size * ChanSeqLength) \in Buffer
    BY <1>3, <2>1, ReadBytes DEF Fits
  <2>3. ASSUME NEW b \in Buffer
        PROVE  [ e EXCEPT !.sequence = b ] \in Entries /\ SameRank(e, [ e EXCEPT !.sequence = b ])
    BY EntryNames DEF Entries, SameRank, RankFields
  <2>4. stored \in Entries /\ SameRank(e, stored)
    BY <2>2, <2>3
  <2> HIDE DEF stored
  <2>5. QED
    BY <1>3, <2>4 DEF Done
<1>4. QED
  BY <1>1, <1>2, <1>3

LEMMA HandleArpaTyped ==
  ASSUME NEW e \in Entries, NEW val \in Buffer
  PROVE  /\ HandleArpa(e, val).record \in Entries /\ HandleArpa(e, val).ok \in BOOLEAN
         /\ SameRank(e, HandleArpa(e, val).record)
<1> DEFINE room == NameRoom(ReadU8(val, 1))
<1>1. CASE Fits(val, 1, 1) /\ Fits(val, 2, room)
  <2>1. ReadU8(val, 1) \in Nat
    <3>1. 1 < Len(val)
      BY <1>1 DEF Fits, Buffer
    <3>2. QED
      BY <3>1, ByteRead
  <2>2. room \in Nat /\ room <= NameMax
    BY <2>1, Widths DEF NameRoom
  <2> HIDE DEF room
  <2>3. Read(val, 2, room) \in Buffer /\ Len(Read(val, 2, room)) <= NameMax
    BY <1>1, <2>2, ReadBytes DEF Fits
  <2>4. ASSUME NEW b \in Buffer, Len(b) <= NameMax
        PROVE  [ e EXCEPT !.name = b ] \in Entries /\ SameRank(e, [ e EXCEPT !.name = b ])
    BY <2>4, EntryNames DEF Entries, SameRank, RankFields
  <2>5. QED
    BY <1>1, <2>3, <2>4 DEF HandleArpa, Done, room
<1>2. CASE ~(Fits(val, 1, 1) /\ Fits(val, 2, room))
  BY <1>2 DEF HandleArpa, Malformed, SameRank
<1>3. QED
  BY <1>1, <1>2

LEMMA HandleVersionTyped ==
  ASSUME NEW e \in Entries, NEW val \in Buffer
  PROVE  /\ HandleVersion(e, val).record \in Entries /\ HandleVersion(e, val).ok \in BOOLEAN
         /\ SameRank(e, HandleVersion(e, val).record)
<1>1. CASE Fits(val, 0, 2)
  <2>1. Read(val, 0, 1) \in Buffer /\ Read(val, 1, 1) \in Buffer
    <3>1. 0 + 1 <= Len(val) /\ 1 + 1 <= Len(val)
      BY <1>1 DEF Fits, Buffer
    <3>2. QED
      BY <3>1, ReadBytes
  <2>2. ASSUME NEW b \in Buffer, NEW c \in Buffer
        PROVE  /\ [ e EXCEPT !.version = b, !.devclass = c ] \in Entries
               /\ SameRank(e, [ e EXCEPT !.version = b, !.devclass = c ])
    BY EntryNames DEF Entries, SameRank, RankFields
  <2>3. QED
    BY <1>1, <2>1, <2>2 DEF HandleVersion, Done
<1>2. CASE ~Fits(val, 0, 2)
  BY <1>2 DEF HandleVersion, Malformed, SameRank
<1>3. QED
  BY <1>1, <1>2

LEMMA HandleDataPathTyped ==
  ASSUME NEW e \in Entries, NEW val \in Buffer
  PROVE  /\ HandleDataPathState(e, val).record \in Entries
         /\ HandleDataPathState(e, val).ok \in BOOLEAN
         /\ SameRank(e, HandleDataPathState(e, val).record)
<1> DEFINE has(bit) == (ReadLE16(val, 0) \div bit) % 2 = 1
           behind(offset, bit, width) == IF has(bit) THEN offset + width ELSE offset
           country_code == behind(2, 256, 3)
           social_channels == behind(country_code, 512, 2)
           infra_bssid == behind(social_channels, 1, 8)
           infra_addr == behind(infra_bssid, 2, 6)
           apple_p2p_addr == behind(infra_addr, 4, 6)
           code == IF has(256) /\ country_code <= Len(val) THEN Read(val, 2, 3)
                   ELSE e.country_code
           addr == IF has(2) /\ infra_addr <= Len(val) THEN Read(val, infra_bssid, 6)
                   ELSE e.infra_addr
           stored == [ e EXCEPT !.country_code = code, !.infra_addr = addr ]
<1>1. \/ HandleDataPathState(e, val) = Malformed(e)
      \/ HandleDataPathState(e, val) = [ ok |-> apple_p2p_addr <= Len(val), record |-> stored ]
  BY Zenon DEF HandleDataPathState
<1>2. CASE HandleDataPathState(e, val) = Malformed(e)
  BY <1>2 DEF Malformed, SameRank
<1>3. CASE HandleDataPathState(e, val) =
             [ ok |-> apple_p2p_addr <= Len(val), record |-> stored ]
  <2>1. /\ has(256) => country_code = 2 + 3
        /\ has(2) => infra_addr = infra_bssid + 6
    OBVIOUS
  <2>2. infra_bssid \in Nat
    <3> DEFINE a == has(256)
               b == has(512)
               c == has(1)
    <3> HIDE DEF has, a, b, c
    <3>1. country_code \in Nat
      BY DEF has
    <3>2. social_channels \in Nat
      <4> HIDE DEF country_code
      <4>1. QED
        BY <3>1 DEF has
    <3>3. QED
      <4> HIDE DEF social_channels
      <4>1. QED
        BY <3>2 DEF has
  <2>3. apple_p2p_addr \in Nat /\ Len(val) \in Nat
    <3>1. infra_addr \in Nat
      <4> HIDE DEF infra_bssid, has
      <4>1. QED
        BY <2>2
    <3>2. apple_p2p_addr \in Nat
      <4> HIDE DEF infra_addr, has
      <4>1. QED
        BY <3>1
    <3>3. QED
      BY <3>2 DEF Buffer
  <2> HIDE DEF has, country_code, social_channels, infra_bssid, infra_addr, apple_p2p_addr
  <2>4. code \in Optional(3)
    <3>1. CASE has(256) /\ country_code <= Len(val)
      <4>1. Read(val, 2, 3) \in Block(3)
        <5>1. 2 + 3 <= Len(val)
          BY <2>1, <3>1
        <5>2. QED
          BY <5>1, ReadBlock
      <4>2. QED
        BY <3>1, <4>1 DEF Optional
    <3>2. CASE ~(has(256) /\ country_code <= Len(val))
      BY <3>2 DEF Entries
    <3>3. QED
      BY <3>1, <3>2
  <2>5. addr \in Optional(6)
    <3>1. CASE has(2) /\ infra_addr <= Len(val)
      <4>1. Read(val, infra_bssid, 6) \in Block(6)
        <5>1. infra_bssid + 6 <= Len(val)
          BY <2>1, <3>1
        <5>2. QED
          BY <2>2, <5>1, ReadBlock
      <4>2. QED
        BY <3>1, <4>1 DEF Optional
    <3>2. CASE ~(has(2) /\ infra_addr <= Len(val))
      BY <3>2 DEF Entries
    <3>3. QED
      BY <3>1, <3>2
  <2>6. ASSUME NEW x \in Optional(3), NEW y \in Optional(6)
        PROVE  /\ [ e EXCEPT !.country_code = x, !.infra_addr = y ] \in Entries
               /\ SameRank(e, [ e EXCEPT !.country_code = x, !.infra_addr = y ])
    <3>1. x \in Buffer /\ y \in Buffer
      BY NoBytes DEF Optional, Block
    <3>2. QED
      BY <3>1, EntryNames DEF Entries, SameRank, RankFields
  <2>7. stored \in Entries /\ SameRank(e, stored)
    <3> HIDE DEF code, addr
    <3>1. QED
      BY <2>4, <2>5, <2>6
  <2> HIDE DEF stored
  <2>8. (apple_p2p_addr <= Len(val)) \in BOOLEAN
    BY <2>3
  <2>9. QED
    BY <1>3, <2>7, <2>8
<1>4. QED
  BY <1>1, <1>2, <1>3

LEMMA FillEntry ==
  ASSUME NEW e \in Entries, NEW val \in Buffer, NEW reads, IsReads(reads),
         \A i \in DOMAIN reads :
           /\ reads[i][1] \in { "height", "master_addr", "sync_addr", "master_counter",
                                "master_metric", "self_metric", "self_counter" }
           /\ reads[i][1] \in { "master_addr", "sync_addr" } => reads[i][3] = 6
  PROVE  Fill(e, val, reads).record \in Entries /\ Fill(e, val, reads).ok \in BOOLEAN
<1> DEFINE D == DOMAIN NewEntry
           B == Buffer \cup BOOLEAN
           f == Fill(e, val, reads).record
<1>1. e \in [ D -> B ] /\ Buffer \subseteq B
  BY DEF Entries
<1>2. /\ Fill(e, val, reads).ok \in BOOLEAN
      /\ f \in [ D -> B ]
      /\ \A field \in D :
           \/ f[field] = e[field]
           \/ \E i \in DOMAIN reads : reads[i][1] = field /\ f[field] \in Block(reads[i][3])
  <2>1. Fillable(D, B, e, val, reads)
    BY <1>1 DEF Fillable
  <2> HIDE DEF D, B
  <2>2. QED
    BY <2>1, FillPart
<1> HIDE DEF f
<1>3. /\ f["known"] = e["known"] /\ f["supports_v2"] = e["supports_v2"]
      /\ f["name"] = e["name"] /\ f["country_code"] = e["country_code"]
      /\ f["infra_addr"] = e["infra_addr"]
  BY <1>2, EntryNames
<1>4. /\ f["master_addr"] = e["master_addr"] \/ f["master_addr"] \in Block(6)
      /\ f["sync_addr"] = e["sync_addr"] \/ f["sync_addr"] \in Block(6)
  BY <1>2, EntryNames
<1>5. f \in Entries
  BY <1>2, <1>3, <1>4 DEF Entries, Optional
<1>6. QED
  BY <1>2, <1>5 DEF f

V2Reads ==
  << << "height", 16, 4 >>, << "master_addr", 0, 6 >>, << "sync_addr", 6, 6 >>,
     << "master_counter", 12, 4 >>, << "master_metric", 20, 4 >>,
     << "self_metric", 24, 4 >>, << "self_counter", 36, 4 >> >>

LEMMA ReadsOfElection == IsReads(ElectionParamsReads) /\ IsReads(V2Reads) /\ IsReads(SyncReads)
BY DEF IsReads, ElectionParamsReads, V2Reads, SyncReads

LEMMA HandleElectionTyped ==
  ASSUME NEW e \in Entries, NEW val \in Buffer
  PROVE  /\ HandleElectionParams(e, val).record \in Entries
         /\ HandleElectionParams(e, val).ok \in BOOLEAN
         /\ HandleElectionParamsV2(e, val).record \in Entries
         /\ HandleElectionParamsV2(e, val).ok \in BOOLEAN
<1>1. /\ Fill(e, val, ElectionParamsReads).record \in Entries
      /\ Fill(e, val, ElectionParamsReads).ok \in BOOLEAN
  <2>1. \A i \in DOMAIN ElectionParamsReads :
          /\ ElectionParamsReads[i][1] \in
               { "height", "master_addr", "sync_addr", "master_counter",
                 "master_metric", "self_metric", "self_counter" }
          /\ ElectionParamsReads[i][1] \in { "master_addr", "sync_addr" } =>
               ElectionParamsReads[i][3] = 6
    BY DEF ElectionParamsReads
  <2>2. QED
    BY <2>1, ReadsOfElection, FillEntry
<1>2. Fill(e, val, V2Reads).record \in Entries /\ Fill(e, val, V2Reads).ok \in BOOLEAN
  <2>1. \A i \in DOMAIN V2Reads :
          /\ V2Reads[i][1] \in
               { "height", "master_addr", "sync_addr", "master_counter",
                 "master_metric", "self_metric", "self_counter" }
          /\ V2Reads[i][1] \in { "master_addr", "sync_addr" } => V2Reads[i][3] = 6
    BY DEF V2Reads
  <2>2. QED
    BY <2>1, ReadsOfElection, FillEntry
<1>3. /\ HandleElectionParams(e, val).record \in Entries
      /\ HandleElectionParams(e, val).ok \in BOOLEAN
  BY <1>1 DEF HandleElectionParams, Done
<1>4. /\ HandleElectionParamsV2(e, val).record \in Entries
      /\ HandleElectionParamsV2(e, val).ok \in BOOLEAN
  <2> DEFINE filled == Fill(e, val, V2Reads)
  <2>1. HandleElectionParamsV2(e, val) =
          [ filled EXCEPT !.record.supports_v2 = @ \/ filled.ok ]
    BY DEF HandleElectionParamsV2, V2Reads
  <2>2. filled = [ ok |-> filled.ok, record |-> filled.record ]
    BY DEF Fill
  <2> DEFINE f == filled.record
             b == f.supports_v2 \/ filled.ok
  <2>3. HandleElectionParamsV2(e, val) =
          [ ok |-> filled.ok, record |-> [ f EXCEPT !.supports_v2 = b ] ]
    <3> HIDE DEF filled
    <3>1. QED
      BY <2>1, <2>2
  <2>4. f \in Entries /\ b \in BOOLEAN
    BY <1>2 DEF Entries
  <2> HIDE DEF f, b
  <2>5. [ f EXCEPT !.supports_v2 = b ] \in Entries
    BY <2>4, EntryNames DEF Entries
  <2>6. QED
    BY <1>2, <2>3, <2>5
<1>5. QED
  BY <1>3, <1>4

(* The values that a sender writes, as the handlers read them.             *)
LEMMA ElectionV1Reads ==
  ASSUME NEW v \in Nat
  PROVE  /\ Len(ElectionV1(v)) = 21
         /\ Read(ElectionV1(v), 3, 1) = Field("distancetop", v, 1)
         /\ Read(ElectionV1(v), 5, 6) = Field("top_master_addr", v, 6)
         /\ Read(ElectionV1(v), 11, 4) = Field("top_master_metric", v, 4)
         /\ Read(ElectionV1(v), 15, 4) = Field("self_metric", v, 4)
<1>1. \A f \in Names : \A offset, width \in Nat :
        At(ElectionV1(v), offset, Field(f, v, width)) =>
          Read(ElectionV1(v), offset, width) = Field(f, v, width)
  <2>1. ElectionV1(v) \in Buffer
    BY ElectionV1Layout
  <2>2. QED
    BY <2>1, FieldBytes, AtRead
<1>2. /\ "distancetop" \in Names /\ "top_master_addr" \in Names
      /\ "top_master_metric" \in Names /\ "self_metric" \in Names
  BY FieldNames
<1>3. QED
  BY <1>1, <1>2, ElectionV1Layout

LEMMA ElectionV2Reads ==
  ASSUME NEW v \in Nat
  PROVE  /\ Len(ElectionV2(v)) = 40
         /\ Read(ElectionV2(v), 0, 6) = Field("master_addr", v, 6)
         /\ Read(ElectionV2(v), 6, 6) = Field("sync_addr", v, 6)
         /\ Read(ElectionV2(v), 12, 4) = Field("master_counter", v, 4)
         /\ Read(ElectionV2(v), 16, 4) = Field("distance_to_master", v, 4)
         /\ Read(ElectionV2(v), 20, 4) = Field("master_metric", v, 4)
         /\ Read(ElectionV2(v), 24, 4) = Field("self_metric", v, 4)
         /\ Read(ElectionV2(v), 36, 4) = Field("self_counter", v, 4)
<1>1. \A f \in Names : \A offset, width \in Nat :
        At(ElectionV2(v), offset, Field(f, v, width)) =>
          Read(ElectionV2(v), offset, width) = Field(f, v, width)
  <2>1. ElectionV2(v) \in Buffer
    BY ElectionV2Layout
  <2>2. QED
    BY <2>1, FieldBytes, AtRead
<1>2. /\ "master_addr" \in Names /\ "sync_addr" \in Names /\ "master_counter" \in Names
      /\ "distance_to_master" \in Names /\ "master_metric" \in Names
      /\ "self_metric" \in Names /\ "self_counter" \in Names
  BY FieldNames
<1>3. QED
  BY <1>1, <1>2, ElectionV2Layout

(* What the first version of the election says is stored unless the second *)
(* is known.                                                               *)
LEMMA ElectionV1Stored ==
  ASSUME NEW e, DOMAIN e = DOMAIN NewEntry, NEW v \in Nat, ~e.supports_v2
  PROVE  /\ HandleElectionParams(e, ElectionV1(v)).ok
         /\ LET f == HandleElectionParams(e, ElectionV1(v)).record
            IN  /\ Shows(f, AnnouncedV1, v)
                /\ \A field \in DOMAIN NewEntry :
                     field \notin { "height", "master_addr", "master_metric", "self_metric" } =>
                       f[field] = e[field]
<1> DEFINE val == ElectionV1(v)
           D == DOMAIN NewEntry
           reads == ElectionParamsReads
           f == Fill(e, val, reads).record
<1>1. /\ reads[1] = << "height", 3, 1 >> /\ reads[2] = << "master_addr", 5, 6 >>
      /\ reads[3] = << "master_metric", 11, 4 >> /\ reads[4] = << "self_metric", 15, 4 >>
      /\ DOMAIN reads = 1 .. 4
  BY DEF ElectionParamsReads
<1>2. /\ IsReads(reads)
      /\ \A i \in DOMAIN reads : 1 .. i \subseteq DOMAIN reads
      /\ \A i \in DOMAIN reads : Fits(val, reads[i][2], reads[i][3])
  <2>1. Len(val) = 21
    BY ElectionV1Reads
  <2> HIDE DEF val
  <2>2. \A i \in 1 .. 4 : Fits(val, reads[i][2], reads[i][3])
    BY <1>1, <2>1 DEF Fits
  <2> HIDE DEF reads
  <2>3. QED
    BY <1>1, <2>2, ReadsOfElection DEF reads
<1>3. /\ Fill(e, val, reads).ok
      /\ \A i \in DOMAIN reads :
           ( /\ reads[i][1] \in D
             /\ \A j \in DOMAIN reads : reads[j][1] = reads[i][1] => j = i ) =>
             f[reads[i][1]] = Read(val, reads[i][2], reads[i][3])
      /\ \A field \in D : (\A i \in DOMAIN reads : reads[i][1] # field) =>
           f[field] = e[field]
  <2>1. Whole(D, e, val, reads)
    BY <1>2 DEF Whole
  <2> HIDE DEF D, val, reads
  <2>2. QED
    BY <2>1, FillWhole
<1>4. /\ f["height"] = Read(val, 3, 1) /\ f["master_addr"] = Read(val, 5, 6)
      /\ f["master_metric"] = Read(val, 11, 4) /\ f["self_metric"] = Read(val, 15, 4)
  <2> HIDE DEF f, val, reads
  <2>1. \A i \in 1 .. 4 : reads[i][1] \in D
    BY <1>1, EntryNames
  <2>2. \A i, j \in 1 .. 4 : reads[j][1] = reads[i][1] => j = i
    BY <1>1
  <2>3. \A i \in 1 .. 4 : f[reads[i][1]] = Read(val, reads[i][2], reads[i][3])
    BY <1>1, <1>3, <2>1, <2>2
  <2>4. /\ f[reads[1][1]] = Read(val, reads[1][2], reads[1][3])
        /\ f[reads[2][1]] = Read(val, reads[2][2], reads[2][3])
        /\ f[reads[3][1]] = Read(val, reads[3][2], reads[3][3])
        /\ f[reads[4][1]] = Read(val, reads[4][2], reads[4][3])
    BY <2>3
  <2>5. QED
    BY <1>1, <2>4
<1>5. \A field \in D :
        field \notin { "height", "master_addr", "master_metric", "self_metric" } =>
          f[field] = e[field]
  <2> HIDE DEF f, val, reads, D
  <2>1. QED
    BY <1>1, <1>3
<1>6. HandleElectionParams(e, val) = Fill(e, val, reads)
  BY DEF HandleElectionParams
<1>7. Shows(f, AnnouncedV1, v)
  <2>1. /\ f["height"] = Field("distancetop", v, 1)
        /\ f["master_addr"] = Field("top_master_addr", v, 6)
        /\ f["master_metric"] = Field("top_master_metric", v, 4)
        /\ f["self_metric"] = Field("self_metric", v, 4)
    BY <1>4, ElectionV1Reads
  <2> HIDE DEF f, val, reads
  <2>2. QED
    BY <2>1 DEF Shows, AnnouncedV1
<1> HIDE DEF val, reads
<1>8. QED
  BY <1>3, <1>5, <1>6, <1>7 DEF val

LEMMA ElectionV2Stored ==
  ASSUME NEW e, DOMAIN e = DOMAIN NewEntry, NEW v \in Nat
  PROVE  /\ HandleElectionParamsV2(e, ElectionV2(v)).ok
         /\ LET f == HandleElectionParamsV2(e, ElectionV2(v)).record
            IN  /\ f.supports_v2
                /\ Shows(f, AnnouncedV2, v)
                /\ \A field \in DOMAIN NewEntry :
                     field \notin RankFields => f[field] = e[field]
<1> DEFINE val == ElectionV2(v)
           D == DOMAIN NewEntry
           reads == V2Reads
           f == Fill(e, val, reads).record
           g == [ f EXCEPT !.supports_v2 = TRUE ]
<1>1. /\ reads[1] = << "height", 16, 4 >> /\ reads[2] = << "master_addr", 0, 6 >>
      /\ reads[3] = << "sync_addr", 6, 6 >> /\ reads[4] = << "master_counter", 12, 4 >>
      /\ reads[5] = << "master_metric", 20, 4 >> /\ reads[6] = << "self_metric", 24, 4 >>
      /\ reads[7] = << "self_counter", 36, 4 >>
      /\ DOMAIN reads = 1 .. 7
  BY DEF V2Reads
<1>2. /\ IsReads(reads)
      /\ \A i \in DOMAIN reads : 1 .. i \subseteq DOMAIN reads
      /\ \A i \in DOMAIN reads : Fits(val, reads[i][2], reads[i][3])
  <2>1. Len(val) = 40
    BY ElectionV2Reads
  <2> HIDE DEF val
  <2>2. \A i \in 1 .. 7 : Fits(val, reads[i][2], reads[i][3])
    BY <1>1, <2>1 DEF Fits
  <2> HIDE DEF reads
  <2>3. QED
    BY <1>1, <2>2, ReadsOfElection DEF reads
<1>3. /\ Fill(e, val, reads).ok /\ DOMAIN f = D
      /\ \A i \in DOMAIN reads :
           ( /\ reads[i][1] \in D
             /\ \A j \in DOMAIN reads : reads[j][1] = reads[i][1] => j = i ) =>
             f[reads[i][1]] = Read(val, reads[i][2], reads[i][3])
      /\ \A field \in D : (\A i \in DOMAIN reads : reads[i][1] # field) =>
           f[field] = e[field]
  <2>1. Whole(D, e, val, reads)
    BY <1>2 DEF Whole
  <2> HIDE DEF D, val, reads
  <2>2. QED
    BY <2>1, FillWhole
<1>4. /\ f["height"] = Read(val, 16, 4) /\ f["master_addr"] = Read(val, 0, 6)
      /\ f["sync_addr"] = Read(val, 6, 6) /\ f["master_counter"] = Read(val, 12, 4)
      /\ f["master_metric"] = Read(val, 20, 4) /\ f["self_metric"] = Read(val, 24, 4)
      /\ f["self_counter"] = Read(val, 36, 4)
  <2> HIDE DEF f, val, reads
  <2>1. \A i \in 1 .. 7 : reads[i][1] \in D
    BY <1>1, EntryNames
  <2>2. \A i, j \in 1 .. 7 : reads[j][1] = reads[i][1] => j = i
    BY <1>1
  <2>3. \A i \in 1 .. 7 : f[reads[i][1]] = Read(val, reads[i][2], reads[i][3])
    BY <1>1, <1>3, <2>1, <2>2
  <2>4. /\ f[reads[1][1]] = Read(val, reads[1][2], reads[1][3])
        /\ f[reads[2][1]] = Read(val, reads[2][2], reads[2][3])
        /\ f[reads[3][1]] = Read(val, reads[3][2], reads[3][3])
        /\ f[reads[4][1]] = Read(val, reads[4][2], reads[4][3])
        /\ f[reads[5][1]] = Read(val, reads[5][2], reads[5][3])
        /\ f[reads[6][1]] = Read(val, reads[6][2], reads[6][3])
        /\ f[reads[7][1]] = Read(val, reads[7][2], reads[7][3])
    BY <2>3
  <2>5. QED
    BY <1>1, <2>4
<1>5. \A field \in D : field \notin RankFields => f[field] = e[field]
  <2> HIDE DEF f, val, reads, D
  <2>1. QED
    BY <1>1, <1>3 DEF RankFields
<1>6. HandleElectionParamsV2(e, val) = [ ok |-> TRUE, record |-> g ]
  <2> DEFINE filled == Fill(e, val, V2Reads)
  <2>1. HandleElectionParamsV2(e, val) =
          [ filled EXCEPT !.record.supports_v2 = @ \/ filled.ok ]
    BY DEF HandleElectionParamsV2, V2Reads
  <2>2. filled = [ ok |-> TRUE, record |-> f ]
    <3>1. filled = [ ok |-> filled.ok, record |-> filled.record ] /\ filled.ok \in BOOLEAN
      BY DEF Fill
    <3> HIDE DEF filled
    <3>2. QED
      BY <1>3, <3>1 DEF filled
  <2> HIDE DEF filled, f
  <2>3. QED
    BY <2>1, <2>2
<1>7. Shows(g, AnnouncedV2, v)
  <2>1. /\ f["height"] = Field("distance_to_master", v, 4)
        /\ f["master_addr"] = Field("master_addr", v, 6)
        /\ f["sync_addr"] = Field("sync_addr", v, 6)
        /\ f["master_counter"] = Field("master_counter", v, 4)
        /\ f["master_metric"] = Field("master_metric", v, 4)
        /\ f["self_metric"] = Field("self_metric", v, 4)
        /\ f["self_counter"] = Field("self_counter", v, 4)
    BY <1>4, ElectionV2Reads
  <2> HIDE DEF f, val, reads
  <2>2. /\ g["height"] = Field("distance_to_master", v, 4)
        /\ g["master_addr"] = Field("master_addr", v, 6)
        /\ g["sync_addr"] = Field("sync_addr", v, 6)
        /\ g["master_counter"] = Field("master_counter", v, 4)
        /\ g["master_metric"] = Field("master_metric", v, 4)
        /\ g["self_metric"] = Field("self_metric", v, 4)
        /\ g["self_counter"] = Field("self_counter", v, 4)
    BY <2>1
  <2> HIDE DEF g
  <2>3. QED
    BY <2>2 DEF Shows, AnnouncedV2
<1>8. g.supports_v2
  <2> HIDE DEF f
  <2>1. QED
    BY <1>3, EntryNames
<1>9. \A field \in D : field \notin RankFields => g[field] = e[field]
  <2> HIDE DEF f
  <2>1. QED
    BY <1>3, <1>5 DEF RankFields
<1> HIDE DEF val, reads, g
<1>10. QED
  BY <1>6, <1>7, <1>8, <1>9 DEF val

(* The handlers keep the ranks of an entry those of one announcement, if   *)
(* the TLV is of an announcement.                                          *)
LEMMA ElectionKeepsRank ==
  ASSUME NEW e \in Entries, Ranked(e), NEW v \in 1 .. MaxVersion
  PROVE  /\ Ranked(HandleElectionParams(e, ElectionV1(v)).record)
         /\ Ranked(HandleElectionParamsV2(e, ElectionV2(v)).record)
<1>1. DOMAIN e = DOMAIN NewEntry /\ v \in Nat
  BY Widths DEF Entries
<1>2. ASSUME e.supports_v2
      PROVE  Ranked(HandleElectionParams(e, ElectionV1(v)).record)
  BY <1>2 DEF HandleElectionParams, Done
<1>3. ASSUME ~e.supports_v2
      PROVE  Ranked(HandleElectionParams(e, ElectionV1(v)).record)
  <2> DEFINE f == HandleElectionParams(e, ElectionV1(v)).record
  <2>1. /\ Shows(f, AnnouncedV1, v)
        /\ \A field \in DOMAIN NewEntry :
             field \notin { "height", "master_addr", "master_metric", "self_metric" } =>
               f[field] = e[field]
    BY <1>1, <1>3, ElectionV1Stored
  <2> HIDE DEF f
  <2>2. /\ f.supports_v2 = e.supports_v2 /\ f.sync_addr = e.sync_addr
        /\ f.master_counter = e.master_counter /\ f.self_counter = e.self_counter
    BY <2>1, EntryNames
  <2>3. /\ e.sync_addr = << >> /\ e.master_counter = << >> /\ e.self_counter = << >>
    BY <1>3 DEF Ranked
  <2>4. Ranked(f)
    BY <1>3, <2>1, <2>2, <2>3 DEF Ranked
  <2>5. QED
    BY <2>4 DEF f
<1>4. Ranked(HandleElectionParamsV2(e, ElectionV2(v)).record)
  <2> DEFINE f == HandleElectionParamsV2(e, ElectionV2(v)).record
  <2>1. f.supports_v2 /\ Shows(f, AnnouncedV2, v)
    BY <1>1, ElectionV2Stored
  <2> HIDE DEF f
  <2>2. Ranked(f)
    BY <2>1 DEF Ranked
  <2>3. QED
    BY <2>2 DEF f
<1>5. Ranked(HandleElectionParams(e, ElectionV1(v)).record)
  BY <1>2, <1>3
<1>6. QED
  BY <1>4, <1>5

LEMMA HandleTlvTyped ==
  ASSUME NEW e \in Entries, NEW type \in Nat, NEW val \in Buffer
  PROVE  HandleTlv(e, type, val).record \in Entries /\ HandleTlv(e, type, val).ok \in BOOLEAN
<1> DEFINE out == HandleTlv(e, type, val)
<1> USE DEF ChanSeqType, ElectionType, ElectionV2Type, ArpaType, DataPathType, VersionType
<1>1. CASE type = ChanSeqType
  <2>1. out = HandleChanSeq(e, val)
    BY <1>1 DEF HandleTlv
  <2>2. QED
    BY <2>1, HandleChanSeqTyped
<1>2. CASE type = ElectionType
  <2>1. out = HandleElectionParams(e, val)
    BY <1>2 DEF HandleTlv
  <2>2. QED
    BY <2>1, HandleElectionTyped
<1>3. CASE type = ElectionV2Type
  <2>1. out = HandleElectionParamsV2(e, val)
    BY <1>3 DEF HandleTlv
  <2>2. QED
    BY <2>1, HandleElectionTyped
<1>4. CASE type = ArpaType
  <2>1. out = HandleArpa(e, val)
    BY <1>4 DEF HandleTlv
  <2>2. QED
    BY <2>1, HandleArpaTyped
<1>5. CASE type = DataPathType
  <2>1. out = HandleDataPathState(e, val)
    BY <1>5 DEF HandleTlv
  <2>2. QED
    BY <2>1, HandleDataPathTyped
<1>6. CASE type = VersionType
  <2>1. out = HandleVersion(e, val)
    BY <1>6 DEF HandleTlv
  <2>2. QED
    BY <2>1, HandleVersionTyped
<1>7. CASE type \notin { 18, 5, 24, 16, 12, 21 }
  <2>1. out = Done(e)
    BY <1>7 DEF HandleTlv
  <2>2. QED
    BY <2>1 DEF Done
<1>8. QED
  BY <1>1, <1>2, <1>3, <1>4, <1>5, <1>6, <1>7

(* Of the TLVs of an announcement, those of the election rank its sender.  *)
LEMMA HandleTlvRanked ==
  ASSUME NEW e \in Entries, Ranked(e), NEW v \in 1 .. MaxVersion, NEW tlv \in Honest(v)
  PROVE  Ranked(HandleTlv(e, tlv[1], tlv[2]).record)
<1> DEFINE type == tlv[1]
           val == tlv[2]
           out == HandleTlv(e, type, val)
<1>1. type \in Nat /\ val \in Buffer
  BY DEF Honest, Tlvs
<1>2. /\ type = ElectionType => val = ElectionV1(v)
      /\ type = ElectionV2Type => val = ElectionV2(v)
  BY DEF Honest
<1> HIDE DEF type, val
<1> USE DEF ChanSeqType, ElectionType, ElectionV2Type, ArpaType, DataPathType, VersionType
<1>3. \A f : SameRank(e, f) => Ranked(f)
  BY SameRankRanked
<1>4. CASE type = ChanSeqType
  <2>1. out = HandleChanSeq(e, val)
    BY <1>4 DEF HandleTlv
  <2>2. QED
    BY <1>1, <1>3, <2>1, HandleChanSeqTyped DEF type, val
<1>5. CASE type = ElectionType
  <2>1. out = HandleElectionParams(e, ElectionV1(v))
    BY <1>2, <1>5 DEF HandleTlv
  <2>2. QED
    BY <2>1, ElectionKeepsRank DEF type, val
<1>6. CASE type = ElectionV2Type
  <2>1. out = HandleElectionParamsV2(e, ElectionV2(v))
    BY <1>2, <1>6 DEF HandleTlv
  <2>2. QED
    BY <2>1, ElectionKeepsRank DEF type, val
<1>7. CASE type = ArpaType
  <2>1. out = HandleArpa(e, val)
    BY <1>7 DEF HandleTlv
  <2>2. QED
    BY <1>1, <1>3, <2>1, HandleArpaTyped DEF type, val
<1>8. CASE type = DataPathType
  <2>1. out = HandleDataPathState(e, val)
    BY <1>8 DEF HandleTlv
  <2>2. QED
    BY <1>1, <1>3, <2>1, HandleDataPathTyped DEF type, val
<1>9. CASE type = VersionType
  <2>1. out = HandleVersion(e, val)
    BY <1>9 DEF HandleTlv
  <2>2. QED
    BY <1>1, <1>3, <2>1, HandleVersionTyped DEF type, val
<1>10. CASE type \notin { 18, 5, 24, 16, 12, 21 }
  <2>1. out = Done(e)
    BY <1>10 DEF HandleTlv
  <2>2. QED
    BY <2>1 DEF Done, type, val
<1>11. QED
  BY <1>4, <1>5, <1>6, <1>7, <1>8, <1>9, <1>10
-----------------------------------------------------------------------------
(* The loop over the TLVs of an action frame.                              *)

Progress == [ entry : Entries, clock : Clocks, failed : BOOLEAN ]
RankedProgress == { s \in Progress : Ranked(s.entry) }

LEMMA SyncTyped ==
  ASSUME NEW c \in Clocks, NEW val \in Buffer
  PROVE  Fill(c, val, SyncReads).record \in Clocks /\ Fill(c, val, SyncReads).ok \in BOOLEAN
<1> DEFINE D == DOMAIN NoClock
<1>1. Fillable(D, Buffer, c, val, SyncReads)
  BY ReadsOfElection DEF Fillable, Clocks
<1> HIDE DEF D
<1>2. /\ Fill(c, val, SyncReads).record \in [ D -> Buffer ]
      /\ Fill(c, val, SyncReads).ok \in BOOLEAN
  BY <1>1, FillPart
<1>3. QED
  BY <1>2 DEF Clocks, D

LEMMA HandleNextTyped ==
  ASSUME NEW s \in Progress, NEW tlv \in Tlvs
  PROVE  /\ HandleNext(s, tlv) \in Progress
         /\ \A v \in 1 .. MaxVersion :
              Ranked(s.entry) /\ tlv \in Honest(v) => Ranked(HandleNext(s, tlv).entry)
<1>1. CASE s.failed
  BY <1>1 DEF HandleNext
<1>2. CASE ~s.failed /\ tlv[1] = SyncType
  <2> DEFINE synced == Fill(s.clock, tlv[2], SyncReads)
  <2>1. synced.record \in Clocks
    BY SyncTyped DEF Progress, Tlvs
  <2> HIDE DEF synced
  <2>2. HandleNext(s, tlv) \in { s, [ s EXCEPT !.clock = synced.record ],
                                 [ s EXCEPT !.failed = TRUE ] }
    BY <1>2 DEF HandleNext, synced
  <2>3. /\ [ s EXCEPT !.clock = synced.record ] \in Progress
        /\ [ s EXCEPT !.clock = synced.record ].entry = s.entry
        /\ [ s EXCEPT !.failed = TRUE ] \in Progress
        /\ [ s EXCEPT !.failed = TRUE ].entry = s.entry
    BY <2>1 DEF Progress
  <2>4. HandleNext(s, tlv) \in Progress /\ HandleNext(s, tlv).entry = s.entry
    BY <2>2, <2>3
  <2>5. QED
    BY <2>4
<1>3. CASE ~s.failed /\ tlv[1] # SyncType
  <2> DEFINE handled == HandleTlv(s.entry, tlv[1], tlv[2])
  <2>1. s.entry \in Entries /\ tlv[1] \in Nat /\ tlv[2] \in Buffer
    BY DEF Progress, Tlvs
  <2>2. handled.record \in Entries /\ handled.ok \in BOOLEAN
    BY <2>1, HandleTlvTyped
  <2>3. \A v \in 1 .. MaxVersion :
          Ranked(s.entry) /\ tlv \in Honest(v) => Ranked(handled.record)
    BY <2>1, HandleTlvRanked
  <2> HIDE DEF handled
  <2>4. HandleNext(s, tlv) =
          [ s EXCEPT !.entry = handled.record, !.failed = ~handled.ok ]
    BY <1>3 DEF HandleNext, handled
  <2>5. HandleNext(s, tlv) \in Progress /\ HandleNext(s, tlv).entry = handled.record
    BY <2>2, <2>4 DEF Progress
  <2>6. QED
    BY <2>3, <2>5
<1>4. QED
  BY <1>1, <1>2, <1>3

(* The result of the loop is in every set that its turns do not leave.     *)
After(tlvs, start) ==
  LET after[n \in 0 .. Len(tlvs)] ==
        IF n = 0 THEN start ELSE HandleNext(after[n - 1], tlvs[n])
  IN  after[Len(tlvs)]

Closed(tlvs, T, start, S) ==
  /\ tlvs \in Seq(T) /\ start \in S
  /\ \A s \in S, tlv \in T : HandleNext(s, tlv) \in S

LEMMA AfterClosed ==
  ASSUME NEW tlvs, NEW T, NEW start, NEW S, Closed(tlvs, T, start, S)
  PROVE  After(tlvs, start) \in S
<1> DEFINE N == Len(tlvs)
           Step(f) ==
             [ n \in 0 .. N |-> IF n = 0 THEN start ELSE HandleNext(f[n - 1], tlvs[n]) ]
           after == CHOOSE f : f = Step(f)
<1>1. After(tlvs, start) = after[N]
  BY DEF After
<1>2. N \in Nat /\ \A n \in 1 .. N : tlvs[n] \in T
  BY DEF Closed
<1>3. start \in S /\ \A s \in S, tlv \in T : HandleNext(s, tlv) \in S
  BY DEF Closed
<1> HIDE DEF N
<1>4. \E f : f = Step(f)
  <2> DEFINE join == [ p \in (1 .. N) \X S |-> HandleNext(p[2], tlvs[p[1]]) ]
  <2>1. join \in [ (1 .. N) \X S -> S ]
    <3>1. \A p \in (1 .. N) \X S : HandleNext(p[2], tlvs[p[1]]) \in S
      BY <1>2, <1>3
    <3>2. QED
      BY <3>1
  <2>2. Count(N, S, start, join)
    BY <1>2, <1>3, <2>1 DEF Count
  <2>3. PICK g : Counts(g, N, S, start, join)
    <3> HIDE DEF join
    <3>1. QED
      BY <2>2, CountHasResult
  <2>4. g \in [ 0 .. N -> S ] /\ g[0] = start
    BY <2>3 DEF Counts
  <2>5. ASSUME NEW n \in 1 .. N PROVE g[n] = HandleNext(g[n - 1], tlvs[n])
    <3>1. n - 1 \in 0 .. N /\ n \in 0 .. N
      BY <1>2
    <3>2. g[n] = join[<< n, g[n - 1] >>]
      BY <2>3 DEF Counts
    <3>3. << n, g[n - 1] >> \in (1 .. N) \X S
      BY <2>4, <3>1
    <3>4. QED
      BY <3>2, <3>3
  <2>6. g = Step(g)
    <3>1. \A n \in 0 .. N : g[n] = IF n = 0 THEN start ELSE HandleNext(g[n - 1], tlvs[n])
      <4>1. \A n \in 0 .. N : n # 0 => n \in 1 .. N
        BY <1>2
      <4>2. QED
        BY <2>4, <2>5, <4>1
    <3>2. g = [ n \in 0 .. N |-> g[n] ]
      BY <2>4
    <3>3. QED
      BY <3>1, <3>2
  <2>7. QED
    BY <2>6
<1>5. after = Step(after)
  <2> HIDE DEF Step
  <2>1. QED
    BY <1>4
<1> HIDE DEF after
<1>6. after[0] \in S
  <2>1. 0 \in 0 .. N
    BY <1>2
  <2>2. after[0] = start
    BY <1>5, <2>1
  <2>3. QED
    BY <1>3, <2>2
<1>7. ASSUME NEW n \in 1 .. N, after[n - 1] \in S PROVE after[n] \in S
  <2>1. n \in 0 .. N /\ n # 0
    BY <1>2
  <2>2. after[n] = HandleNext(after[n - 1], tlvs[n])
    BY <1>5, <2>1
  <2>3. QED
    BY <1>2, <1>3, <1>7, <2>2
<1>8. \A n \in 0 .. N : after[n] \in S
  BY <1>2, <1>6, <1>7, CountPreserves
<1>9. QED
  BY <1>1, <1>2, <1>8
-----------------------------------------------------------------------------
(* What the handlers of the frames leave.                                  *)

LEMMA KnownPeers ==
  /\ \A e \in Entries : e.known = TRUE
  /\ NoEntry.known = FALSE
  /\ \A e \in Peers : e.known \in BOOLEAN /\ (e.known => e \in Entries)
<1>1. \A e \in Entries : e.known = TRUE
  BY DEF Entries
<1>2. NoEntry.known = FALSE
  BY DEF NoEntry
<1>3. QED
  BY <1>1, <1>2, Zenon DEF Peers

LEMMA OutcomeTyped ==
  ASSUME Typed, NEW r \in Results
  PROVE  Outcome(r) \in Outcomes /\ Outcome(r).entry = entry
BY DEF Outcome, Outcomes, Typed

(* The flag that a master indication has been seen changes no rank.        *)
LEMMA SentMifTyped ==
  ASSUME NEW e \in Entries, NEW b \in BOOLEAN
  PROVE  /\ [ e EXCEPT !.sent_mif = @ \/ b ] \in Entries
         /\ SameRank(e, [ e EXCEPT !.sent_mif = @ \/ b ])
<1> DEFINE flag == e.sent_mif \/ b
           f == [ e EXCEPT !.sent_mif = @ \/ b ]
<1>1. flag \in BOOLEAN
  OBVIOUS
<1>2. e \in [ DOMAIN NewEntry -> Buffer \cup BOOLEAN ]
  BY DEF Entries
<1>3. f = [ e EXCEPT !["sent_mif"] = flag ]
  OBVIOUS
<1> HIDE DEF flag, f
<1>4. f \in [ DOMAIN NewEntry -> Buffer \cup BOOLEAN ]
  BY <1>1, <1>2, <1>3
<1>5. \A field \in DOMAIN NewEntry : field # "sent_mif" => f[field] = e[field]
  BY <1>2, <1>3
<1>6. /\ f["known"] = e["known"] /\ f["supports_v2"] = e["supports_v2"]
      /\ f["name"] = e["name"] /\ f["master_addr"] = e["master_addr"]
      /\ f["sync_addr"] = e["sync_addr"] /\ f["country_code"] = e["country_code"]
      /\ f["infra_addr"] = e["infra_addr"]
  BY <1>5, EntryNames
<1>7. f \in Entries
  BY <1>4, <1>6 DEF Entries
<1>8. SameRank(e, f)
  BY <1>5, EntryNames DEF SameRank, RankFields
<1>9. QED
  BY <1>7, <1>8 DEF f

LEMMA RxActionTyped ==
  ASSUME Typed, NEW frame \in Buffer, NEW rssi, NEW memory
  PROVE  /\ RxAction(frame, rssi, memory) \in Outcomes
         /\ entry.known => RxAction(frame, rssi, memory).entry.known
         /\ \A v \in 1 .. MaxVersion :
              /\ RankedIfKnown(entry)
              /\ IsAnnouncement(frame) => ReadTlvs(frame, 16).tlvs \in Seq(Honest(v))
              => RankedIfKnown(RxAction(frame, rssi, memory).entry)
<1> DEFINE parsed == ReadTlvs(frame, 16)
           known == IF entry.known THEN entry ELSE NewEntry
           start == [ entry |-> known, clock |-> clock, failed |-> FALSE ]
           end == After(parsed.tlvs, start)
           ok == ~end.failed /\ parsed.left = 0
           mif == ok /\ ReadU8(frame, 6) = Mif
           completed == [ end.entry EXCEPT !.sent_mif = @ \/ mif ]
           out == RxAction(frame, rssi, memory)
           used == [ entry |-> completed, clock |-> end.clock, out |-> << >>,
                     result |-> IF ok THEN RxOk ELSE RxUnexpectedFormat ]
<1>1. \/ out \in { Outcome(RxIgnore), Outcome(RxIgnoreRssi) }
      \/ IsAnnouncement(frame) /\ out = used
  BY Zenon DEF RxAction, After
<1>2. CASE out \in { Outcome(RxIgnore), Outcome(RxIgnoreRssi) }
  <2>1. RxIgnore \in Results /\ RxIgnoreRssi \in Results
    BY DEF Results
  <2>2. out \in Outcomes /\ out.entry = entry
    BY <1>2, <2>1, OutcomeTyped
  <2>3. QED
    BY <2>2
<1>3. CASE IsAnnouncement(frame) /\ out = used
  <2>1. 16 \in 0 .. Len(frame)
    BY <1>3 DEF IsAnnouncement, Fits, Buffer
  <2>2. parsed.tlvs \in Seq(Tlvs)
    BY <2>1, ReadTlvsRecord
  <2>3. known \in Entries
    BY KnownPeers, NewEntryTyped DEF Typed
  <2>4. RankedIfKnown(entry) => Ranked(known)
    BY NewEntryTyped DEF RankedIfKnown
  <2> HIDE DEF known, parsed
  <2>5. start \in Progress
    BY <2>3 DEF Progress, Typed
  <2>6. start.entry = known
    OBVIOUS
  <2> HIDE DEF start
  <2>7. end \in Progress
    <3>1. \A s \in Progress, tlv \in Tlvs : HandleNext(s, tlv) \in Progress
      BY HandleNextTyped
    <3>2. Closed(parsed.tlvs, Tlvs, start, Progress)
      BY <2>2, <2>5, <3>1 DEF Closed
    <3>3. QED
      BY <3>2, AfterClosed
  <2>8. ASSUME NEW v \in 1 .. MaxVersion, RankedIfKnown(entry), parsed.tlvs \in Seq(Honest(v))
        PROVE  Ranked(end.entry)
    <3>1. start \in RankedProgress
      BY <2>4, <2>5, <2>6, <2>8 DEF RankedProgress
    <3>2. \A s \in RankedProgress, tlv \in Honest(v) : HandleNext(s, tlv) \in RankedProgress
      BY HandleNextTyped DEF RankedProgress, Honest
    <3>3. Closed(parsed.tlvs, Honest(v), start, RankedProgress)
      BY <2>8, <3>1, <3>2 DEF Closed
    <3>4. end \in RankedProgress
      BY <3>3, AfterClosed
    <3>5. QED
      BY <3>4 DEF RankedProgress
  <2>9. mif \in BOOLEAN /\ end.entry \in Entries /\ end.clock \in Clocks
    BY <2>7 DEF Progress
  <2> HIDE DEF end, mif, ok
  <2>10. completed \in Entries /\ SameRank(end.entry, completed)
    BY <2>9, SentMifTyped
  <2> HIDE DEF completed
  <2>11. used \in Outcomes /\ used.entry = completed
    <3>1. << >> \in Seq(Block(EtherMaxLen))
      OBVIOUS
    <3>2. RxOk \in Results /\ RxUnexpectedFormat \in Results
      BY DEF Results
    <3>3. completed \in Peers
      BY <2>10 DEF Peers
    <3>4. QED
      BY <2>9, <3>1, <3>2, <3>3 DEF Outcomes
  <2>12. (Ranked(end.entry) => Ranked(completed)) /\ completed.known = TRUE
    BY <2>10, SameRankRanked, KnownPeers
  <2> HIDE DEF used
  <2>13. QED
    BY <1>3, <2>8, <2>11, <2>12 DEF RankedIfKnown, parsed
<1>4. QED
  BY <1>1, <1>2, <1>3

(* What is delivered has the length of the buffer.                         *)
LEMMA DeliveryTyped ==
  ASSUME NEW dst \in Block(6), NEW src \in Block(6), NEW data \in Buffer, Len(data) >= 8
  PROVE  Delivery(dst, src, data) \in Block(EtherMaxLen)
<1> DEFINE head == dst \o src \o Read(data, 6, 2)
           payload == Strip(data, 8)
           written == IF Len(head) + Len(payload) <= EtherMaxLen THEN head \o payload ELSE head
<1>1. head \in Block(14)
  <2>1. Read(data, 6, 2) \in Block(2)
    BY ReadBlock
  <2>2. dst \o src \in Block(12)
    BY ConcatBlock
  <2>3. QED
    BY <2>1, <2>2, ConcatBlock
<1>2. payload \in Buffer
  BY StripBytes DEF Buffer
<1>3. Delivery(dst, src, data) = written \o Field("memory", 0, EtherMaxLen - Len(written))
  BY DEF Delivery
<1> HIDE DEF head, payload
<1>4. written \in Buffer /\ Len(written) <= EtherMaxLen
  <2>1. /\ head \in Buffer /\ Len(head) = 14
        /\ head \o payload \in Buffer /\ Len(head \o payload) = Len(head) + Len(payload)
    BY <1>1, <1>2, ConcatBytes DEF Block
  <2>2. QED
    BY <2>1, Widths
<1> HIDE DEF written
<1>5. Len(written) \in Nat /\ EtherMaxLen - Len(written) \in Nat
  BY <1>4, Widths DEF Buffer
<1> DEFINE rest == EtherMaxLen - Len(written)
<1>6. Field("memory", 0, rest) \in Block(rest)
  <2>1. "memory" \in Names
    BY DEF Names
  <2> HIDE DEF rest
  <2>2. QED
    BY <1>5, <2>1, FieldBlock DEF rest
<1>7. written \in Block(Len(written))
  BY <1>4 DEF Block
<1>8. written \o Field("memory", 0, rest) \in Block(Len(written) + rest)
  <2> HIDE DEF rest
  <2>1. QED
    BY <1>5, <1>6, <1>7, ConcatBlock DEF rest
<1>9. Len(written) + rest = EtherMaxLen
  BY <1>5, Widths
<1>10. QED
  BY <1>3, <1>8, <1>9

LEMMA OutcomeKept ==
  ASSUME Typed, NEW r \in Results
  PROVE  Outcome(r) \in Kept
BY OutcomeTyped DEF Kept

LEMMA RxDataTyped ==
  ASSUME Typed, NEW frame \in Buffer, NEW src \in Block(6), NEW dst \in Block(6)
  PROVE  RxData(frame, src, dst) \in Kept
<1> DEFINE out == RxData(frame, src, dst)
           delivery == Delivery(dst, src, Strip(frame, 8))
           delivered == [ Outcome(RxOk) EXCEPT !.out = << delivery >> ]
<1>1. \/ out \in { Outcome(RxIgnorePeer), Outcome(RxUnexpectedFormat), Outcome(RxTooShort) }
      \/ Fits(frame, 8, 8) /\ out = delivered
  BY Zenon DEF RxData
<1>2. { RxIgnorePeer, RxUnexpectedFormat, RxTooShort, RxOk } \subseteq Results
  BY DEF Results
<1>3. CASE out \in { Outcome(RxIgnorePeer), Outcome(RxUnexpectedFormat), Outcome(RxTooShort) }
  BY <1>2, <1>3, OutcomeKept
<1>4. CASE Fits(frame, 8, 8) /\ out = delivered
  <2>1. Strip(frame, 8) \in Buffer /\ Len(Strip(frame, 8)) >= 8
    <3>1. Len(frame) \in Nat /\ 16 <= Len(frame)
      BY <1>4 DEF Fits, Buffer
    <3>2. 8 \in 0 .. Len(frame)
      BY <3>1
    <3>3. QED
      BY <3>1, <3>2, StripBytes
  <2>2. delivery \in Block(EtherMaxLen)
    BY <2>1, DeliveryTyped
  <2>3. Outcome(RxOk) \in Kept
    BY <1>2, OutcomeKept
  <2> HIDE DEF delivery
  <2>4. << delivery >> \in Seq(Block(EtherMaxLen))
    BY <2>2
  <2>5. delivered \in Kept
    BY <2>3, <2>4 DEF Kept, Outcomes
  <2>6. QED
    BY <1>4, <2>5
<1>5. QED
  BY <1>1, <1>3, <1>4

LEMMA SubframeWithin ==
  ASSUME Typed, NEW frame \in Buffer, NEW at \in 0 .. Len(frame), Fits(frame, at, 14),
         SubframeEnd(frame, at) <= Len(frame)
  PROVE  /\ ReadBE16(frame, at + 12) \in Nat
         /\ SubframeData(frame, at) \in Kept
         /\ at < SubframeNext(frame, at) /\ SubframeNext(frame, at) \in Nat
<1> DEFINE length == ReadBE16(frame, at + 12)
<1>1. Len(frame) \in Nat /\ at + 14 <= Len(frame)
  BY DEF Fits, Buffer
<1>2. length \in Nat
  BY <1>1, WordRead
<1> HIDE DEF length
<1>3. /\ Read(frame, at + 14, length) \in Buffer
      /\ Read(frame, at + 6, 6) \in Block(6) /\ Read(frame, at, 6) \in Block(6)
  <2>1. at + 14 + length <= Len(frame)
    BY DEF SubframeEnd, length
  <2>2. Read(frame, at + 14, length) \in Buffer
    BY <1>1, <1>2, <2>1, ReadBytes
  <2>3. Read(frame, at + 6, 6) \in Block(6) /\ Read(frame, at, 6) \in Block(6)
    BY <1>1, ReadBlock
  <2>4. QED
    BY <2>2, <2>3
<1>4. SubframeData(frame, at) \in Kept
  BY <1>3, RxDataTyped DEF SubframeData, length
<1>5. SubframePadding(length) \in Nat
  BY <1>2 DEF SubframePadding
<1>6. SubframeNext(frame, at) \in { at + 14 + length, at + 14 + length + SubframePadding(length) }
  BY DEF SubframeNext, SubframeEnd, length
<1>7. QED
  BY <1>1, <1>2, <1>4, <1>5, <1>6 DEF length

LEMMA SubframeLastTyped ==
  ASSUME Typed, NEW frame \in Buffer, NEW at \in 0 .. Len(frame)
  PROVE  SubframeLast(frame, at) \in Kept
<1>1. Outcome(RxOk) \in Kept /\ Outcome(RxTooShort) \in Kept
  BY OutcomeKept DEF Results
<1>2. CASE Fits(frame, at, 14) /\ ~(SubframeEnd(frame, at) > Len(frame))
  <2>1. SubframeEnd(frame, at) <= Len(frame)
    <3>1. Len(frame) \in Nat /\ at + 14 <= Len(frame)
      BY <1>2 DEF Fits, Buffer
    <3>2. ReadBE16(frame, at + 12) \in Nat
      BY <3>1, WordRead
    <3>3. QED
      BY <1>2, <3>1, <3>2 DEF SubframeEnd
  <2>2. SubframeData(frame, at) \in Kept
    BY <1>2, <2>1, SubframeWithin
  <2>3. QED
    BY <1>1, <2>2 DEF SubframeLast
<1>3. CASE ~(Fits(frame, at, 14) /\ ~(SubframeEnd(frame, at) > Len(frame)))
  BY <1>1, <1>3 DEF SubframeLast
<1>4. QED
  BY <1>2, <1>3

(* What a subframe and the subframes behind it bring.                      *)
LEMMA JoinedKept ==
  ASSUME NEW s \in Kept, NEW rest \in Kept
  PROVE  [ rest EXCEPT !.out = s.out \o @ ] \in Kept
<1>1. s.out \o rest.out \in Seq(Block(EtherMaxLen))
  <2>1. s.out \in Seq(Block(EtherMaxLen)) /\ rest.out \in Seq(Block(EtherMaxLen))
    BY DEF Kept, Outcomes
  <2>2. QED
    BY <2>1
<1> DEFINE all == s.out \o rest.out
<1>2. [ rest EXCEPT !.out = s.out \o @ ] = [ rest EXCEPT !.out = all ]
  OBVIOUS
<1> HIDE DEF all
<1>3. QED
  BY <1>1, <1>2 DEF Kept, Outcomes, all

LEMMA SubframeReadWithin ==
  ASSUME Typed, NEW frame \in Buffer, NEW at \in 0 .. Len(frame), SubframeRead(frame, at)
  PROVE  /\ SubframeData(frame, at) \in Kept
         /\ SubframeNext(frame, at) \in 0 .. Len(frame) /\ at < SubframeNext(frame, at)
<1>1. Fits(frame, at, 14) /\ SubframeEnd(frame, at) <= Len(frame)
      /\ SubframeNext(frame, at) <= Len(frame)
  BY DEF SubframeRead
<1>2. /\ SubframeData(frame, at) \in Kept
      /\ at < SubframeNext(frame, at) /\ SubframeNext(frame, at) \in Nat
  BY <1>1, SubframeWithin
<1>3. Len(frame) \in Nat
  BY DEF Buffer
<1>4. QED
  BY <1>1, <1>2, <1>3

LEMMA RxAmsduReads ==
  ASSUME Typed, NEW frame \in Buffer
  PROVE  \E from : Reads(from, frame) /\ RxAmsdu(frame) = from[0]
<1> DEFINE X == 0 .. Len(frame)
           D == { at \in X : SubframeRead(frame, at) }
           joined(at, rest) == Joined(frame, at, rest)
           Step(f) ==
             [ at \in X |->
                 IF at = Len(frame) THEN Outcome(RxOk)
                 ELSE IF ~Fits(frame, at, 14) THEN Outcome(RxTooShort)
                 ELSE IF SubframeEnd(frame, at) > Len(frame) THEN Outcome(RxTooShort)
                 ELSE IF SubframeData(frame, at).result < 0 THEN SubframeData(frame, at)
                 ELSE IF SubframeNext(frame, at) > Len(frame) THEN Outcome(RxTooShort)
                 ELSE joined(at, f[SubframeNext(frame, at)]) ]
           from == CHOOSE f : f = Step(f)
           measure == [ at \in X |-> Len(frame) - at ]
           next == [ at \in D |-> SubframeNext(frame, at) ]
           base == [ at \in X |-> SubframeLast(frame, at) ]
           join == [ p \in D \X Kept |-> joined(p[1], p[2]) ]
<1>1. RxAmsdu(frame) = from[0]
  BY Zenon DEF RxAmsdu, Joined, SubframeData, SubframeNext, SubframeEnd
<1>2. Len(frame) \in Nat
  BY DEF Buffer
<1>3. \A at \in D : /\ SubframeData(frame, at) \in Kept
                    /\ SubframeNext(frame, at) \in X /\ at < SubframeNext(frame, at)
  BY SubframeReadWithin
<1>4. \A at \in X : SubframeLast(frame, at) \in Kept
  BY SubframeLastTyped
<1>5. \A at \in D, rest \in Kept : joined(at, rest) \in Kept
  BY <1>3, JoinedKept DEF Joined
<1>6. ASSUME NEW f, NEW at \in X
      PROVE  Step(f)[at] = IF at \in D THEN joined(at, f[SubframeNext(frame, at)])
                                       ELSE SubframeLast(frame, at)
  <2> HIDE DEF joined
  <2>1. ASSUME Fits(frame, at, 14)
        PROVE  SubframeEnd(frame, at) \in Nat
    <3>1. at + 14 <= Len(frame)
      BY <2>1 DEF Fits
    <3>2. ReadBE16(frame, at + 12) \in Nat
      BY <1>2, <3>1, WordRead
    <3>3. QED
      BY <3>2 DEF SubframeEnd
  <2>2. ASSUME Fits(frame, at, 14), SubframeEnd(frame, at) <= Len(frame)
        PROVE  SubframeNext(frame, at) \in Nat
    BY <2>2, SubframeWithin
  <2>3. CASE at \in D
    <3>1. /\ at # Len(frame) /\ Fits(frame, at, 14)
          /\ ~(SubframeEnd(frame, at) > Len(frame))
          /\ ~(SubframeData(frame, at).result < 0)
          /\ ~(SubframeNext(frame, at) > Len(frame))
      BY <1>2, <2>1, <2>2, <2>3 DEF SubframeRead
    <3>2. QED
      BY <2>3, <3>1
  <2>4. CASE at \notin D
    <3>1. at # Len(frame) /\ Fits(frame, at, 14) /\ ~(SubframeEnd(frame, at) > Len(frame))
          /\ ~(SubframeData(frame, at).result < 0)
          => SubframeNext(frame, at) > Len(frame)
      BY <1>2, <2>1, <2>2, <2>4 DEF SubframeRead
    <3>2. QED
      BY <2>4, <3>1 DEF SubframeLast
  <2>5. QED
    BY <2>3, <2>4
<1>7. \E f : f = Step(f)
  <2>1. /\ measure \in [ X -> 0 .. Len(frame) ] /\ D \in SUBSET X /\ next \in [ D -> X ]
        /\ \A at \in D : measure[next[at]] < measure[at]
    BY <1>2, <1>3
  <2>2. base \in [ X -> Kept ] /\ join \in [ D \X Kept -> Kept ]
    <3> HIDE DEF X, D, joined
    <3>1. QED
      BY <1>4, <1>5
  <2>3. PICK g \in [ X -> Kept ] :
          \A at \in X : g[at] = IF at \in D THEN join[<< at, g[next[at]] >>] ELSE base[at]
    <3>1. Loop(X, Len(frame), measure, D, next, Kept, base, join)
      BY <1>2, <2>1, <2>2 DEF Loop
    <3> HIDE DEF X, D, measure, next, join, base
    <3>2. QED
      BY <3>1, LoopHasResult
  <2>4. \A at \in X : g[at] = Step(g)[at]
    <3>1. ASSUME NEW at \in D
          PROVE  g[at] = joined(at, g[SubframeNext(frame, at)])
      <4>1. at \in X /\ next[at] = SubframeNext(frame, at)
        OBVIOUS
      <4>2. SubframeNext(frame, at) \in X
        BY <1>3
      <4>3. << at, g[SubframeNext(frame, at)] >> \in D \X Kept
        BY <4>2
      <4> HIDE DEF D, X, joined, next
      <4>4. g[at] = join[<< at, g[SubframeNext(frame, at)] >>]
        BY <2>3, <4>1
      <4>5. QED
        BY <4>3, <4>4
    <3>2. ASSUME NEW at \in X \ D PROVE g[at] = SubframeLast(frame, at)
      <4> HIDE DEF D, X, join, next
      <4>1. QED
        BY <2>3, <3>2
    <3> HIDE DEF Step, D, joined
    <3>3. QED
      BY <1>6, <3>1, <3>2
  <2>5. g = [ at \in X |-> g[at] ] /\ Step(g) = [ at \in X |-> Step(g)[at] ]
    OBVIOUS
  <2> HIDE DEF Step
  <2>6. g = Step(g)
    BY <2>4, <2>5
  <2>7. QED
    BY <2>6
<1>8. from = Step(from)
  <2> HIDE DEF Step
  <2>1. QED
    BY <1>7
<1>9. \A at \in X :
        from[at] = IF SubframeRead(frame, at) THEN joined(at, from[SubframeNext(frame, at)])
                                              ELSE SubframeLast(frame, at)
  <2> HIDE DEF from, Step, joined
  <2>1. QED
    BY <1>6, <1>8
<1>10. QED
  <2> HIDE DEF from
  <2>1. Reads(from, frame)
    BY <1>9 DEF Reads
  <2>2. QED
    BY <1>1, <2>1

LEMMA ReadsKept ==
  ASSUME Typed, NEW frame \in Buffer, NEW from, Reads(from, frame)
  PROVE  \A at \in 0 .. Len(frame) : from[at] \in Kept
<1> DEFINE X == 0 .. Len(frame)
           measure == [ at \in X |-> Len(frame) - at ]
<1>1. Len(frame) \in Nat
  BY DEF Buffer
<1> DEFINE P == { at \in X : from[at] \in Kept }
<1>2. ASSUME NEW at \in X, \A end \in X : measure[end] < measure[at] => end \in P
      PROVE  at \in P
  <2>1. from[at] = IF SubframeRead(frame, at) THEN Joined(frame, at, from[SubframeNext(frame, at)])
                                              ELSE SubframeLast(frame, at)
    BY DEF Reads
  <2>2. CASE SubframeRead(frame, at)
    <3>1. /\ SubframeData(frame, at) \in Kept
          /\ SubframeNext(frame, at) \in X /\ at < SubframeNext(frame, at)
      BY <2>2, SubframeReadWithin
    <3>2. SubframeNext(frame, at) \in P
      BY <1>1, <1>2, <3>1
    <3>3. QED
      BY <2>1, <2>2, <3>1, <3>2, JoinedKept DEF Joined
  <2>3. CASE ~SubframeRead(frame, at)
    BY <2>1, <2>3, SubframeLastTyped
  <2>4. QED
    BY <2>2, <2>3
<1>3. measure \in [ X -> Nat ]
  BY <1>1
<1>4. X \subseteq P
  <2> HIDE DEF X, measure, P
  <2>1. QED
    BY <1>2, <1>3, MeasureInduction
<1>5. QED
  BY <1>4

LEMMA RxAmsduTyped ==
  ASSUME Typed, NEW frame \in Buffer
  PROVE  RxAmsdu(frame) \in Kept
<1>1. PICK from : Reads(from, frame) /\ RxAmsdu(frame) = from[0]
  BY RxAmsduReads
<1>2. 0 \in 0 .. Len(frame)
  BY DEF Buffer
<1>3. QED
  BY <1>1, <1>2, ReadsKept

LEMMA RxQosDataTyped ==
  ASSUME Typed, NEW frame \in Buffer, NEW src \in Block(6), NEW dst \in Block(6)
  PROVE  RxQosData(frame, src, dst) \in Kept
<1>1. CASE ~Fits(frame, 0, 2)
  BY <1>1, OutcomeKept DEF RxQosData, Results
<1>2. CASE Fits(frame, 0, 2)
  <2>1. 2 \in 0 .. Len(frame)
    BY <1>2 DEF Fits, Buffer
  <2>2. Strip(frame, 2) \in Buffer
    BY <2>1, StripBytes
  <2>3. RxAmsdu(Strip(frame, 2)) \in Kept /\ RxData(Strip(frame, 2), src, dst) \in Kept
    BY <2>2, RxAmsduTyped, RxDataTyped
  <2>4. QED
    BY <1>2, <2>3 DEF RxQosData
<1>3. QED
  BY <1>1, <1>2
-----------------------------------------------------------------------------
(* A whole frame.                                                          *)

(* What check_fcs leaves of a buffer that holds the beginning of whole.    *)
LEMMA FrameTaken ==
  ASSUME NEW bytes \in Buffer, NEW whole \in Buffer, Begins(bytes, 0, whole),
         NEW checksum \in BOOLEAN, ~(checksum /\ Len(bytes) < 4), NEW frame,
         frame = IF checksum THEN Take(bytes, 4) ELSE bytes
  PROVE  frame \in Buffer /\ Begins(frame, 0, whole)
<1>1. Len(bytes) \in Nat /\ Len(whole) \in Nat
  BY DEF Buffer
<1>2. checksum => 4 \in 0 .. Len(bytes)
  BY <1>1
<1>3. /\ frame \in Buffer /\ Len(frame) \in Nat /\ Len(frame) <= Len(bytes)
      /\ \A k \in 1 .. Len(frame) : frame[k] = bytes[k]
  <2>1. CASE checksum
    <3>1. /\ Take(bytes, 4) \in Buffer /\ Len(Take(bytes, 4)) = Len(bytes) - 4
          /\ \A k \in 1 .. Len(bytes) - 4 : Take(bytes, 4)[k] = bytes[k]
      BY <1>1, <1>2, <2>1, TakeBytes
    <3>2. QED
      BY <1>1, <1>2, <2>1, <3>1
  <2>2. CASE ~checksum
    BY <1>1, <2>2
  <2>3. QED
    BY <2>1, <2>2
<1>4. /\ Len(bytes) - 0 <= Len(whole)
      /\ \A k \in 1 .. Len(bytes) - 0 : bytes[0 + k] = whole[k]
  BY DEF Begins
<1>5. \A k \in 1 .. Len(frame) - 0 : frame[0 + k] = whole[k]
  BY <1>1, <1>3, <1>4
<1>6. QED
  BY <1>1, <1>3, <1>4, <1>5 DEF Begins

LEMMA RxTyped ==
  ASSUME Typed, NEW buf \in Buffer, NEW told, NEW memory, Measured(buf, told)
  PROVE  /\ Rx(buf, told, memory) \in Outcomes
         /\ entry.known => Rx(buf, told, memory).entry.known
         /\ \A v \in 1 .. MaxVersion : \A s \in Harmless(v) :
              /\ RankedIfKnown(entry)
              /\ told.ok => Begins(Strip(buf, told.length), 0, s \o Fcs)
              => RankedIfKnown(Rx(buf, told, memory).entry)
<1> DEFINE bytes == Strip(buf, told.length)
           checksum == IsSet(told.flags, FlagFcs)
           failed == IsSet(told.flags, FlagBadFcs) \/ (checksum /\ Len(bytes) < 4)
           frame == IF checksum THEN Take(bytes, 4) ELSE bytes
           dst == Read(frame, 4, 6)
           src == Read(frame, 10, 6)
           body == Strip(frame, 24)
           out == Rx(buf, told, memory)
           refused == { Outcome(RxUnexpectedFormat), Outcome(RxIgnoreFailedCrc),
                        Outcome(RxTooShort), Outcome(RxIgnoreFromSelf),
                        Outcome(RxUnexpectedType) }
<1>1. \/ out \in refused
      \/ /\ told.ok /\ ~failed /\ Fits(frame, 0, 24) /\ src # Address(Self)
         /\ out = CASE ReadLE16(frame, 0) = ActionFrame  -> RxAction(body, told.rssi, memory)
                    [] ReadLE16(frame, 0) = QosDataFrame -> RxQosData(body, src, dst)
                    [] ReadLE16(frame, 0) = DataFrame    -> RxData(body, src, dst)
                    [] OTHER -> Outcome(RxUnexpectedType)
  BY Zenon DEF Rx
<1>2. CASE out \in refused
  <2>1. { RxUnexpectedFormat, RxIgnoreFailedCrc, RxTooShort, RxIgnoreFromSelf,
          RxUnexpectedType } \subseteq Results
    BY DEF Results
  <2>2. refused \subseteq { o \in Outcomes : o.entry = entry }
    BY <2>1, OutcomeTyped
  <2> HIDE DEF out, refused
  <2>3. out \in Outcomes /\ out.entry = entry
    BY <1>2, <2>2
  <2>4. QED
    BY <2>3 DEF out
<1>3. CASE /\ told.ok /\ ~failed /\ Fits(frame, 0, 24) /\ src # Address(Self)
           /\ out = CASE ReadLE16(frame, 0) = ActionFrame  -> RxAction(body, told.rssi, memory)
                      [] ReadLE16(frame, 0) = QosDataFrame -> RxQosData(body, src, dst)
                      [] ReadLE16(frame, 0) = DataFrame    -> RxData(body, src, dst)
                      [] OTHER -> Outcome(RxUnexpectedType)
  <2>1. bytes \in Buffer /\ Len(bytes) \in Nat
    <3>1. told.length \in 0 .. Len(buf)
      BY <1>3 DEF Measured
    <3>2. bytes \in Buffer
      BY <3>1, StripBytes
    <3>3. QED
      BY <3>2 DEF Buffer
  <2> HIDE DEF bytes
  <2>2. checksum \in BOOLEAN /\ ~(checksum /\ Len(bytes) < 4)
    BY <1>3 DEF IsSet
  <2>3. /\ frame \in Buffer
        /\ \A whole \in Buffer : Begins(bytes, 0, whole) => Begins(frame, 0, whole)
    <3> HIDE DEF checksum
    <3>1. Begins(bytes, 0, bytes)
      BY <2>1 DEF Begins
    <3>2. QED
      BY <2>1, <2>2, <3>1, FrameTaken
  <2> HIDE DEF frame
  <2>4. Len(frame) >= 24 /\ Len(frame) \in Nat
    BY <1>3, <2>3 DEF Fits, Buffer
  <2>5. body \in Buffer /\ src \in Block(6) /\ dst \in Block(6)
    <3>1. 24 \in 0 .. Len(frame) /\ 4 + 6 <= Len(frame) /\ 10 + 6 <= Len(frame)
      BY <2>3, <2>4
    <3>2. body \in Buffer
      BY <2>3, <3>1, StripBytes
    <3>3. src \in Block(6) /\ dst \in Block(6)
      BY <2>3, <3>1, ReadBlock
    <3>4. QED
      BY <3>2, <3>3
  <2>6. \A v \in 1 .. MaxVersion : \A s \in Harmless(v) :
          Begins(bytes, 0, s \o Fcs) => Begins(frame, 0, s \o Fcs)
    <3>1. \A v : \A s \in Harmless(v) : s \o Fcs \in Buffer
      BY FcsReadable, ManyBytes DEF Harmless, Readable
    <3>2. QED
      BY <2>3, <3>1
  <2> HIDE DEF body, src, dst, out
  <2>7. CASE ReadLE16(frame, 0) = ActionFrame
    <3>1. out = RxAction(body, told.rssi, memory)
      BY <1>3, <2>7 DEF ActionFrame, QosDataFrame, DataFrame
    <3>2. /\ RxAction(body, told.rssi, memory) \in Outcomes
          /\ entry.known => RxAction(body, told.rssi, memory).entry.known
      BY <2>5, RxActionTyped
    <3>3. ASSUME NEW v \in 1 .. MaxVersion, NEW s \in Harmless(v), RankedIfKnown(entry),
                 Begins(bytes, 0, s \o Fcs)
          PROVE  RankedIfKnown(RxAction(body, told.rssi, memory).entry)
      <4>1. IsAnnouncement(body) => ReadTlvs(body, 16).tlvs \in Seq(Honest(v))
        BY <1>3, <2>3, <2>4, <2>6, <2>7, <3>3 DEF Harmless, body, src
      <4>2. QED
        BY <2>5, <3>3, <4>1, RxActionTyped
    <3>4. QED
      BY <1>3, <3>1, <3>2, <3>3 DEF out, bytes
  <2>8. CASE ReadLE16(frame, 0) # ActionFrame
    <3>1. out \in { RxQosData(body, src, dst), RxData(body, src, dst),
                    Outcome(RxUnexpectedType) }
      BY <1>3, <2>8
    <3>2. RxUnexpectedType \in Results
      BY DEF Results
    <3>3. { RxQosData(body, src, dst), RxData(body, src, dst),
            Outcome(RxUnexpectedType) } \subseteq Kept
      BY <2>5, <3>2, RxQosDataTyped, RxDataTyped, OutcomeKept
    <3>4. out \in Kept
      BY <3>1, <3>3, Zenon
    <3>5. out \in Outcomes /\ out.entry = entry
      BY <3>4 DEF Kept
    <3>6. QED
      BY <3>5 DEF out
  <2>9. QED
    BY <2>7, <2>8
<1>4. QED
  BY <1>1, <1>2, <1>3
-----------------------------------------------------------------------------
(* The radiotap headers.                                                   *)

(* What the parser accepts has the length that the header tells.           *)
LEMMA ParseMeasures ==
  ASSUME NEW buf \in Buffer, NEW held, RadiotapParse(buf, held).ok
  PROVE  /\ RadiotapParse(buf, held).length = ReadLE16(buf, 2)
         /\ RadiotapParse(buf, held).length \in 0 .. Len(buf) /\ Len(buf) >= 8
<1> DEFINE length == ReadLE16(buf, 2)
           out == RadiotapParse(buf, held)
<1>1. \/ out.ok = FALSE
      \/ Fits(buf, 0, 8) /\ Fits(buf, 0, length) /\ out.length = length
  <2>1. ASSUME NEW ok1, NEW ok2, NEW flags1, NEW flags2, NEW rssi1, NEW rssi2, NEW refuse, NEW told,
               refuse => ok1 = FALSE,
               ~refuse => Fits(buf, 0, 8) /\ Fits(buf, 0, length),
               told = IF refuse
                        THEN [ ok |-> ok1, length |-> 0, flags |-> flags1, rssi |-> rssi1 ]
                        ELSE [ ok |-> ok2, length |-> length, flags |-> flags2, rssi |-> rssi2 ]
        PROVE  \/ told.ok = FALSE
               \/ Fits(buf, 0, 8) /\ Fits(buf, 0, length) /\ told.length = length
    <3> HIDE DEF length
    <3>1. QED
      BY <2>1
  <2>2. QED
    BY <2>1, Zenon DEF RadiotapParse
<1>2. Fits(buf, 0, 8) /\ Fits(buf, 0, length) /\ out.length = length
  BY <1>1
<1>3. Len(buf) \in Nat /\ 8 <= Len(buf)
  BY <1>2 DEF Fits, Buffer
<1>4. length \in Nat
  BY <1>3, WordRead
<1> HIDE DEF length, out
<1>5. length <= Len(buf)
  BY <1>2, <1>4 DEF Fits
<1>6. QED
  BY <1>2, <1>3, <1>4, <1>5 DEF length, out

LEMMA WordBytes ==
  ASSUME NEW bits
  PROVE  Word(bits) \in Block(4)
<1> DEFINE value(k, b) == IF 8 * (k - 1) + b - 1 \in bits THEN BitValue[b] ELSE 0
           sum(k) == value(k, 1) + value(k, 2) + value(k, 3) + value(k, 4)
                       + value(k, 5) + value(k, 6) + value(k, 7) + value(k, 8)
<1>1. Word(bits) = [ k \in 1 .. 4 |-> Num(sum(k)) ]
  BY DEF Word
<1>2. \A b \in 1 .. 8 : BitValue[b] \in Nat
  BY DEF BitValue
<1>3. ASSUME NEW k \in 1 .. 4 PROVE sum(k) \in Nat
  <2>1. \A b \in 1 .. 8 : value(k, b) \in Nat
    BY <1>2
  <2> HIDE DEF value
  <2>2. QED
    BY <2>1
<1> HIDE DEF sum
<1>4. \A k \in 1 .. 4 : Num(sum(k)) \in Byte
  BY <1>3, NumByte
<1>5. QED
  BY <1>1, <1>4 DEF Block, Buffer

(* The beginning of a header, with the length that it tells.               *)
Leading(words, length) ==
  U8(0) \o U8(0) \o LE16(length) \o FlattenSeq([ w \in DOMAIN words |-> Word(words[w]) ])

LEMMA FrontBytes ==
  ASSUME NEW n \in Nat \ {0}, NEW words \in [ 1 .. n -> SUBSET Nat ], NEW length \in Nat
  PROVE  /\ Leading(words, length) \in Block(4 + 4 * n)
         /\ At(Leading(words, length), 2, LE16(length))
<1> DEFINE parts == [ w \in 1 .. n |-> Word(words[w]) ]
           head == U8(0) \o U8(0) \o LE16(length)
<1>1. \A w \in 1 .. n : parts[w] \in Block(4)
  BY WordBytes
<1>2. parts \in [ 1 .. n -> Buffer ]
  BY WordBytes DEF Block
<1>3. Leading(words, length) = head \o FlattenSeq(parts)
  BY DEF Leading
<1> HIDE DEF parts
<1>4. FlattenSeq(parts) \in Block(4 * n)
  <2>1. PICK g \in [ 1 .. n -> Buffer ] :
          /\ g[1] = parts[1] /\ \A i \in 2 .. n : g[i] = g[i - 1] \o parts[i]
          /\ FlattenSeq(parts) = g[n]
    BY <1>2, FlattenBytes
  <2> DEFINE X == 1 .. n
             measure == [ i \in X |-> i ]
             P == { i \in X : g[i] \in Block(4 * i) }
  <2>2. ASSUME NEW i \in X, \A j \in X : measure[j] < measure[i] => j \in P
        PROVE  i \in P
    <3>1. CASE i = 1
      BY <1>1, <2>1, <3>1
    <3>2. CASE i # 1
      <4>1. i - 1 \in X /\ measure[i - 1] < measure[i] /\ i \in 2 .. n
        BY <3>2
      <4>2. g[i - 1] \in Block(4 * (i - 1))
        BY <2>2, <4>1
      <4>3. g[i - 1] \o parts[i] \in Block(4 * (i - 1) + 4)
        BY <1>1, <4>1, <4>2, ConcatBlock
      <4>4. 4 * (i - 1) + 4 = 4 * i
        BY <4>1
      <4>5. QED
        BY <2>1, <4>1, <4>3, <4>4
    <3>3. QED
      BY <3>1, <3>2
  <2>3. measure \in [ X -> Nat ] /\ n \in X
    OBVIOUS
  <2>4. X \subseteq P
    <3> HIDE DEF X, measure, P
    <3>1. QED
      BY <2>2, <2>3, MeasureInduction
  <2>5. n \in P
    <3> HIDE DEF P
    <3>1. QED
      BY <2>3, <2>4
  <2>6. QED
    BY <2>1, <2>5
<1>5. head \in Block(4) /\ At(head, 2, LE16(length))
  <2>1. U8(0) \in Block(1) /\ LE16(length) \in Block(2)
    BY NumberBlock
  <2> DEFINE zeros == U8(0) \o U8(0)
             number == LE16(length)
  <2>2. zeros \in Block(2)
    BY <2>1, ConcatBlock
  <2>3. number \in Block(2)
    BY <2>1
  <2>4. head = zeros \o number
    OBVIOUS
  <2> HIDE DEF zeros, number, head
  <2>5. head \in Block(4)
    BY <2>2, <2>3, <2>4, ConcatBlock
  <2>6. zeros \in Buffer /\ Len(zeros) = 2 /\ number \in Buffer
    BY <2>2, <2>3 DEF Block
  <2>7. At(head, 2, number)
    BY <2>4, <2>6, AtEnd
  <2>8. QED
    BY <2>5, <2>7 DEF number
<1> HIDE DEF head
<1>6. head \o FlattenSeq(parts) \in Block(4 + 4 * n)
  BY <1>4, <1>5, ConcatBlock
<1>7. At(head \o FlattenSeq(parts), 2, LE16(length))
  <2>1. head \in Buffer /\ FlattenSeq(parts) \in Buffer /\ LE16(length) \in Buffer
    BY <1>4, <1>5, LE16Bytes DEF Block
  <2>2. QED
    BY <1>5, <2>1, AtFront
<1>8. QED
  BY <1>3, <1>6, <1>7

(* A header of words and fields; it tells its own length.                  *)
Taps == { x \in Buffer : ReadLE16(x, 2) = Len(x) }

LEMMA LongerBytes ==
  ASSUME NEW k \in Nat, NEW y \in Buffer, NEW z \in Buffer, Len(y) >= k
  PROVE  y \o z \in { x \in Buffer : Len(x) >= k }
<1> DEFINE w == y \o z
<1>1. w \in Buffer /\ Len(w) = Len(y) + Len(z) /\ Len(y) \in Nat /\ Len(z) \in Nat
  BY ConcatBytes DEF Buffer
<1> HIDE DEF w
<1>2. w \in Buffer /\ Len(w) >= k
  BY <1>1
<1>3. QED
  BY <1>2 DEF w

LEMMA TapHeaderTells ==
  ASSUME NEW n \in Nat \ {0}, NEW words \in [ 1 .. n -> SUBSET Nat ],
         NEW m \in Nat, NEW fields \in [ 1 .. m -> (Nat \ {0}) \X Buffer ]
  PROVE  TapHeader(words, fields) \in Taps
<1> DEFINE first == Leading(words, 0)
           grown(x, i) == x \o Padding((-Len(x)) % fields[i][1]) \o fields[i][2]
           Step(f) ==
             [ i \in 0 .. m |-> IF i = 0 THEN first ELSE grown(f[i - 1], i) ]
           upTo == CHOOSE f : f = Step(f)
           whole == upTo[m]
           Long == { x \in Buffer : Len(x) >= 4 + 4 * n }
           tail == Strip(whole, 4 + 4 * n)
           front == Leading(words, Len(whole))
<1>1. Len(words) = n /\ Len(fields) = m
  OBVIOUS
<1>2. TapHeader(words, fields) = front \o tail
  BY <1>1 DEF TapHeader, Leading
<1>3. first \in Long
  BY FrontBytes DEF Block
<1>4. ASSUME NEW x \in Long, NEW i \in 1 .. m PROVE grown(x, i) \in Long
  <2>1. /\ fields[i][1] \in Nat /\ fields[i][1] > 0 /\ fields[i][2] \in Buffer
        /\ x \in Buffer /\ Len(x) \in Nat
    BY DEF Buffer
  <2> DEFINE pad == (-Len(x)) % fields[i][1]
  <2>2. pad \in Nat
    BY <2>1
  <2> HIDE DEF pad
  <2>3. Padding(pad) \in Buffer
    BY <2>2, PaddingBytes
  <2>4. \A y, z \in Buffer : y \in Long => y \o z \in Long
    BY LongerBytes
  <2> HIDE DEF Long
  <2>5. x \o Padding(pad) \in Long
    BY <2>1, <2>3, <2>4
  <2>6. x \o Padding(pad) \in Buffer
    BY <2>1, <2>3, ManyBytes
  <2>7. x \o Padding(pad) \o fields[i][2] \in Long
    BY <2>1, <2>4, <2>5, <2>6
  <2>8. QED
    BY <2>7 DEF pad
<1> HIDE DEF grown, first, Long
<1>5. \E f : f = Step(f)
  <2> DEFINE join == [ p \in (1 .. m) \X Long |-> grown(p[2], p[1]) ]
  <2>1. join \in [ (1 .. m) \X Long -> Long ]
    <3>1. \A p \in (1 .. m) \X Long : grown(p[2], p[1]) \in Long
      BY <1>4
    <3>2. QED
      BY <3>1
  <2>2. Count(m, Long, first, join)
    BY <1>3, <2>1 DEF Count
  <2>3. PICK g : Counts(g, m, Long, first, join)
    <3> HIDE DEF join
    <3>1. QED
      BY <2>2, CountHasResult
  <2>4. g \in [ 0 .. m -> Long ] /\ g[0] = first
    BY <2>3 DEF Counts
  <2>5. ASSUME NEW i \in 1 .. m PROVE g[i] = grown(g[i - 1], i)
    <3>1. i - 1 \in 0 .. m /\ i \in 0 .. m
      OBVIOUS
    <3>2. g[i] = join[<< i, g[i - 1] >>]
      BY <2>3 DEF Counts
    <3>3. << i, g[i - 1] >> \in (1 .. m) \X Long
      BY <2>4, <3>1
    <3>4. QED
      BY <3>2, <3>3
  <2>6. g = Step(g)
    <3>1. \A i \in 0 .. m : g[i] = IF i = 0 THEN first ELSE grown(g[i - 1], i)
      <4>1. \A i \in 0 .. m : i # 0 => i \in 1 .. m
        OBVIOUS
      <4>2. QED
        BY <2>4, <2>5, <4>1
    <3>2. g = [ i \in 0 .. m |-> g[i] ]
      BY <2>4
    <3>3. QED
      BY <3>1, <3>2
  <2>7. QED
    BY <2>6
<1>6. upTo = Step(upTo)
  <2> HIDE DEF Step
  <2>1. QED
    BY <1>5
<1> HIDE DEF upTo
<1>7. whole \in Long
  <2>1. upTo[0] = first
    <3>1. 0 \in 0 .. m
      OBVIOUS
    <3>2. QED
      BY <1>6, <3>1
  <2>2. ASSUME NEW i \in 1 .. m, upTo[i - 1] \in Long PROVE upTo[i] \in Long
    <3>1. i \in 0 .. m /\ i # 0
      OBVIOUS
    <3>2. upTo[i] = grown(upTo[i - 1], i)
      BY <1>6, <3>1
    <3>3. QED
      BY <1>4, <2>2, <3>2
  <2>3. upTo[0] \in Long
    BY <1>3, <2>1
  <2>4. \A i \in 0 .. m : upTo[i] \in Long
    BY <2>2, <2>3, CountPreserves
  <2>5. QED
    BY <2>4
<1> HIDE DEF whole
<1>8. whole \in Buffer /\ Len(whole) \in Nat /\ Len(whole) >= 4 + 4 * n
  BY <1>7 DEF Long, Buffer
<1>9. tail \in Block(Len(whole) - (4 + 4 * n))
  <2>1. 4 + 4 * n \in 0 .. Len(whole)
    BY <1>8
  <2>2. QED
    BY <1>8, <2>1, StripBytes DEF Block
<1>10. front \in Block(4 + 4 * n) /\ At(front, 2, LE16(Len(whole)))
  BY <1>8, FrontBytes
<1> HIDE DEF front, tail
<1>11. front \o tail \in Block(Len(whole))
  <2> DEFINE a == 4 + 4 * n
             b == Len(whole) - a
  <2>1. a \in Nat /\ b \in Nat /\ a + b = Len(whole)
    BY <1>8
  <2>2. front \in Block(a) /\ tail \in Block(b)
    BY <1>9, <1>10
  <2> HIDE DEF a, b
  <2>3. front \o tail \in Block(a + b)
    BY <2>1, <2>2, ConcatBlock
  <2>4. QED
    BY <2>1, <2>3
<1>12. ReadLE16(front \o tail, 2) = Len(whole)
  <2> DEFINE w == front \o tail
             number == LE16(Len(whole))
  <2>1. number \in Buffer /\ Len(number) = 2
          /\ number[1] = Num(Len(whole) % 256) /\ number[2] = Num(Len(whole) \div 256)
    BY <1>8, LE16Bytes
  <2>2. At(w, 2, number)
    <3>1. front \in Buffer /\ tail \in Buffer
      BY <1>9, <1>10 DEF Block
    <3>2. QED
      BY <1>10, <2>1, <3>1, AtFront
  <2> HIDE DEF w, number
  <2>3. w[2 + 1] = number[1] /\ w[2 + 2] = number[2]
    BY <2>1, <2>2 DEF At
  <2>4. w[3] = Num(Len(whole) % 256) /\ w[4] = Num(Len(whole) \div 256)
    BY <2>1, <2>3
  <2>5. ReadLE16(w, 2) = (Len(whole) % 256) + 256 * (Len(whole) \div 256)
    <3>1. w[3][3] = Len(whole) % 256 /\ w[4][3] = Len(whole) \div 256
      <4>1. Len(whole) % 256 \in Nat /\ Len(whole) \div 256 \in Nat
        BY <1>8
      <4>2. /\ Num(Len(whole) % 256)[3] = Len(whole) % 256
            /\ Num(Len(whole) \div 256)[3] = Len(whole) \div 256
        BY <4>1, NumByte, Zenon
      <4>3. QED
        BY <2>4, <4>2, Zenon
    <3>2. ReadLE16(w, 2) = w[3][3] + 256 * w[4][3]
      BY DEF ReadLE16, ReadU8
    <3>3. QED
      BY <3>1, <3>2, Zenon
  <2>6. QED
    BY <1>8, <2>5 DEF w
<1>13. QED
  BY <1>2, <1>11, <1>12 DEF Taps, Block

LEMMA PartsTell ==
  ASSUME NEW n, NEW words, NEW m, NEW fields, HeaderParts(n, words, m, fields)
  PROVE  TapHeader(words, fields) \in Taps
BY TapHeaderTells DEF HeaderParts

LEMMA TapFields ==
  /\ \A width \in Nat : Radio(width) \in Buffer
  /\ \A flags \in Nat : << 1, U8(flags) >> \in (Nat \ {0}) \X Buffer
  /\ \A dbm \in Int : Signal(dbm) \in (Nat \ {0}) \X Buffer
<1>1. \A width \in Nat : Radio(width) \in Buffer
  <2>1. "radio" \in Names /\ 0 \in Nat
    BY DEF Names
  <2>2. QED
    BY <2>1, ManyBytes, Zenon DEF Radio
<1>2. \A flags \in Nat : << 1, U8(flags) >> \in (Nat \ {0}) \X Buffer
  <2>1. \A b \in Buffer : << 1, b >> \in (Nat \ {0}) \X Buffer
    OBVIOUS
  <2>2. QED
    BY <2>1, NumberBytes
<1>3. \A dbm \in Int : Signal(dbm) \in (Nat \ {0}) \X Buffer
  <2>1. \A dbm \in Int : dbm % 256 \in Nat
    OBVIOUS
  <2>2. QED
    BY <1>2, <2>1, Zenon DEF Signal
<1>4. QED
  BY <1>1, <1>2, <1>3

LEMMA VendorLengthType == VendorLength \in Nat
BY VendorAssumption

(* The layouts of the headers.                                             *)
LEMMA LayoutsTell ==
  ASSUME NEW flags \in Nat, NEW dbm \in Int
  PROVE  /\ PlainTap(flags, dbm) \in Taps /\ AntennasTap(flags, dbm) \in Taps
         /\ VendorTap(flags, dbm) \in Taps /\ BareTap \in Taps
         /\ \A bit \in Nat : LaterTap(flags, dbm, bit) \in Taps
<1> DEFINE F == (Nat \ {0}) \X Buffer
           W == SUBSET Nat
           fs == << 1, U8(flags) >>
           radio(align, width) == << align, Radio(width) >>
<1>1. \A align \in Nat \ {0}, width \in Nat : radio(align, width) \in F
  <2>1. \A align \in Nat \ {0}, b \in Buffer : << align, b >> \in F
    OBVIOUS
  <2>2. QED
    BY <2>1, TapFields
<1>2. fs \in F /\ Signal(dbm) \in F /\ Signal(-40) \in F
  <2>1. -40 \in Int
    OBVIOUS
  <2>2. QED
    BY <2>1, TapFields
<1>3. /\ radio(1, 1) \in F /\ radio(2, 4) \in F /\ radio(2, 2) \in F /\ radio(8, 8) \in F
      /\ radio(4, 8) \in F
  BY <1>1
<1>4. << 2, Radio(4) \o LE16(VendorLength) \o Radio(VendorLength) >> \in F
  <2>1. Radio(4) \in Buffer /\ LE16(VendorLength) \in Buffer /\ Radio(VendorLength) \in Buffer
    BY TapFields, NumberBytes, VendorLengthType
  <2>2. \A b \in Buffer : << 2, b >> \in F
    OBVIOUS
  <2>3. QED
    BY <2>1, <2>2, Chain3, Zenon
<1>5. PlainTap(flags, dbm) \in Taps
  <2> DEFINE words == << { 1, 2, 3, 5, 11, 14 } >>
             fields == << fs, radio(1, 1), radio(2, 4), Signal(dbm), radio(1, 1), radio(2, 2) >>
  <2>1. PlainTap(flags, dbm) = TapHeader(words, fields)
    BY DEF PlainTap
  <2>2. words \in [ 1 .. 1 -> SUBSET Nat ]
    OBVIOUS
  <2> HIDE DEF fs, radio, F, words
  <2>3. fields \in [ 1 .. 6 -> F ]
    BY <1>2, <1>3
  <2>4. HeaderParts(1, words, 6, fields)
    BY <2>2, <2>3 DEF HeaderParts, F
  <2> HIDE DEF fields
  <2>5. QED
    BY <2>1, <2>4, PartsTell
<1>6. AntennasTap(flags, dbm) \in Taps
  <2> DEFINE words == << { 0, 1, 3, 5, 14, 29, 31 }, { 5, 11 } >>
             fields == << radio(8, 8), fs, radio(2, 4), Signal(-40), radio(2, 2), Signal(dbm),
                          radio(1, 1) >>
  <2>1. AntennasTap(flags, dbm) = TapHeader(words, fields)
    BY DEF AntennasTap
  <2>2. words \in [ 1 .. 2 -> SUBSET Nat ]
    OBVIOUS
  <2> HIDE DEF fs, radio, F, words
  <2>3. fields \in [ 1 .. 7 -> F ]
    BY <1>2, <1>3
  <2>4. HeaderParts(2, words, 7, fields)
    BY <2>2, <2>3 DEF HeaderParts, F
  <2> HIDE DEF fields
  <2>5. QED
    BY <2>1, <2>4, PartsTell
<1>7. VendorTap(flags, dbm) \in Taps
  <2> DEFINE words == << { 1, 30, 31 }, { 0, 1, 29, 31 }, { 5 } >>
             vendor == << 2, Radio(4) \o LE16(VendorLength) \o Radio(VendorLength) >>
             fields == << fs, vendor, Signal(dbm) >>
  <2>1. VendorTap(flags, dbm) = TapHeader(words, fields)
    BY DEF VendorTap
  <2>2. words \in [ 1 .. 3 -> SUBSET Nat ]
    OBVIOUS
  <2>3. vendor \in F
    BY <1>4
  <2> HIDE DEF fs, radio, F, words, vendor
  <2>4. fields \in [ 1 .. 3 -> F ]
    BY <1>2, <2>3
  <2>5. HeaderParts(3, words, 3, fields)
    BY <2>2, <2>4 DEF HeaderParts, F
  <2> HIDE DEF fields
  <2>6. QED
    BY <2>1, <2>5, PartsTell
<1>8. BareTap \in Taps
  <2> DEFINE words == << { 3 } >>
             fields == << radio(2, 4) >>
  <2>1. BareTap = TapHeader(words, fields)
    BY DEF BareTap
  <2>2. words \in [ 1 .. 1 -> SUBSET Nat ]
    OBVIOUS
  <2> HIDE DEF fs, radio, F, words
  <2>3. fields \in [ 1 .. 1 -> F ]
    BY <1>3
  <2>4. HeaderParts(1, words, 1, fields)
    BY <2>2, <2>3 DEF HeaderParts, F
  <2> HIDE DEF fields
  <2>5. QED
    BY <2>1, <2>4, PartsTell
<1>9. ASSUME NEW bit \in Nat PROVE LaterTap(flags, dbm, bit) \in Taps
  <2> DEFINE words == << { 1, 5, bit } >>
             fields == << fs, Signal(dbm), radio(4, 8) >>
  <2>1. LaterTap(flags, dbm, bit) = TapHeader(words, fields)
    BY DEF LaterTap
  <2>2. words \in [ 1 .. 1 -> SUBSET Nat ]
    OBVIOUS
  <2> HIDE DEF fs, radio, F, words
  <2>3. fields \in [ 1 .. 3 -> F ]
    BY <1>2, <1>3
  <2>4. HeaderParts(1, words, 3, fields)
    BY <2>2, <2>3 DEF HeaderParts, F
  <2> HIDE DEF fields
  <2>5. QED
    BY <2>1, <2>4, PartsTell
<1>10. QED
  BY <1>5, <1>6, <1>7, <1>8, <1>9

LEMMA HeadersTyped ==
  ASSUME NEW h \in Headers
  PROVE  /\ h[1] \in { "sent", "plain", "antennas", "vendor", "within", "behind", "bare" }
         /\ h[2] \in 0 .. 255 /\ h[3] \in -128 .. 127
<1> DEFINE flags == 0 .. 255
           signals == -128 .. 127
           layouts == { "sent", "plain", "antennas", "vendor", "within", "behind", "bare" }
<1>1. Headers \subseteq layouts \X flags \X signals
  BY ReceptionAssumption
<1> HIDE DEF flags, signals, layouts
<1>2. h[1] \in layouts /\ h[2] \in flags /\ h[3] \in signals
  BY <1>1
<1>3. QED
  BY <1>2 DEF flags, signals, layouts

LEMMA TapTells ==
  ASSUME NEW h \in Headers
  PROVE  Tap[h] \in Taps
<1>1. /\ h[1] \in { "sent", "plain", "antennas", "vendor", "within", "behind", "bare" }
      /\ h[2] \in Nat /\ h[3] \in Int
  <2>1. /\ h[1] \in { "sent", "plain", "antennas", "vendor", "within", "behind", "bare" }
        /\ h[2] \in 0 .. 255 /\ h[3] \in -128 .. 127
    BY HeadersTyped, Zenon
  <2>2. h[2] \in Nat /\ h[3] \in Int
    BY <2>1
  <2>3. QED
    BY <2>1, <2>2, Zenon
<1>2. SentTap \in Taps
  <2>1. 0 \in Nat /\ -30 \in Int
    OBVIOUS
  <2>2. QED
    BY <2>1, LayoutsTell, Zenon DEF SentTap
<1>3. LaterTap(h[2], h[3], 18) \in Taps /\ LaterTap(h[2], h[3], 27) \in Taps
  <2>1. 18 \in Nat /\ 27 \in Nat
    OBVIOUS
  <2>2. QED
    BY <1>1, <2>1, LayoutsTell
<1>4. /\ PlainTap(h[2], h[3]) \in Taps /\ AntennasTap(h[2], h[3]) \in Taps
      /\ VendorTap(h[2], h[3]) \in Taps /\ BareTap \in Taps
  BY <1>1, LayoutsTell
<1> DEFINE layout == h[1]
           plain == PlainTap(h[2], h[3])
           antennas == AntennasTap(h[2], h[3])
           vendor == VendorTap(h[2], h[3])
           within == LaterTap(h[2], h[3], 18)
           behind == LaterTap(h[2], h[3], 27)
<1>5. Tap[h] = CASE layout = "sent"     -> SentTap
                 [] layout = "plain"    -> plain
                 [] layout = "antennas" -> antennas
                 [] layout = "vendor"   -> vendor
                 [] layout = "within"   -> within
                 [] layout = "behind"   -> behind
                 [] layout = "bare"     -> BareTap
  BY DEF Tap
<1> HIDE DEF layout, plain, antennas, vendor, within, behind
<1>6. Tap[h] \in { SentTap, plain, antennas, vendor, within, behind, BareTap }
  BY <1>1, <1>5 DEF layout
<1>7. QED
  BY <1>2, <1>3, <1>4, <1>6 DEF plain, antennas, vendor, within, behind
-----------------------------------------------------------------------------
(* What stands behind the front of a buffer still does when the front is   *)
(* exchanged for one of the same length.                                   *)
LEMMA AtBehind ==
  ASSUME NEW x \in Buffer, NEW k \in 0 .. Len(x), NEW front \in Block(k),
         NEW y \in Buffer, NEW offset \in Nat, k <= offset, At(x, offset, y)
  PROVE  At(front \o Strip(x, k), offset, y)
<1>1. Len(x) \in Nat /\ Len(y) \in Nat
  BY DEF Buffer
<1>2. Strip(x, k) \in Buffer /\ Len(Strip(x, k)) = Len(x) - k
      /\ \A j \in 1 .. Len(x) - k : Strip(x, k)[j] = x[k + j]
  BY StripBytes
<1> DEFINE tail == Strip(x, k)
           w == front \o tail
<1> HIDE DEF tail
<1>3. Len(w) = Len(x) /\ \A j \in 1 .. Len(x) - k : w[k + j] = x[k + j]
  <2>1. tail \in Buffer /\ Len(tail) = Len(x) - k /\ \A j \in 1 .. Len(x) - k : tail[j] = x[k + j]
    BY <1>2 DEF tail
  <2>2. front \in Buffer /\ Len(front) = k
    BY DEF Block
  <2>3. Len(w) = k + (Len(x) - k) /\ \A j \in 1 .. Len(x) - k : w[k + j] = tail[j]
    <3>1. /\ Len(w) = Len(front) + Len(tail)
          /\ \A j \in 1 .. Len(tail) : w[Len(front) + j] = tail[j]
      BY <2>1, <2>2, ConcatBytes
    <3>2. QED
      BY <2>1, <2>2, <3>1
  <2>4. k + (Len(x) - k) = Len(x)
    BY <1>1
  <2> HIDE DEF w
  <2>5. QED
    BY <2>1, <2>3, <2>4, Zenon
<1> HIDE DEF w
<1>4. ASSUME NEW j \in 1 .. Len(y) PROVE w[offset + j] = y[j]
  <2>1. offset - k + j \in 1 .. Len(x) - k /\ k + (offset - k + j) = offset + j
    BY <1>1 DEF At
  <2>2. w[offset + j] = x[offset + j]
    BY <1>3, <2>1
  <2>3. QED
    BY <2>2 DEF At
<1>5. offset + Len(y) <= Len(w)
  BY <1>3 DEF At
<1>6. QED
  BY <1>4, <1>5 DEF At, w, tail

LEMMA ConcatAgain ==
  \A x, y, z \in Buffer : x \o (y \o z) = (x \o y) \o z
BY DEF Buffer

LEMMA LeadingWords ==
  ASSUME NEW n \in Nat \ {0}, NEW words \in [ 1 .. n -> SUBSET Nat ], NEW length \in Nat
  PROVE  /\ \A w \in 1 .. n : At(Leading(words, length), 4 * w, Word(words[w]))
         /\ At(Leading(words, length), 0, U8(0))
<1> DEFINE parts == [ w \in 1 .. n |-> Word(words[w]) ]
           zeros == U8(0) \o U8(0)
           head == zeros \o LE16(length)
<1>1. \A w \in 1 .. n : parts[w] \in Block(4)
  BY WordBytes
<1>2. parts \in [ 1 .. n -> Buffer ]
  BY <1>1 DEF Block
<1>3. Leading(words, length) = head \o FlattenSeq(parts)
  BY DEF Leading
<1>4. head \in Block(4) /\ At(head, 0, U8(0))
  <2>1. U8(0) \in Block(1) /\ LE16(length) \in Block(2)
    BY NumberBlock
  <2>2. zeros \in Block(2)
    BY <2>1, ConcatBlock
  <2>3. At(zeros, 0, U8(0))
    BY <2>1, AtItself, AtFront DEF Block
  <2> HIDE DEF zeros
  <2>4. head \in Block(4)
    BY <2>1, <2>2, ConcatBlock
  <2>5. At(head, 0, U8(0))
    BY <2>1, <2>2, <2>3, AtFront DEF Block
  <2>6. QED
    BY <2>4, <2>5
<1> HIDE DEF parts, head
<1>5. PICK g \in [ 1 .. n -> Buffer ] :
        /\ g[1] = parts[1] /\ \A i \in 2 .. n : g[i] = g[i - 1] \o parts[i]
        /\ FlattenSeq(parts) = g[n]
  BY <1>2, FlattenBytes
<1> DEFINE X == 1 .. n
           measure == [ i \in X |-> i ]
           Good(i) == /\ head \o g[i] \in Block(4 + 4 * i)
                      /\ \A w \in 1 .. i : At(head \o g[i], 4 * w, parts[w])
           P == { i \in X : Good(i) }
<1>6. ASSUME NEW i \in X, \A j \in X : measure[j] < measure[i] => j \in P
      PROVE  i \in P
  <2>1. CASE i = 1
    <3>1. head \o g[i] \in Block(4 + 4)
      BY <1>1, <1>4, <1>5, <2>1, ConcatBlock
    <3>2. At(head \o g[i], Len(head), parts[i])
      BY <1>1, <1>4, <1>5, <2>1, AtEnd DEF Block
    <3>3. Len(head) = 4
      BY <1>4 DEF Block
    <3>4. QED
      BY <2>1, <3>1, <3>2, <3>3
  <2>2. CASE i # 1
    <3> DEFINE x == head \o g[i - 1]
    <3>1. i - 1 \in X /\ measure[i - 1] < measure[i] /\ i \in 2 .. n
      BY <2>2
    <3>2. Good(i - 1)
      BY <1>6, <3>1
    <3>3. g[i] = g[i - 1] \o parts[i]
      BY <1>5, <3>1
    <3>4. head \o g[i] = x \o parts[i]
      <4>1. head \in Buffer /\ g[i - 1] \in Buffer /\ parts[i] \in Buffer
        BY <1>1, <1>4, <1>5, <3>1 DEF Block
      <4>2. head \o (g[i - 1] \o parts[i]) = (head \o g[i - 1]) \o parts[i]
        BY <4>1, ConcatAgain, Zenon
      <4>3. QED
        BY <3>3, <4>2, Zenon
    <3>5. x \in Block(4 + 4 * (i - 1)) /\ \A w \in 1 .. i - 1 : At(x, 4 * w, parts[w])
      BY <3>2
    <3> HIDE DEF x, Good
    <3>6. x \o parts[i] \in Block((4 + 4 * (i - 1)) + 4)
      BY <1>1, <3>5, ConcatBlock
    <3>7. (4 + 4 * (i - 1)) + 4 = 4 + 4 * i /\ 4 + 4 * (i - 1) = 4 * i
      OBVIOUS
    <3>8. At(x \o parts[i], Len(x), parts[i]) /\ Len(x) = 4 * i
      BY <1>1, <3>5, <3>7, AtEnd DEF Block
    <3>9. \A w \in 1 .. i - 1 : At(x \o parts[i], 4 * w, parts[w])
      <4>1. \A w \in 1 .. i - 1 : w \in X /\ 4 * w \in Nat
        OBVIOUS
      <4>2. QED
        BY <1>1, <3>5, <4>1, AtFront DEF Block
    <3>10. Good(i)
      <4>1. \A w \in 1 .. i : w = i \/ w \in 1 .. i - 1
        OBVIOUS
      <4>2. \A w \in 1 .. i : At(x \o parts[i], 4 * w, parts[w])
        BY <3>8, <3>9, <4>1
      <4>3. QED
        BY <3>4, <3>6, <3>7, <4>2 DEF Good
    <3>11. QED
      BY <3>10
  <2>3. QED
    BY <2>1, <2>2
<1>7. measure \in [ X -> Nat ] /\ n \in X
  OBVIOUS
<1>8. X \subseteq P
  <2> HIDE DEF X, measure, P
  <2>1. QED
    BY <1>6, <1>7, MeasureInduction
<1>9. Good(n)
  BY <1>7, <1>8
<1>10. At(head \o FlattenSeq(parts), 0, U8(0))
  <2>1. head \in Buffer /\ FlattenSeq(parts) \in Buffer /\ U8(0) \in Buffer /\ 0 \in Nat
    BY <1>4, <1>5, U8Bytes DEF Block
  <2>2. QED
    BY <1>4, <2>1, AtFront, Zenon
<1>11. QED
  BY <1>3, <1>5, <1>9, <1>10 DEF parts

(* How a header is put together: every field behind the padding that       *)
(* aligns it; at the end the length is known and stored in front.          *)
Built(upTo, n, words, m, fields) ==
  /\ upTo \in [ 0 .. m -> Buffer ] /\ upTo[0] = Leading(words, 0)
  /\ \A i \in 1 .. m :
       upTo[i] = upTo[i - 1] \o Padding((-Len(upTo[i - 1])) % fields[i][1]) \o fields[i][2]
  /\ TapHeader(words, fields) = Leading(words, Len(upTo[m])) \o Strip(upTo[m], 4 + 4 * n)

LEMMA TapHeaderBuilt ==
  ASSUME NEW n, NEW words, NEW m, NEW fields, HeaderParts(n, words, m, fields)
  PROVE  \E upTo : Built(upTo, n, words, m, fields)
<1>0. /\ n \in Nat \ {0} /\ words \in [ 1 .. n -> SUBSET Nat ]
      /\ m \in Nat /\ fields \in [ 1 .. m -> (Nat \ {0}) \X Buffer ]
  BY DEF HeaderParts
<1> DEFINE first == Leading(words, 0)
           grown(x, i) == x \o Padding((-Len(x)) % fields[i][1]) \o fields[i][2]
           Step(f) ==
             [ i \in 0 .. m |-> IF i = 0 THEN first ELSE grown(f[i - 1], i) ]
           upTo == CHOOSE f : f = Step(f)
           whole == upTo[m]
<1>1. Len(words) = n /\ Len(fields) = m
  BY <1>0
<1>2. TapHeader(words, fields) = Leading(words, Len(whole)) \o Strip(whole, 4 + 4 * n)
  BY <1>1 DEF TapHeader, Leading
<1>3. first \in Buffer
  BY <1>0, FrontBytes DEF Block
<1>4. ASSUME NEW x \in Buffer, NEW i \in 1 .. m PROVE grown(x, i) \in Buffer
  <2>1. /\ fields[i][1] \in Nat /\ fields[i][1] > 0 /\ fields[i][2] \in Buffer
        /\ Len(x) \in Nat
    BY <1>0 DEF Buffer
  <2> DEFINE pad == (-Len(x)) % fields[i][1]
  <2>2. pad \in Nat
    BY <2>1
  <2> HIDE DEF pad
  <2>3. Padding(pad) \in Buffer
    BY <2>2, PaddingBytes
  <2>4. x \o Padding(pad) \o fields[i][2] \in Buffer
    BY <2>1, <2>3, Chain3, Zenon
  <2>5. QED
    BY <2>4 DEF pad
<1> HIDE DEF grown, first
<1>5. PICK g \in [ 0 .. m -> Buffer ] :
        g[0] = first /\ \A i \in 1 .. m : g[i] = grown(g[i - 1], i)
  <2> DEFINE join == [ p \in (1 .. m) \X Buffer |-> grown(p[2], p[1]) ]
  <2>1. join \in [ (1 .. m) \X Buffer -> Buffer ]
    <3>1. \A p \in (1 .. m) \X Buffer : grown(p[2], p[1]) \in Buffer
      BY <1>4
    <3>2. QED
      BY <3>1
  <2>2. Count(m, Buffer, first, join)
    BY <1>0, <1>3, <2>1 DEF Count
  <2>3. PICK g : Counts(g, m, Buffer, first, join)
    <3> HIDE DEF join
    <3>1. QED
      BY <2>2, CountHasResult
  <2>4. g \in [ 0 .. m -> Buffer ] /\ g[0] = first
    BY <2>3 DEF Counts
  <2>5. ASSUME NEW i \in 1 .. m PROVE g[i] = grown(g[i - 1], i)
    <3>1. i - 1 \in 0 .. m /\ i \in 0 .. m
      BY <1>0
    <3>2. g[i] = join[<< i, g[i - 1] >>]
      BY <2>3 DEF Counts
    <3>3. << i, g[i - 1] >> \in (1 .. m) \X Buffer
      BY <2>4, <3>1
    <3>4. QED
      BY <3>2, <3>3
  <2>6. QED
    BY <2>4, <2>5
<1>6. g = Step(g)
  <2>1. \A i \in 0 .. m : g[i] = IF i = 0 THEN first ELSE grown(g[i - 1], i)
    <3>1. \A i \in 0 .. m : i # 0 => i \in 1 .. m
      OBVIOUS
    <3>2. QED
      BY <1>5, <3>1
  <2>2. g = [ i \in 0 .. m |-> g[i] ]
    BY <1>5
  <2>3. QED
    BY <2>1, <2>2
<1>7. upTo = Step(upTo)
  <2> HIDE DEF Step
  <2>1. QED
    BY <1>6
<1>8. upTo = g
  <2> HIDE DEF upTo
  <2> DEFINE X == 0 .. m
             measure == [ i \in X |-> i ]
             P == { i \in X : upTo[i] = g[i] }
  <2>1. ASSUME NEW i \in X, \A j \in X : measure[j] < measure[i] => j \in P
        PROVE  i \in P
    <3>1. CASE i = 0
      BY <1>5, <1>7, <3>1
    <3>2. CASE i # 0
      <4>1. i - 1 \in X /\ measure[i - 1] < measure[i] /\ i \in 1 .. m
        BY <1>0, <3>2
      <4>2. upTo[i - 1] = g[i - 1]
        BY <2>1, <4>1
      <4>3. upTo[i] = grown(upTo[i - 1], i)
        BY <1>7, <3>2
      <4>4. QED
        BY <1>5, <4>1, <4>2, <4>3
    <3>3. QED
      BY <3>1, <3>2
  <2>2. measure \in [ X -> Nat ]
    BY <1>0
  <2>3. X \subseteq P
    <3> HIDE DEF X, measure, P
    <3>1. QED
      BY <2>1, <2>2, MeasureInduction
  <2>4. upTo = [ i \in X |-> upTo[i] ] /\ g = [ i \in X |-> g[i] ]
    BY <1>5, <1>7
  <2>5. QED
    BY <2>3, <2>4
<1>9. QED
  <2> HIDE DEF upTo
  <2>1. QED
    BY <1>2, <1>5, <1>8 DEF grown, first, Built

LEMMA HeaderPlaced ==
  ASSUME NEW n, NEW words, NEW m, NEW fields, HeaderParts(n, words, m, fields)
  PROVE  \E place : Placed(TapHeader(words, fields), n, words, m, fields, place)
<1>1. /\ n \in Nat \ {0} /\ words \in [ 1 .. n -> SUBSET Nat ]
      /\ m \in Nat /\ fields \in [ 1 .. m -> (Nat \ {0}) \X Buffer ]
  BY DEF HeaderParts
<1>2. \E upTo : Built(upTo, n, words, m, fields)
  BY TapHeaderBuilt
<1>3. PICK upTo \in [ 0 .. m -> Buffer ] :
        /\ upTo[0] = Leading(words, 0)
        /\ \A i \in 1 .. m :
                upTo[i] = upTo[i - 1] \o Padding((-Len(upTo[i - 1])) % fields[i][1]) \o fields[i][2]
        /\ TapHeader(words, fields) = Leading(words, Len(upTo[m])) \o Strip(upTo[m], 4 + 4 * n)
  BY <1>2 DEF Built
<1> DEFINE place == [ i \in 0 .. m |-> Len(upTo[i]) ]
           front == Leading(words, Len(upTo[m]))
           whole == upTo[m]
           at(i) == Aligned(place[i - 1], fields[i][1])
<1>4. /\ place \in [ 0 .. m -> Nat ] /\ \A i \in 0 .. m : place[i] = Len(upTo[i])
      /\ m \in 0 .. m
  BY <1>1, <1>3 DEF Buffer
<1> HIDE DEF place
<1>5. upTo[0] \in Block(4 + 4 * n) /\ place[0] = 4 + 4 * n
  <2>1. 0 \in Nat /\ 0 \in 0 .. m
    BY <1>1
  <2>2. upTo[0] \in Block(4 + 4 * n)
    <3>1. Leading(words, 0) \in Block(4 + 4 * n)
      BY <1>1, <2>1, FrontBytes
    <3>2. QED
      BY <1>3, <3>1
  <2>3. QED
    BY <1>4, <2>1, <2>2 DEF Block
<1>6. ASSUME NEW i \in 1 .. m
      PROVE  /\ place[i - 1] <= at(i) /\ at(i) \in Nat
             /\ place[i] = at(i) + Len(fields[i][2])
             /\ At(upTo[i], at(i), fields[i][2])
             /\ \A x \in Buffer, o \in Nat : At(upTo[i - 1], o, x) => At(upTo[i], o, x)
  <2> DEFINE pad == (-Len(upTo[i - 1])) % fields[i][1]
             x == upTo[i - 1]
             y == fields[i][2]
  <2>1. /\ fields[i][1] \in Nat /\ fields[i][1] > 0 /\ y \in Buffer
        /\ i - 1 \in 0 .. m /\ i \in 0 .. m
    BY <1>1
  <2>2. x \in Buffer /\ Len(x) \in Nat /\ Len(x) = place[i - 1] /\ Len(y) \in Nat
    <3>1. x \in Buffer /\ Len(x) = place[i - 1]
      BY <1>3, <1>4, <2>1
    <3> HIDE DEF x, y
    <3>2. QED
      BY <2>1, <3>1 DEF Buffer
  <2>3. pad \in Nat /\ at(i) = Len(x) + pad
    BY <2>1, <2>2 DEF Aligned
  <2>4. upTo[i] = x \o Padding(pad) \o y
    BY <1>3
  <2> HIDE DEF pad, x, y, at
  <2>5. Padding(pad) \in Buffer /\ Len(Padding(pad)) = pad
    BY <2>3, PaddingBytes
  <2> DEFINE b == x \o Padding(pad)
  <2>6. b \in Buffer /\ Len(b) = at(i)
    <3> DEFINE p == Padding(pad)
    <3> HIDE DEF p
    <3>1. p \in Buffer /\ Len(p) = pad
      BY <2>5 DEF p
    <3>2. x \o p \in Buffer /\ Len(x \o p) = Len(x) + Len(p)
      BY <2>2, <3>1, ConcatBytes
    <3>3. QED
      BY <2>3, <3>1, <3>2 DEF p
  <2>7. \A z \in Buffer, o \in Nat : At(x, o, z) => At(b, o, z)
    BY <2>2, <2>5, AtFront
  <2> HIDE DEF b
  <2>8. upTo[i] = b \o y
    BY <2>4 DEF b
  <2>9. Len(upTo[i]) = at(i) + Len(y) /\ At(upTo[i], at(i), y)
    BY <2>1, <2>6, <2>8, ConcatBytes, AtEnd
  <2>10. \A z \in Buffer, o \in Nat : At(x, o, z) => At(upTo[i], o, z)
    BY <2>1, <2>6, <2>7, <2>8, AtFront
  <2>11. place[i] = at(i) + Len(y)
    BY <1>4, <2>1, <2>9
  <2>12. QED
    BY <2>2, <2>3, <2>9, <2>10, <2>11 DEF x, y
<1> HIDE DEF at
<1>7. \A i \in 0 .. m : place[i] >= 4 + 4 * n /\ \A j \in 1 .. i : At(upTo[i], at(j), fields[j][2])
  <2> DEFINE X == 0 .. m
             measure == [ i \in X |-> i ]
             P == { i \in X : /\ place[i] >= 4 + 4 * n
                              /\ \A j \in 1 .. i : At(upTo[i], at(j), fields[j][2]) }
  <2>1. ASSUME NEW i \in X, \A j \in X : measure[j] < measure[i] => j \in P
        PROVE  i \in P
    <3>1. CASE i = 0
      BY <1>1, <1>5, <3>1
    <3>2. CASE i # 0
      <4>1. i - 1 \in X /\ measure[i - 1] < measure[i] /\ i \in 1 .. m
        BY <1>1, <3>2
      <4>2. /\ place[i - 1] >= 4 + 4 * n
            /\ \A j \in 1 .. i - 1 : At(upTo[i - 1], at(j), fields[j][2])
        BY <2>1, <4>1
      <4>3. place[i] >= 4 + 4 * n
        <5>1. /\ place[i - 1] <= at(i) /\ at(i) \in Nat /\ place[i] = at(i) + Len(fields[i][2])
              /\ place[i - 1] \in Nat
          BY <1>4, <1>6, <4>1
        <5>2. Len(fields[i][2]) \in Nat
          BY <1>1, <4>1 DEF Buffer
        <5>3. QED
          BY <1>1, <4>2, <5>1, <5>2
      <4>4. \A j \in 1 .. i - 1 : At(upTo[i], at(j), fields[j][2])
        <5>1. \A j \in 1 .. i - 1 : j \in 1 .. m
          BY <1>1
        <5>2. \A j \in 1 .. m : fields[j][2] \in Buffer /\ at(j) \in Nat
          BY <1>1, <1>6
        <5>3. QED
          BY <1>6, <4>1, <4>2, <5>1, <5>2
      <4>5. \A j \in 1 .. i : j = i \/ j \in 1 .. i - 1
        OBVIOUS
      <4>6. \A j \in 1 .. i : At(upTo[i], at(j), fields[j][2])
        BY <1>6, <4>1, <4>4, <4>5
      <4>7. QED
        BY <4>3, <4>6
    <3>3. QED
      BY <3>1, <3>2
  <2>2. measure \in [ X -> Nat ]
    BY <1>1
  <2>3. X \subseteq P
    <3> HIDE DEF X, measure, P
    <3>1. QED
      BY <2>1, <2>2, MeasureInduction
  <2>4. QED
    BY <2>3
<1>8. /\ whole \in Buffer /\ Len(whole) = place[m] /\ place[m] \in Nat
      /\ 4 + 4 * n \in 0 .. Len(whole)
  <2>1. place[m] >= 4 + 4 * n /\ place[m] \in Nat /\ Len(whole) = place[m] /\ whole \in Buffer
    BY <1>3, <1>4, <1>7
  <2>2. QED
    BY <1>1, <2>1
<1>9. front \in Block(4 + 4 * n) /\ At(front, 2, LE16(Len(whole)))
      /\ At(front, 0, U8(0)) /\ \A w \in 1 .. n : At(front, 4 * w, Word(words[w]))
  BY <1>1, <1>8, FrontBytes, LeadingWords
<1> DEFINE buf == front \o Strip(whole, 4 + 4 * n)
           tail == Strip(whole, 4 + 4 * n)
<1>10. TapHeader(words, fields) = buf
  BY <1>3
<1> HIDE DEF front, whole
<1>11. ASSUME NEW i \in 1 .. m PROVE At(buf, at(i), fields[i][2])
  <2>1. /\ At(whole, at(i), fields[i][2]) /\ at(i) \in Nat /\ fields[i][2] \in Buffer
        /\ i \in 0 .. m /\ i - 1 \in 0 .. m
    BY <1>1, <1>4, <1>6, <1>7 DEF whole
  <2>2. 4 + 4 * n <= at(i)
    <3>1. place[i - 1] >= 4 + 4 * n /\ place[i - 1] <= at(i) /\ place[i - 1] \in Nat
      BY <1>4, <1>6, <1>7, <2>1
    <3>2. QED
      BY <1>1, <2>1, <3>1
  <2> DEFINE k == 4 + 4 * n
  <2> HIDE DEF k
  <2>3. At(front \o Strip(whole, k), at(i), fields[i][2])
    BY <1>8, <1>9, <2>1, <2>2, AtBehind DEF k
  <2>4. QED
    BY <2>3 DEF k
<1>12. /\ front \in Buffer /\ Len(front) = 4 + 4 * n
       /\ tail \in Buffer /\ Len(tail) = Len(whole) - (4 + 4 * n)
  BY <1>8, <1>9, StripBytes DEF Block
<1>13. buf = front \o tail
  OBVIOUS
<1> HIDE DEF tail, buf
<1>14. buf \in Buffer /\ Len(buf) = place[m]
  <2>1. Len(buf) = Len(front) + Len(tail) /\ buf \in Buffer
    BY <1>12, <1>13, ConcatBytes
  <2>2. QED
    BY <1>1, <1>8, <1>12, <2>1
<1>15. \A o \in Nat, x \in Buffer : At(front, o, x) => At(buf, o, x)
  BY <1>12, <1>13, AtFront
<1>16. \A w \in 1 .. n : At(buf, 4 * w, Word(words[w]))
  <2>1. \A w \in 1 .. n : 4 * w \in Nat /\ Word(words[w]) \in Buffer
    BY <1>1, WordBytes DEF Block
  <2>2. QED
    BY <1>9, <1>15, <2>1
<1>17. At(buf, 0, U8(0)) /\ At(buf, 2, LE16(Len(whole)))
  <2>1. 0 \in Nat /\ 2 \in Nat /\ U8(0) \in Buffer /\ LE16(Len(whole)) \in Buffer
    BY <1>8, NumberBytes
  <2>2. QED
    BY <1>9, <1>15, <2>1, Zenon
<1>18. ReadU8(buf, 0) = 0
  <2>1. Len(U8(0)) = 1 /\ U8(0)[1] = Num(0)
    BY U8Bytes
  <2>2. buf[0 + 1] = U8(0)[1]
    BY <1>17, <2>1 DEF At
  <2>3. Num(0)[3] = 0
    BY NumByte
  <2>4. QED
    BY <2>1, <2>2, <2>3 DEF ReadU8
<1>19. ReadLE16(buf, 2) = Len(whole)
  <2> DEFINE number == LE16(Len(whole))
             L == Len(whole)
  <2>1. number \in Buffer /\ Len(number) = 2
          /\ number[1] = Num(L % 256) /\ number[2] = Num(L \div 256)
    BY <1>8, LE16Bytes
  <2>2. L \in Nat
    BY <1>8
  <2> HIDE DEF number, L
  <2>3. buf[2 + 1] = number[1] /\ buf[2 + 2] = number[2]
    BY <1>17, <2>1 DEF At, number, L
  <2>4. buf[3] = Num(L % 256) /\ buf[4] = Num(L \div 256)
    BY <2>1, <2>3
  <2>5. buf[3][3] = L % 256 /\ buf[4][3] = L \div 256
    <3>1. L % 256 \in Nat /\ L \div 256 \in Nat
      BY <2>2
    <3>2. Num(L % 256)[3] = L % 256 /\ Num(L \div 256)[3] = L \div 256
      BY <3>1, NumByte, Zenon
    <3>3. QED
      BY <2>4, <3>2, Zenon
  <2>6. ReadLE16(buf, 2) = buf[3][3] + 256 * buf[4][3]
    BY DEF ReadLE16, ReadU8
  <2>7. ReadLE16(buf, 2) = (L % 256) + 256 * (L \div 256)
    BY <2>5, <2>6, Zenon
  <2>8. QED
    BY <2>2, <2>7 DEF L
<1>20. Placed(buf, n, words, m, fields, place)
  <2>1. \A i \in 1 .. m :
          /\ place[i - 1] <= Aligned(place[i - 1], fields[i][1])
          /\ place[i] = Aligned(place[i - 1], fields[i][1]) + Len(fields[i][2])
          /\ At(buf, Aligned(place[i - 1], fields[i][1]), fields[i][2])
    BY <1>6, <1>11 DEF at
  <2>2. 4 + 4 * n <= Len(buf)
    <3>1. m \in 0 .. m
      BY <1>1
    <3>2. QED
      BY <1>4, <1>7, <1>14, <3>1
  <2>3. QED
    BY <1>4, <1>5, <1>8, <1>14, <1>16, <1>18, <1>19, <2>1, <2>2 DEF Placed
<1>21. QED
  BY <1>10, <1>20

(* A byte of a word tells each of the bits it is the sum of.               *)
LEMMA SumTells ==
  \A a, b, c, d, e, f, g, h \in { 0, 1 } :
    LET s == a + 2 * b + 4 * c + 8 * d + 16 * e + 32 * f + 64 * g + 128 * h
    IN  /\ s % 2 = a /\ (s \div 2) % 2 = b /\ (s \div 4) % 2 = c /\ (s \div 8) % 2 = d
        /\ (s \div 16) % 2 = e /\ (s \div 32) % 2 = f /\ (s \div 64) % 2 = g
        /\ (s \div 128) % 2 = h
<1> SUFFICES ASSUME NEW a \in { 0, 1 }, NEW b \in { 0, 1 }, NEW c \in { 0, 1 }, NEW d \in { 0, 1 },
                    NEW e \in { 0, 1 }, NEW f \in { 0, 1 }, NEW g \in { 0, 1 }, NEW h \in { 0, 1 }
             PROVE  LET s == a + 2 * b + 4 * c + 8 * d + 16 * e + 32 * f + 64 * g + 128 * h
                    IN  /\ s % 2 = a /\ (s \div 2) % 2 = b /\ (s \div 4) % 2 = c /\ (s \div 8) % 2 = d
                        /\ (s \div 16) % 2 = e /\ (s \div 32) % 2 = f /\ (s \div 64) % 2 = g
                        /\ (s \div 128) % 2 = h
  BY Zenon
<1> DEFINE s == a + 2 * b + 4 * c + 8 * d + 16 * e + 32 * f + 64 * g + 128 * h
<1>1. s % 2 = a
  OBVIOUS
<1>2. (s \div 2) % 2 = b
  OBVIOUS
<1>3. (s \div 4) % 2 = c
  OBVIOUS
<1>4. (s \div 8) % 2 = d
  OBVIOUS
<1>5. (s \div 16) % 2 = e
  OBVIOUS
<1>6. (s \div 32) % 2 = f
  OBVIOUS
<1>7. (s \div 64) % 2 = g
  OBVIOUS
<1>8. (s \div 128) % 2 = h
  OBVIOUS
<1>9. QED
  BY <1>1, <1>2, <1>3, <1>4, <1>5, <1>6, <1>7, <1>8

LEMMA WordTells ==
  ASSUME NEW bits \in SUBSET Nat, NEW j \in 1 .. 4, NEW b \in 1 .. 8
  PROVE  ((Word(bits)[j][3] \div BitValue[b]) % 2 = 1) <=> (8 * (j - 1) + b - 1 \in bits)
<1> DEFINE value(i) == IF 8 * (j - 1) + i - 1 \in bits THEN BitValue[i] ELSE 0
           bit(i) == IF 8 * (j - 1) + i - 1 \in bits THEN 1 ELSE 0
           sum == value(1) + value(2) + value(3) + value(4)
                    + value(5) + value(6) + value(7) + value(8)
           s == bit(1) + 2 * bit(2) + 4 * bit(3) + 8 * bit(4) + 16 * bit(5) + 32 * bit(6)
                  + 64 * bit(7) + 128 * bit(8)
<1>1. Word(bits)[j] = Num(sum)
  BY DEF Word
<1>2. /\ value(1) = bit(1) /\ value(2) = 2 * bit(2) /\ value(3) = 4 * bit(3)
      /\ value(4) = 8 * bit(4) /\ value(5) = 16 * bit(5) /\ value(6) = 32 * bit(6)
      /\ value(7) = 64 * bit(7) /\ value(8) = 128 * bit(8)
  BY DEF BitValue
<1>3. \A i \in 1 .. 8 : bit(i) \in { 0, 1 } /\ (bit(i) = 1 <=> 8 * (j - 1) + i - 1 \in bits)
  OBVIOUS
<1> HIDE DEF value, bit
<1>4. sum = s
  BY <1>2
<1>5. /\ bit(1) \in { 0, 1 } /\ bit(2) \in { 0, 1 } /\ bit(3) \in { 0, 1 } /\ bit(4) \in { 0, 1 }
      /\ bit(5) \in { 0, 1 } /\ bit(6) \in { 0, 1 } /\ bit(7) \in { 0, 1 } /\ bit(8) \in { 0, 1 }
  BY <1>3
<1>6. /\ s % 2 = bit(1) /\ (s \div 2) % 2 = bit(2) /\ (s \div 4) % 2 = bit(3)
      /\ (s \div 8) % 2 = bit(4) /\ (s \div 16) % 2 = bit(5) /\ (s \div 32) % 2 = bit(6)
      /\ (s \div 64) % 2 = bit(7) /\ (s \div 128) % 2 = bit(8)
  BY <1>5, SumTells
<1>7. s \in Nat
  BY <1>5
<1> HIDE DEF s, sum
<1>8. Word(bits)[j][3] = s
  BY <1>1, <1>4, <1>7, NumByte, Zenon
<1>9. (s \div BitValue[b]) % 2 = bit(b)
  <2>1. /\ BitValue[1] = 1 /\ BitValue[2] = 2 /\ BitValue[3] = 4 /\ BitValue[4] = 8
        /\ BitValue[5] = 16 /\ BitValue[6] = 32 /\ BitValue[7] = 64 /\ BitValue[8] = 128
    BY DEF BitValue
  <2>2. s \div 1 = s
    BY <1>7
  <2>3. b \in { 1, 2, 3, 4, 5, 6, 7, 8 }
    OBVIOUS
  <2>4. QED
    BY <1>6, <2>1, <2>2, <2>3
<1>10. QED
  BY <1>3, <1>8, <1>9

(* The bits of a header are those of its words.                            *)
LEMMA PresentBits ==
  ASSUME NEW buf, NEW n \in Nat \ {0}, NEW words \in [ 1 .. n -> SUBSET Nat ],
         NEW m, NEW fields, NEW place, Placed(buf, n, words, m, fields, place),
         NEW w \in 0 .. n - 1, NEW bit \in 0 .. 31
  PROVE  Present(buf, 32 * w + bit) <=> bit \in words[w + 1]
<1> DEFINE word == Word(words[w + 1])
           j == 1 + (bit \div 8)
           b == 1 + (bit % 8)
<1>1. w + 1 \in 1 .. n /\ words[w + 1] \in SUBSET Nat
  OBVIOUS
<1>2. At(buf, 4 * (w + 1), word) /\ Len(word) = 4
  BY <1>1, WordBytes DEF Placed, Block
<1>3. j \in 1 .. 4 /\ b \in 1 .. 8 /\ 8 * (j - 1) + b - 1 = bit
  OBVIOUS
<1>4. 4 + ((32 * w + bit) \div 8) = 4 * (w + 1) + (bit \div 8) /\ (32 * w + bit) % 8 = bit % 8
  OBVIOUS
<1>5. ReadU8(buf, 4 + ((32 * w + bit) \div 8)) = word[j][3]
  <2> HIDE DEF word
  <2>1. buf[4 * (w + 1) + j] = word[j]
    BY <1>2, <1>3 DEF At
  <2>2. 4 + ((32 * w + bit) \div 8) + 1 = 4 * (w + 1) + j
    BY <1>4
  <2>3. QED
    BY <2>1, <2>2 DEF ReadU8
<1>6. Present(buf, 32 * w + bit) <=> (word[j][3] \div BitValue[b]) % 2 = 1
  BY <1>4, <1>5 DEF Present
<1> HIDE DEF j, b
<1>7. QED
  BY <1>1, <1>3, <1>6, WordTells

(* Bit 31 says that another word follows, so the words are counted.        *)
LEMMA WordsCounted ==
  ASSUME NEW buf, NEW n \in Nat \ {0}, NEW words \in [ 1 .. n -> SUBSET Nat ],
         NEW m, NEW fields, NEW place, Placed(buf, n, words, m, fields, place),
         \A w \in 1 .. n : 31 \in words[w] <=> w < n
  PROVE  Words(buf, Len(buf)) = { n - 1 }
<1>1. Len(buf) \in Nat /\ 4 + 4 * n <= Len(buf)
  BY DEF Placed, Buffer
<1>2. \A w \in 0 .. n - 1 : Present(buf, 32 * w + 31) <=> w < n - 1
  <2>1. ASSUME NEW w \in 0 .. n - 1 PROVE Present(buf, 32 * w + 31) <=> 31 \in words[w + 1]
    <3>1. 31 \in 0 .. 31
      OBVIOUS
    <3>2. QED
      BY <3>1, PresentBits
  <2>2. \A w \in 0 .. n - 1 : w + 1 \in 1 .. n /\ (w + 1 < n <=> w < n - 1)
    OBVIOUS
  <2>3. QED
    BY <2>1, <2>2
<1>3. n - 1 \in Words(buf, Len(buf))
  <2>1. n - 1 \in 0 .. (Len(buf) \div 4) /\ 8 + 4 * (n - 1) <= Len(buf)
    BY <1>1
  <2>2. \A w \in 0 .. (n - 1) - 1 : w \in 0 .. n - 1 /\ w < n - 1
    OBVIOUS
  <2>3. n - 1 \in 0 .. n - 1 /\ ~(n - 1 < n - 1)
    OBVIOUS
  <2>4. QED
    BY <1>2, <2>1, <2>2, <2>3 DEF Words, Ext
<1>4. ASSUME NEW k \in Words(buf, Len(buf)) PROVE k = n - 1
  <2>1. /\ k \in Nat /\ \A w \in 0 .. k - 1 : Present(buf, 32 * w + 31)
        /\ ~Present(buf, 32 * k + 31)
    BY <1>1 DEF Words, Ext
  <2>2. CASE k < n - 1
    <3>1. k \in 0 .. n - 1
      BY <2>1, <2>2
    <3>2. QED
      BY <1>2, <2>1, <2>2, <3>1
  <2>3. CASE k > n - 1
    <3>1. n - 1 \in 0 .. k - 1 /\ n - 1 \in 0 .. n - 1
      BY <2>1, <2>3
    <3> DEFINE l == n - 1
    <3>2. l \in 0 .. k - 1 /\ l \in 0 .. n - 1 /\ ~(l < n - 1)
      BY <3>1
    <3> HIDE DEF l
    <3>3. Present(buf, 32 * l + 31) /\ ~Present(buf, 32 * l + 31)
      BY <1>2, <2>1, <3>2, Zenon
    <3>4. QED
      BY <3>3
  <2>4. QED
    BY <2>1, <2>2, <2>3
<1>5. QED
  BY <1>3, <1>4

LEMMA SizesKnown ==
  \A i \in 1 .. 23 : /\ NamespaceSizes[i][1] \in Nat /\ NamespaceSizes[i][2] \in Nat
                     /\ (NamespaceSizes[i][1] # 0 => NamespaceSizes[i][2] >= 1)
<1> DEFINE S == { << 0, 0 >>, << 1, 1 >>, << 1, 3 >>, << 2, 2 >>, << 2, 4 >>, << 2, 12 >>,
                  << 4, 8 >>, << 8, 8 >>, << 8, 12 >> }
<1>1. \A p \in S : p[1] \in Nat /\ p[2] \in Nat /\ (p[1] # 0 => p[2] >= 1)
  OBVIOUS
<1>2. NamespaceSizes \in [ 1 .. 23 -> S ]
  BY DEF NamespaceSizes
<1> HIDE DEF S
<1>3. QED
  BY <1>1, <1>2

LEMMA TakenTyped ==
  ASSUME NEW s \in TapStates, NEW length \in Nat, NEW align \in Nat \ {0}, NEW size \in Nat
  PROVE  /\ Taken(s, length, align, size) \in TapStates
         /\ s.end = "no" =>
              \/ Taken(s, length, align, size).end = "bad"
              \/ /\ Taken(s, length, align, size).end = "no"
                 /\ size <= Taken(s, length, align, size).arg
                 /\ Taken(s, length, align, size).arg <= length
<1> DEFINE at == Aligned(s.arg, align)
<1>1. at \in Nat
  BY DEF Aligned, TapStates
<1> HIDE DEF at
<1>2. Taken(s, length, align, size) =
        IF at + size > length THEN [ s EXCEPT !.end = "bad" ] ELSE [ s EXCEPT !.arg = at + size ]
  BY DEF Taken, at
<1>3. CASE at + size > length
  BY <1>1, <1>2, <1>3 DEF TapStates
<1>4. CASE ~(at + size > length)
  BY <1>1, <1>2, <1>4 DEF TapStates
<1>5. QED
  BY <1>3, <1>4

LEMMA TakeFieldTyped ==
  ASSUME NEW buf \in Buffer, NEW length \in 0 .. Len(buf), NEW s \in TapStates, NEW bit \in 0 .. 31,
         s.end = "no"
  PROVE  TakeField(buf, s, length, bit) \in TapStates
<1> DEFINE align == NamespaceSizes[bit + 1][1]
           size == NamespaceSizes[bit + 1][2]
           taken == Taken(s, length, align, size)
           value == ReadU8(buf, taken.arg - 1)
           latest == [ taken EXCEPT !.flags = IF bit = TapFlags THEN value ELSE @,
                                  !.rssi = IF bit = DbmAntsignal THEN SignedChar(value) ELSE @ ]
<1>1. TakeField(buf, s, length, bit) =
        IF ~s.known THEN [ s EXCEPT !.arg = s.next_ns_data ]
        ELSE IF s.again \/ bit >= Len(NamespaceSizes) THEN [ s EXCEPT !.end = "done" ]
        ELSE IF align = 0 THEN [ s EXCEPT !.arg = s.next_ns_data, !.known = FALSE ]
        ELSE IF taken.end # "no" THEN taken
        ELSE latest
  BY DEF TakeField
<1>2. /\ [ s EXCEPT !.arg = s.next_ns_data ] \in TapStates
      /\ [ s EXCEPT !.end = "done" ] \in TapStates
      /\ [ s EXCEPT !.arg = s.next_ns_data, !.known = FALSE ] \in TapStates
  BY DEF TapStates
<1>3. ASSUME bit < Len(NamespaceSizes), align # 0
      PROVE  taken \in TapStates /\ (taken.end = "no" => latest \in TapStates)
  <2>1. bit + 1 \in 1 .. 23
    BY <1>3 DEF NamespaceSizes
  <2>2. \A i \in 1 .. 23 : /\ NamespaceSizes[i][1] \in Nat /\ NamespaceSizes[i][2] \in Nat
                           /\ (NamespaceSizes[i][1] # 0 => NamespaceSizes[i][2] >= 1)
    BY SizesKnown, Zenon
  <2>3. align \in Nat \ {0} /\ size \in Nat /\ size >= 1
    BY <1>3, <2>1, <2>2
  <2> HIDE DEF align, size, taken, value
  <2>4. /\ taken \in TapStates
        /\ \/ taken.end = "bad"
           \/ taken.end = "no" /\ size <= taken.arg /\ taken.arg <= length
    BY <2>3, TakenTyped DEF taken
  <2>5. ASSUME taken.end = "no" PROVE latest \in TapStates
    <3>1. taken.arg \in Nat /\ taken.arg - 1 \in Nat /\ taken.arg - 1 < Len(buf) /\ Len(buf) \in Nat
      BY <2>3, <2>4, <2>5 DEF TapStates, Buffer
    <3>2. value \in Nat
      BY <3>1, ByteRead DEF value
    <3>3. SignedChar(value) \in Int
      BY <3>2 DEF SignedChar
    <3>4. QED
      BY <2>4, <3>2, <3>3 DEF TapStates
  <2>6. QED
    BY <2>4, <2>5
<1> HIDE DEF align, taken, latest
<1>4. bit >= Len(NamespaceSizes) \/ bit < Len(NamespaceSizes)
  BY DEF NamespaceSizes
<1>5. QED
  BY <1>1, <1>2, <1>3, <1>4

LEMMA TakeVendorTyped ==
  ASSUME NEW buf \in Buffer, NEW length \in 0 .. Len(buf), NEW s \in TapStates, s.end = "no"
  PROVE  TakeVendor(buf, s, length) \in TapStates
<1> DEFINE head == Taken(s, length, 2, 6)
           next == head.arg + ReadLE16(buf, head.arg - 2)
           latest == [ s EXCEPT !.arg = next, !.next_ns_data = next,
                              !.reset_on_ext = TRUE, !.known = FALSE ]
<1>1. TakeVendor(buf, s, length) =
        IF head.end # "no" \/ next > length THEN [ s EXCEPT !.end = "bad" ] ELSE latest
  BY DEF TakeVendor
<1> HIDE DEF head
<1>2. /\ head \in TapStates
      /\ \/ head.end = "bad"
         \/ head.end = "no" /\ 6 <= head.arg /\ head.arg <= length
  <2>1. 2 \in Nat \ {0} /\ 6 \in Nat /\ length \in Nat
    BY DEF Buffer
  <2>2. QED
    BY <2>1, TakenTyped DEF head
<1>3. ASSUME head.end = "no" PROVE latest \in TapStates
  <2>1. head.arg - 2 \in Nat /\ head.arg - 2 + 1 < Len(buf) /\ head.arg \in Nat
    BY <1>2, <1>3 DEF TapStates, Buffer
  <2>2. next \in Nat
    BY <2>1, WordRead
  <2> HIDE DEF next
  <2>3. QED
    BY <2>2 DEF TapStates
<1>4. [ s EXCEPT !.end = "bad" ] \in TapStates
  BY DEF TapStates
<1> HIDE DEF next, latest
<1>5. QED
  BY <1>1, <1>3, <1>4

LEMMA VisitTyped ==
  ASSUME NEW buf \in Buffer, NEW length \in 0 .. Len(buf), NEW s \in TapStates, NEW k \in Nat
  PROVE  Visit(buf, length, s, k) \in TapStates
<1> DEFINE bit == k % 32
           plain == Taken(s, length, 1, 0)
<1>1. bit \in 0 .. 31
  OBVIOUS
<1> HIDE DEF bit
<1>2. CASE s.end # "no" \/ ~Present(buf, k)
  BY <1>2 DEF Visit
<1>3. CASE s.end = "no" /\ Present(buf, k)
  <2>1. plain \in TapStates
    <3>1. 1 \in Nat \ {0} /\ 0 \in Nat /\ length \in Nat
      BY DEF Buffer
    <3>2. QED
      BY <3>1, TakenTyped
  <2> HIDE DEF plain
  <2>2. TakeNamespace(s, length) \in TapStates /\ TakeExt(s, length) \in TapStates
    BY <2>1 DEF TakeNamespace, TakeExt, TapStates, plain
  <2>3. TakeVendor(buf, s, length) \in TapStates /\ TakeField(buf, s, length, bit) \in TapStates
    BY <1>1, <1>3, TakeVendorTyped, TakeFieldTyped
  <2>4. Visit(buf, length, s, k) \in { TakeNamespace(s, length), TakeExt(s, length),
                                       TakeVendor(buf, s, length), TakeField(buf, s, length, bit) }
    BY <1>3 DEF Visit, bit
  <2>5. QED
    BY <2>2, <2>3, <2>4
<1>4. QED
  BY <1>2, <1>3

LEMMA ParseTurns ==
  ASSUME NEW buf, NEW n \in Nat \ {0}, NEW words, NEW m, NEW fields, NEW place,
         Placed(buf, n, words, m, fields, place),
         Words(buf, Len(buf)) = { n - 1 },
         NEW held, held.flags \in Nat, held.rssi \in Int, held.next_ns_data \in Nat
  PROVE  \E after :
           /\ Turns(after, buf, n, held)
           /\ RadiotapParse(buf, held) =
                [ ok |-> after[32 * n].end # "bad", length |-> Len(buf),
                  flags |-> after[32 * n].flags, rssi |-> after[32 * n].rssi ]
<1> DEFINE length == ReadLE16(buf, 2)
           l == CHOOSE l \in Words(buf, length) : TRUE
           start == [ arg |-> 8 + 4 * l, next_ns_data |-> held.next_ns_data, known |-> TRUE,
                      reset_on_ext |-> FALSE, again |-> FALSE, end |-> "no",
                      flags |-> held.flags, rssi |-> held.rssi ]
           Step(f) == [ k \in 0 .. 32 * (l + 1) |->
                          IF k = 0 THEN start ELSE Visit(buf, length, f[k - 1], k - 1) ]
           after == CHOOSE f : f = Step(f)
           end == after[32 * (l + 1)]
           refused == [ ok |-> FALSE, length |-> 0, flags |-> held.flags, rssi |-> held.rssi ]
<1>1. /\ buf \in Buffer /\ length = Len(buf) /\ Len(buf) \in Nat /\ ReadU8(buf, 0) = 0
      /\ 8 <= Len(buf)
  BY DEF Placed, Buffer
<1>2. l = n - 1
  BY <1>1
<1>3. RadiotapParse(buf, held) =
        IF ~Fits(buf, 0, 8) \/ ReadU8(buf, 0) # 0 \/ ~Fits(buf, 0, length) \/ Words(buf, length) = {}
          THEN refused
          ELSE [ ok |-> end.end # "bad", length |-> length, flags |-> end.flags, rssi |-> end.rssi ]
  BY Zenon DEF RadiotapParse
<1> HIDE DEF l, after, length
<1>4. Fits(buf, 0, 8) /\ Fits(buf, 0, length) /\ Words(buf, length) # {}
  <2>1. Words(buf, length) = { n - 1 }
    BY <1>1, Zenon
  <2>2. 0 + 8 <= Len(buf) /\ 0 + length <= Len(buf)
    BY <1>1
  <2>3. QED
    BY <2>1, <2>2 DEF Fits
<1>5. RadiotapParse(buf, held) =
        [ ok |-> end.end # "bad", length |-> length, flags |-> end.flags, rssi |-> end.rssi ]
  BY <1>1, <1>3, <1>4, Zenon
<1>6. l + 1 = n /\ 8 + 4 * l = 4 + 4 * n
  BY <1>2
<1>7. start = Start(n, held) /\ Start(n, held) \in TapStates
  <2>1. start = Start(n, held)
    BY <1>6, Zenon DEF Start
  <2>2. 4 + 4 * n \in Nat
    OBVIOUS
  <2>3. Start(n, held) \in TapStates
    BY <2>2 DEF Start, TapStates
  <2>4. QED
    BY <2>1, <2>3
<1> DEFINE N == 32 * n
           visited == [ p \in (1 .. N) \X TapStates |-> Visit(buf, Len(buf), p[2], p[1] - 1) ]
<1>8. visited \in [ (1 .. N) \X TapStates -> TapStates ]
  <2>1. \A p \in (1 .. N) \X TapStates : Visit(buf, Len(buf), p[2], p[1] - 1) \in TapStates
    <3>1. ASSUME NEW p \in (1 .. N) \X TapStates
          PROVE  Visit(buf, Len(buf), p[2], p[1] - 1) \in TapStates
      <4>1. p[2] \in TapStates /\ p[1] - 1 \in Nat /\ Len(buf) \in 0 .. Len(buf)
        BY <1>1
      <4>2. QED
        BY <1>1, <4>1, VisitTyped
    <3>2. QED
      BY <3>1
  <2>2. QED
    BY <2>1
<1>9. Count(N, TapStates, Start(n, held), visited)
  BY <1>7, <1>8 DEF Count
<1>10. PICK g : Counts(g, N, TapStates, Start(n, held), visited)
  <2> HIDE DEF visited, N
  <2>1. QED
    BY <1>9, CountHasResult
<1>11. g \in [ 0 .. N -> TapStates ] /\ g[0] = start
  BY <1>7, <1>10 DEF Counts
<1>12. ASSUME NEW k \in 1 .. N PROVE g[k] = Visit(buf, length, g[k - 1], k - 1)
  <2>1. k - 1 \in 0 .. N
    OBVIOUS
  <2>2. g[k] = visited[<< k, g[k - 1] >>]
    BY <1>10 DEF Counts
  <2>3. << k, g[k - 1] >> \in (1 .. N) \X TapStates
    BY <1>11, <2>1
  <2>4. QED
    BY <1>1, <2>2, <2>3
<1> HIDE DEF visited, start
<1>13. g = Step(g)
  <2>1. \A k \in 0 .. N : g[k] = IF k = 0 THEN start ELSE Visit(buf, length, g[k - 1], k - 1)
    <3>1. \A k \in 0 .. N : k # 0 => k \in 1 .. N
      OBVIOUS
    <3>2. QED
      BY <1>11, <1>12, <3>1
  <2>2. g = [ k \in 0 .. N |-> g[k] ]
    BY <1>11
  <2>3. QED
    BY <1>6, <2>1, <2>2
<1>14. after = Step(after)
  <2> HIDE DEF Step
  <2>1. QED
    BY <1>13 DEF after
<1>15. Turns(after, buf, n, held)
  <2>1. 0 \in 0 .. N /\ \A k \in 1 .. N : k \in 0 .. N /\ k # 0
    OBVIOUS
  <2>2. \A k \in 0 .. N : after[k] = IF k = 0 THEN start ELSE Visit(buf, length, after[k - 1], k - 1)
    BY <1>6, <1>14
  <2>3. after[0] = start /\ \A k \in 1 .. N : after[k] = Visit(buf, length, after[k - 1], k - 1)
    BY <2>1, <2>2
  <2>4. QED
    BY <1>1, <1>7, <2>3 DEF Turns
<1>16. QED
  BY <1>1, <1>5, <1>6, <1>15

LEMMA TurnsSkip ==
  ASSUME NEW buf, NEW n, NEW words, NEW m, NEW fields, NEW place, NEW held, NEW after,
         Parsing(buf, n, words, m, fields, place, held, after),
         NEW w \in 0 .. n - 1, NEW b \in 0 .. 32, NEW c \in b .. 32,
         \A x \in words[w + 1] : x < b \/ c <= x,
         NEW s, Before(after, w, b, s)
  PROVE  Before(after, w, c, s)
<1>1. /\ n \in Nat \ {0} /\ words \in [ 1 .. n -> SUBSET Nat ]
      /\ Placed(buf, n, words, m, fields, place)
      /\ \A k \in 1 .. 32 * n : after[k] = Visit(buf, Len(buf), after[k - 1], k - 1)
  BY DEF Parsing, HeaderParts, Turns
<1> DEFINE X == 0 .. c - b
           measure == [ i \in X |-> i ]
           P == { i \in X : after[32 * w + b + i] = s }
<1>2. ASSUME NEW i \in X, \A j \in X : measure[j] < measure[i] => j \in P
      PROVE  i \in P
  <2>1. CASE i = 0
    BY <2>1 DEF Before
  <2>2. CASE i # 0
    <3> DEFINE k == 32 * w + b + i
               bit == b + i - 1
    <3>1. i - 1 \in X /\ measure[i - 1] < measure[i]
      BY <2>2
    <3>2. after[32 * w + b + (i - 1)] = s
      BY <1>2, <3>1
    <3>3. /\ k \in 1 .. 32 * n /\ k - 1 = 32 * w + b + (i - 1) /\ k - 1 = 32 * w + bit
          /\ bit \in 0 .. 31 /\ bit >= b /\ bit < c
      BY <1>1, <2>2
    <3> HIDE DEF k, bit
    <3>4. after[k] = Visit(buf, Len(buf), s, k - 1)
      BY <1>1, <3>2, <3>3
    <3>5. bit \notin words[w + 1]
      BY <3>3
    <3>6. Present(buf, 32 * w + bit) <=> bit \in words[w + 1]
      BY <1>1, <3>3, PresentBits
    <3>7. ~Present(buf, k - 1)
      BY <3>3, <3>5, <3>6
    <3>8. after[k] = s
      BY <3>4, <3>7 DEF Visit
    <3>9. QED
      BY <3>8 DEF k
  <2>3. QED
    BY <2>1, <2>2
<1>3. measure \in [ X -> Nat ] /\ c - b \in X
  OBVIOUS
<1>4. X \subseteq P
  <2> HIDE DEF X, measure, P
  <2>1. QED
    BY <1>2, <1>3, MeasureInduction
<1>5. after[32 * w + b + (c - b)] = s
  BY <1>3, <1>4
<1>6. 32 * w + b + (c - b) = 32 * w + c
  OBVIOUS
<1>7. QED
  BY <1>5, <1>6 DEF Before

(* The turn that is due.                                                   *)
LEMMA DueTurn ==
  ASSUME NEW buf, NEW n, NEW words, NEW m, NEW fields, NEW place, NEW held, NEW after,
         Parsing(buf, n, words, m, fields, place, held, after),
         NEW w \in 0 .. n - 1, NEW b, NEW bit, NEW behind, Due(words, w, b, bit, behind),
         NEW s, Before(after, w, b, s), s.end = "no"
  PROVE  /\ bit = RadiotapNamespace => Before(after, w, behind, TakeNamespace(s, Len(buf)))
         /\ bit = VendorNamespace => Before(after, w, behind, TakeVendor(buf, s, Len(buf)))
         /\ bit = Ext => Before(after, w, behind, TakeExt(s, Len(buf)))
         /\ bit \notin { RadiotapNamespace, VendorNamespace, Ext } =>
              Before(after, w, behind, TakeField(buf, s, Len(buf), bit))
<1>1. /\ n \in Nat \ {0} /\ words \in [ 1 .. n -> SUBSET Nat ]
      /\ Placed(buf, n, words, m, fields, place)
      /\ \A k \in 1 .. 32 * n : after[k] = Visit(buf, Len(buf), after[k - 1], k - 1)
  BY DEF Parsing, HeaderParts, Turns
<1>2. /\ b \in 0 .. 32 /\ bit \in b .. 32 /\ bit \in 0 .. 31 /\ behind = bit + 1
      /\ bit \in words[w + 1] /\ \A x \in words[w + 1] : x < b \/ bit <= x
  BY DEF Due
<1>3. Before(after, w, bit, s)
  BY <1>2, TurnsSkip
<1> DEFINE k == 32 * w + behind
<1>4. k \in 1 .. 32 * n /\ k - 1 = 32 * w + bit /\ (32 * w + bit) % 32 = bit
  <2>1. w \in Nat /\ w + 1 <= n /\ n \in Nat /\ bit \in 0 .. 31 /\ behind = bit + 1
    BY <1>1, <1>2
  <2>2. (32 * w + bit) % 32 = bit
    BY <2>1
  <2>3. QED
    BY <2>1, <2>2
<1>5. Present(buf, 32 * w + bit)
  BY <1>1, <1>2, PresentBits
<1>6. after[k] = Visit(buf, Len(buf), s, 32 * w + bit)
  <2> HIDE DEF k
  <2>1. QED
    BY <1>1, <1>3, <1>4 DEF Before
<1>7. Visit(buf, Len(buf), s, 32 * w + bit) =
        IF bit = RadiotapNamespace THEN TakeNamespace(s, Len(buf))
        ELSE IF bit = VendorNamespace THEN TakeVendor(buf, s, Len(buf))
        ELSE IF bit = Ext THEN TakeExt(s, Len(buf))
        ELSE TakeField(buf, s, Len(buf), bit)
  BY <1>4, <1>5 DEF Visit
<1>8. QED
  <2>1. 29 # 30 /\ 29 # 31 /\ 30 # 31
    OBVIOUS
  <2>2. QED
    BY <1>6, <1>7, <2>1, Zenon DEF Before, RadiotapNamespace, VendorNamespace, Ext

LEMMA FieldTurn ==
  ASSUME NEW buf, NEW n, NEW words, NEW m, NEW fields, NEW place, NEW held, NEW after,
         Parsing(buf, n, words, m, fields, place, held, after),
         NEW w \in 0 .. n - 1, NEW b, NEW bit, NEW behind, Due(words, w, b, bit, behind),
         NEW s, Before(after, w, b, s),
         NEW i \in 1 .. m, NEW next, NEW reset, NEW flags, NEW rssi,
         FieldDue(fields, place, i, bit, s, next, reset, flags, rssi)
  PROVE  Before(after, w, behind,
                TapState(place[i], next, TRUE, reset,
                         IF bit = TapFlags THEN LastOf(fields[i][2]) ELSE flags,
                         IF bit = DbmAntsignal THEN SignedChar(LastOf(fields[i][2])) ELSE rssi))
<1> DEFINE align == fields[i][1]
           x == fields[i][2]
           at == Aligned(place[i - 1], align)
           arg == place[i - 1]
           length == Len(buf)
<1>1. /\ bit \in 0 .. 22 /\ NamespaceSizes[bit + 1][1] = align
      /\ NamespaceSizes[bit + 1][2] = Len(x) /\ Len(x) >= 1
      /\ s = TapState(arg, next, TRUE, reset, flags, rssi)
  BY DEF FieldDue
<1>2. align \in Nat \ {0} /\ x \in Buffer /\ Len(x) \in Nat /\ i - 1 \in 0 .. m
  BY DEF Parsing, HeaderParts, Buffer
<1>3. /\ arg \in Nat /\ place[i] = at + Len(x) /\ At(buf, at, x)
      /\ length \in Nat
  BY <1>2 DEF Parsing, Placed, Buffer
<1>4. at \in Nat
  BY <1>2, <1>3 DEF Aligned
<1>5. at + Len(x) <= length
  BY <1>3 DEF At
<1> DEFINE taken == Taken(s, length, align, Len(x))
           value == ReadU8(buf, taken.arg - 1)
<1>6. taken = TapState(place[i], next, TRUE, reset, flags, rssi)
  <2>1. Aligned(arg, align) + Len(x) <= length /\ place[i] = Aligned(arg, align) + Len(x)
    BY <1>3, <1>5
  <2> HIDE DEF align, x, arg, length
  <2>2. s.arg = arg
    BY <1>1 DEF TapState
  <2>3. Aligned(arg, align) \in Nat
    BY <1>2, <1>3 DEF Aligned
  <2>4. taken = [ s EXCEPT !.arg = place[i] ]
    BY <1>2, <1>3, <2>1, <2>2, <2>3 DEF Taken
  <2>5. QED
    BY <1>1, <2>4 DEF TapState
<1>7. s.end = "no" /\ s.known = TRUE /\ s.again = FALSE /\ taken.end = "no"
      /\ taken.arg = place[i] /\ taken.flags = flags /\ taken.rssi = rssi
  BY <1>1, <1>6 DEF TapState
<1>8. value = LastOf(x)
  <2>1. Len(x) \in 1 .. Len(x) /\ at + Len(x) - 1 + 1 = at + Len(x)
    BY <1>1, <1>2, <1>4
  <2>2. buf[at + Len(x)] = x[Len(x)]
    BY <1>3, <2>1 DEF At
  <2> HIDE DEF taken, x, at
  <2>3. taken.arg - 1 + 1 = at + Len(x)
    BY <1>2, <1>3, <1>4, <1>7
  <2>4. QED
    BY <2>2, <2>3 DEF ReadU8, LastOf
<1>9. /\ NamespaceSizes[bit + 1][1] = align /\ NamespaceSizes[bit + 1][2] = Len(x)
      /\ align # 0 /\ ~(bit >= Len(NamespaceSizes))
  <2>1. Len(NamespaceSizes) = 23
    BY DEF NamespaceSizes
  <2>2. align # 0 /\ ~(bit >= 23)
    BY <1>1, <1>2
  <2> HIDE DEF align, x
  <2>3. QED
    BY <1>1, <2>1, <2>2
<1> HIDE DEF align, x, at, arg, length
<1>10. TakeField(buf, s, length, bit)
         = [ taken EXCEPT !.flags = IF bit = TapFlags THEN value ELSE @,
                          !.rssi = IF bit = DbmAntsignal THEN SignedChar(value) ELSE @ ]
  <2> HIDE DEF taken, value
  <2>1. TakeField(buf, s, length, bit) =
          IF ~s.known THEN [ s EXCEPT !.arg = s.next_ns_data ]
          ELSE IF s.again \/ bit >= Len(NamespaceSizes) THEN [ s EXCEPT !.end = "done" ]
          ELSE IF align = 0 THEN [ s EXCEPT !.arg = s.next_ns_data, !.known = FALSE ]
          ELSE IF taken.end # "no" THEN taken
          ELSE [ taken EXCEPT !.flags = IF bit = TapFlags THEN value ELSE @,
                              !.rssi = IF bit = DbmAntsignal THEN SignedChar(value) ELSE @ ]
    BY <1>9 DEF TakeField, taken, value
  <2>2. QED
    BY <1>7, <1>9, <2>1
<1> DEFINE f == IF bit = TapFlags THEN LastOf(x) ELSE flags
           r == IF bit = DbmAntsignal THEN SignedChar(LastOf(x)) ELSE rssi
<1>11. TakeField(buf, s, length, bit) = TapState(place[i], next, TRUE, reset, f, r)
  <2>1. f = (IF bit = TapFlags THEN value ELSE taken.flags)
        /\ r = (IF bit = DbmAntsignal THEN SignedChar(value) ELSE taken.rssi)
    BY <1>7, <1>8
  <2> HIDE DEF f, r, value
  <2>2. TakeField(buf, s, length, bit) = [ taken EXCEPT !.flags = f, !.rssi = r ]
    BY <1>10, <2>1
  <2> HIDE DEF taken
  <2>3. QED
    BY <1>6, <2>2 DEF TapState
<1>12. bit \notin { RadiotapNamespace, VendorNamespace, Ext }
  BY <1>1 DEF RadiotapNamespace, VendorNamespace, Ext
<1>13. Before(after, w, behind, TakeField(buf, s, length, bit))
  BY <1>7, <1>12, DueTurn DEF length
<1>14. QED
  BY <1>11, <1>13 DEF x

(* The turns for the bits of the namespaces, and for fields that are not   *)
(* known.                                                                  *)
OtherTurn(length, s, bit, t) ==
  \E arg, next \in Nat, known, reset \in BOOLEAN : \E flags, rssi \in Int :
    /\ arg <= length /\ s = TapState(arg, next, known, reset, flags, rssi)
    /\ \/ bit = 29 /\ t = TapState(arg, next, TRUE, TRUE, flags, rssi)
       \/ bit = 31 /\ reset /\ t = TapState(arg, next, known, FALSE, flags, rssi)
       \/ bit \in 0 .. 28 /\ ~known /\ t = TapState(next, next, known, reset, flags, rssi)
       \/ bit = 18 /\ known /\ t = TapState(next, next, FALSE, reset, flags, rssi)
       \/ bit \in 23 .. 28 /\ known /\ t = [ s EXCEPT !.end = "done" ]

LEMMA OtherTurns ==
  ASSUME NEW buf, NEW n, NEW words, NEW m, NEW fields, NEW place, NEW held, NEW after,
         Parsing(buf, n, words, m, fields, place, held, after),
         NEW w \in 0 .. n - 1, NEW b, NEW bit, NEW behind, Due(words, w, b, bit, behind),
         NEW s, Before(after, w, b, s), NEW t, OtherTurn(Len(buf), s, bit, t)
  PROVE  Before(after, w, behind, t)
<1>1. PICK arg \in Nat, next \in Nat, known \in BOOLEAN, reset \in BOOLEAN, flags \in Int, rssi \in Int :
        /\ arg <= Len(buf) /\ s = TapState(arg, next, known, reset, flags, rssi)
        /\ \/ bit = 29 /\ t = TapState(arg, next, TRUE, TRUE, flags, rssi)
           \/ bit = 31 /\ reset /\ t = TapState(arg, next, known, FALSE, flags, rssi)
           \/ bit \in 0 .. 28 /\ ~known /\ t = TapState(next, next, known, reset, flags, rssi)
           \/ bit = 18 /\ known /\ t = TapState(next, next, FALSE, reset, flags, rssi)
           \/ bit \in 23 .. 28 /\ known /\ t = [ s EXCEPT !.end = "done" ]
  BY Zenon DEF OtherTurn
<1>2. /\ s.end = "no" /\ s.again = FALSE /\ s.arg = arg /\ s.known = known
      /\ s.reset_on_ext = reset /\ s.next_ns_data = next
  BY <1>1 DEF TapState
<1> DEFINE length == Len(buf)
           plain == Taken(s, length, 1, 0)
<1>3. plain = s
  <2>1. Aligned(arg, 1) + 0 = arg /\ arg <= length /\ length \in Nat
    BY <1>1 DEF Aligned, Parsing, Placed, Buffer
  <2>2. plain = [ s EXCEPT !.arg = arg ]
    BY <1>1, <1>2, <2>1 DEF Taken
  <2>3. QED
    BY <1>1, <2>2 DEF TapState
<1>4. CASE bit = 29
  <2>1. t = TapState(arg, next, TRUE, TRUE, flags, rssi)
    BY <1>1, <1>4
  <2>2. TakeNamespace(s, length) = [ s EXCEPT !.reset_on_ext = TRUE, !.known = TRUE ]
    BY <1>3 DEF TakeNamespace
  <2>3. TakeNamespace(s, length) = t
    BY <1>1, <2>1, <2>2 DEF TapState
  <2>4. Before(after, w, behind, TakeNamespace(s, length))
    BY <1>2, <1>4, DueTurn DEF RadiotapNamespace
  <2>5. QED
    BY <2>3, <2>4
<1>5. CASE bit = 31
  <2>1. t = TapState(arg, next, known, FALSE, flags, rssi) /\ reset = TRUE
    BY <1>1, <1>5
  <2>2. TakeExt(s, length) = [ s EXCEPT !.again = ~reset, !.reset_on_ext = FALSE ]
    BY <1>2, <1>3 DEF TakeExt
  <2>3. TakeExt(s, length) = t
    <3>1. ~reset = FALSE
      BY <2>1
    <3>2. TakeExt(s, length) = [ s EXCEPT !.again = FALSE, !.reset_on_ext = FALSE ]
      BY <2>2, <3>1
    <3>3. QED
      BY <1>1, <2>1, <3>2 DEF TapState
  <2>4. Before(after, w, behind, TakeExt(s, length))
    BY <1>2, <1>5, DueTurn DEF RadiotapNamespace, VendorNamespace, Ext
  <2>5. QED
    BY <2>3, <2>4
<1>6. CASE bit \in 0 .. 28
  <2>1. bit # 29 /\ bit # 31 /\ (bit # 18 \/ bit \notin 23 .. 28)
        /\ (bit \in 23 .. 28 => bit >= 23)
    BY <1>6
  <2>2. bit \notin { RadiotapNamespace, VendorNamespace, Ext }
    BY <1>6 DEF RadiotapNamespace, VendorNamespace, Ext
  <2>3. Before(after, w, behind, TakeField(buf, s, length, bit))
    BY <1>2, <2>2, DueTurn
  <2>4. TakeField(buf, s, length, bit) = t
    <3>1. CASE ~known
      <4>1. t = TapState(next, next, known, reset, flags, rssi)
        BY <1>1, <2>1, <3>1, Zenon
      <4>2. TakeField(buf, s, length, bit) = [ s EXCEPT !.arg = next ]
        BY <1>2, <3>1 DEF TakeField
      <4>3. QED
        BY <1>1, <4>1, <4>2 DEF TapState
    <3>2. CASE known /\ bit = 18
      <4>1. t = TapState(next, next, FALSE, reset, flags, rssi)
        BY <1>1, <2>1, <3>2, Zenon
      <4>2. NamespaceSizes[bit + 1] = << 0, 0 >> /\ Len(NamespaceSizes) = 23
        BY <3>2 DEF NamespaceSizes
      <4>3. NamespaceSizes[bit + 1][1] = 0 /\ ~(bit >= Len(NamespaceSizes))
        BY <3>2, <4>2
      <4>4. TakeField(buf, s, length, bit) = [ s EXCEPT !.arg = next, !.known = FALSE ]
        BY <1>2, <3>2, <4>3, Zenon DEF TakeField
      <4>5. QED
        BY <1>1, <4>1, <4>4 DEF TapState
    <3>3. CASE known /\ bit # 18
      <4>1. t = [ s EXCEPT !.end = "done" ] /\ bit >= 23
        BY <1>1, <2>1, <3>3, Zenon
      <4>2. bit >= Len(NamespaceSizes)
        BY <4>1 DEF NamespaceSizes
      <4>3. TakeField(buf, s, length, bit) = [ s EXCEPT !.end = "done" ]
        BY <1>2, <3>3, <4>2, Zenon DEF TakeField
      <4>4. QED
        BY <4>1, <4>3
    <3>4. QED
      BY <3>1, <3>2, <3>3
  <2>5. QED
    BY <2>3, <2>4
<1>7. bit = 29 \/ bit = 31 \/ bit \in 0 .. 28
  <2>1. 18 \in 0 .. 28 /\ (23 .. 28) \subseteq (0 .. 28)
    OBVIOUS
  <2>2. QED
    BY <1>1, <2>1, Zenon
<1>8. QED
  BY <1>4, <1>5, <1>6, <1>7, Zenon

LEMMA VendorTurn ==
  ASSUME NEW buf, NEW n, NEW words, NEW m, NEW fields, NEW place, NEW held, NEW after,
         Parsing(buf, n, words, m, fields, place, held, after),
         NEW w \in 0 .. n - 1, NEW b, NEW bit, NEW behind, Due(words, w, b, bit, behind), bit = VendorNamespace,
         NEW s, Before(after, w, b, s),
         NEW i \in 1 .. m, NEW width \in Nat, fields[i] = << 2, VendorData(width) >>,
         NEW next, NEW flags, NEW rssi,
         s = TapState(place[i - 1], next, TRUE, FALSE, flags, rssi)
  PROVE  Before(after, w, behind, TapState(place[i], place[i], FALSE, TRUE, flags, rssi))
<1> DEFINE arg == place[i - 1]
           at == Aligned(arg, 2)
           length == Len(buf)
           head == Taken(s, length, 2, 6)
           number == LE16(width)
<1>1. /\ arg \in Nat /\ i - 1 \in 0 .. m /\ length \in Nat /\ place[i] \in Nat
      /\ place[i] = at + Len(VendorData(width)) /\ At(buf, at, VendorData(width)) /\ buf \in Buffer
  BY DEF Parsing, Placed, Buffer, HeaderParts
<1>2. at \in Nat
  BY <1>1 DEF Aligned
<1>3. /\ Radio(4) \in Block(4) /\ number \in Block(2) /\ Radio(width) \in Block(width)
      /\ number[1] = Num(width % 256) /\ number[2] = Num(width \div 256)
  <2>1. "radio" \in Names /\ 0 \in Nat /\ 4 \in Nat
    BY DEF Names
  <2>2. QED
    BY <2>1, FieldBlock, NumberBlock, LE16Bytes DEF Radio
<1> DEFINE x == Radio(4)
           y == Radio(width)
<1>4. VendorData(width) = x \o number \o y
  BY DEF VendorData
<1> HIDE DEF x, y, number, at, arg, length, head
<1>5. /\ x \in Buffer /\ Len(x) = 4 /\ number \in Buffer /\ Len(number) = 2
      /\ y \in Buffer /\ Len(y) = width
  BY <1>3 DEF x, y, number, Block
<1> DEFINE xn == x \o number
<1>6. xn \in Buffer /\ Len(xn) = 6
  <2>1. xn \in Buffer /\ Len(xn) = Len(x) + Len(number)
    BY <1>5, ConcatBytes
  <2>2. QED
    BY <1>5, <2>1
<1>7. VendorData(width) = xn \o y
  BY <1>4
<1> HIDE DEF xn
<1>8. Len(VendorData(width)) = 6 + width
  <2>1. Len(xn \o y) = Len(xn) + Len(y)
    BY <1>5, <1>6, ConcatBytes
  <2>2. QED
    BY <1>5, <1>6, <1>7, <2>1
<1>9. At(buf, at + 4, number)
  <2>1. At(buf, at, xn)
    BY <1>1, <1>2, <1>5, <1>6, <1>7, AtParts
  <2>2. At(buf, at, x \o number)
    BY <2>1 DEF xn
  <2>3. QED
    BY <1>1, <1>2, <1>5, <2>2, AtParts
<1>10. at + 6 <= length /\ place[i] = at + 6 + width /\ place[i] <= length
  BY <1>1, <1>2, <1>8 DEF At, length
<1>11. /\ s.end = "no" /\ s.arg = arg
  BY DEF TapState, arg
<1>12. head = [ s EXCEPT !.arg = at + 6 ]
  <2>1. ~(Aligned(s.arg, 2) + 6 > length) /\ Aligned(s.arg, 2) = at
    <3>1. Aligned(s.arg, 2) = at
      BY <1>11, Zenon DEF at
    <3>2. ~(at + 6 > length)
      BY <1>1, <1>2, <1>10
    <3>3. QED
      BY <3>1, <3>2, Zenon
  <2>2. QED
    BY <2>1, Zenon DEF Taken, head
<1>13. head.end = "no" /\ head.arg = at + 6
  BY <1>11, <1>12 DEF TapState
<1>14. ReadLE16(buf, head.arg - 2) = width
  <2>1. head.arg - 2 = at + 4
    BY <1>2, <1>13
  <2>2. buf[at + 4 + 1] = number[1] /\ buf[at + 4 + 2] = number[2]
    BY <1>5, <1>9 DEF At
  <2>3. at + 4 + 1 + 1 = at + 4 + 2
    BY <1>2
  <2>4. number[1][3] = width % 256 /\ number[2][3] = width \div 256
    <3>1. width % 256 \in Nat /\ width \div 256 \in Nat
      OBVIOUS
    <3>2. Num(width % 256)[3] = width % 256 /\ Num(width \div 256)[3] = width \div 256
      BY <3>1, NumByte, Zenon
    <3>3. QED
      BY <1>3, <3>2, Zenon DEF number
  <2>5. ReadLE16(buf, at + 4) = number[1][3] + 256 * number[2][3]
    BY <2>2, <2>3 DEF ReadLE16, ReadU8
  <2>6. ReadLE16(buf, at + 4) = (width % 256) + 256 * (width \div 256)
    BY <2>4, <2>5, Zenon
  <2>7. QED
    BY <2>1, <2>6
<1>15. head.arg + ReadLE16(buf, head.arg - 2) = place[i]
  BY <1>2, <1>10, <1>13, <1>14
<1>16. TakeVendor(buf, s, length)
         = [ s EXCEPT !.arg = place[i], !.next_ns_data = place[i],
                      !.reset_on_ext = TRUE, !.known = FALSE ]
  <2>1. ~(place[i] > length)
    BY <1>1, <1>10 DEF length
  <2>2. QED
    BY <1>13, <1>15, <2>1, Zenon DEF TakeVendor, head
<1>17. TakeVendor(buf, s, length) = TapState(place[i], place[i], FALSE, TRUE, flags, rssi)
  BY <1>16 DEF TapState
<1>18. Before(after, w, behind, TakeVendor(buf, s, length))
  BY <1>11, DueTurn DEF VendorNamespace, RadiotapNamespace, length
<1>19. QED
  BY <1>17, <1>18

LEMMA FieldStepped ==
  ASSUME NEW buf, NEW n, NEW words, NEW m, NEW fields, NEW place, NEW held, NEW after,
         Parsing(buf, n, words, m, fields, place, held, after),
         NEW w, NEW b, NEW c, NEW j, NEW i, NEW next, NEW flags, NEW rssi,
         FieldStep(n, words, m, fields, w, b, c, j, i),
         Before(after, w, b, Walk(place[j], next, flags, rssi))
  PROVE  Before(after, w, c,
                Walk(place[i], next, IF c = 2 THEN LastOf(fields[i][2]) ELSE flags,
                     IF c = 6 THEN SignedChar(LastOf(fields[i][2])) ELSE rssi))
<1> DEFINE bit == c - 1
           s == Walk(place[j], next, flags, rssi)
           no == FALSE
<1>1. /\ w \in 0 .. n - 1 /\ c \in 1 .. 23 /\ Due(words, w, b, bit, c)
      /\ i \in 1 .. m /\ j = i - 1
      /\ NamespaceSizes[c][1] = fields[i][1]
      /\ NamespaceSizes[c][2] = Len(fields[i][2]) /\ Len(fields[i][2]) >= 1
  BY DEF FieldStep
<1>2. bit \in 0 .. 22 /\ bit + 1 = c
  <2>1. c \in 1 .. 23
    BY <1>1
  <2>2. QED
    BY <2>1
<1> HIDE DEF bit, no
<1>3. s = TapState(place[i - 1], next, TRUE, no, flags, rssi)
  BY <1>1, Zenon DEF Walk, no
<1> HIDE DEF s
<1>4. FieldDue(fields, place, i, bit, s, next, no, flags, rssi)
  BY <1>1, <1>2, <1>3, Zenon DEF FieldDue
<1>5. Before(after, w, b, s)
  BY DEF s
<1>6. Before(after, w, c,
             TapState(place[i], next, TRUE, no,
                      IF bit = TapFlags THEN LastOf(fields[i][2]) ELSE flags,
                      IF bit = DbmAntsignal THEN SignedChar(LastOf(fields[i][2])) ELSE rssi))
  BY <1>1, <1>4, <1>5, FieldTurn
<1>7. (bit = TapFlags <=> c = 2) /\ (bit = DbmAntsignal <=> c = 6)
  BY <1>2 DEF TapFlags, DbmAntsignal
<1>8. QED
  BY <1>6, <1>7, Zenon DEF Walk, no

LEMMA FieldSteps ==
  ASSUME NEW buf, NEW n, NEW words, NEW m, NEW fields, NEW place, NEW held, NEW after,
         Parsing(buf, n, words, m, fields, place, held, after)
  PROVE  FieldMoves(n, words, m, fields, place, after)
<1>1. 2 # 6
  OBVIOUS
<1>2. ASSUME NEW w, NEW b, NEW c, NEW j, NEW i, NEW seen,
             FlagsStep(n, words, m, fields, w, b, c, j, i, seen)
      PROVE  \A next, flags, rssi :
               Before(after, w, b, Walk(place[j], next, flags, rssi)) =>
               Before(after, w, c, Walk(place[i], next, seen, rssi))
  <2> TAKE next, flags, rssi
  <2> HAVE Before(after, w, b, Walk(place[j], next, flags, rssi))
  <2>1. FieldStep(n, words, m, fields, w, b, c, j, i) /\ c = 2 /\ seen = LastOf(fields[i][2])
    BY <1>2 DEF FlagsStep
  <2>2. Before(after, w, c,
               Walk(place[i], next, IF c = 2 THEN LastOf(fields[i][2]) ELSE flags,
                    IF c = 6 THEN SignedChar(LastOf(fields[i][2])) ELSE rssi))
    BY <2>1, FieldStepped
  <2>3. QED
    BY <1>1, <2>1, <2>2, Zenon
<1>3. ASSUME NEW w, NEW b, NEW c, NEW j, NEW i, NEW heard,
             SignalStep(n, words, m, fields, w, b, c, j, i, heard)
      PROVE  \A next, flags, rssi :
               Before(after, w, b, Walk(place[j], next, flags, rssi)) =>
               Before(after, w, c, Walk(place[i], next, flags, heard))
  <2> TAKE next, flags, rssi
  <2> HAVE Before(after, w, b, Walk(place[j], next, flags, rssi))
  <2>1. /\ FieldStep(n, words, m, fields, w, b, c, j, i) /\ c = 6
        /\ heard = SignedChar(LastOf(fields[i][2]))
    BY <1>3 DEF SignalStep
  <2>2. Before(after, w, c,
               Walk(place[i], next, IF c = 2 THEN LastOf(fields[i][2]) ELSE flags,
                    IF c = 6 THEN SignedChar(LastOf(fields[i][2])) ELSE rssi))
    BY <2>1, FieldStepped
  <2>3. QED
    BY <1>1, <2>1, <2>2, Zenon
<1>4. ASSUME NEW w, NEW b, NEW c, NEW j, NEW i,
             PlainStep(n, words, m, fields, w, b, c, j, i)
      PROVE  \A next, flags, rssi :
               Before(after, w, b, Walk(place[j], next, flags, rssi)) =>
               Before(after, w, c, Walk(place[i], next, flags, rssi))
  <2> TAKE next, flags, rssi
  <2> HAVE Before(after, w, b, Walk(place[j], next, flags, rssi))
  <2>1. FieldStep(n, words, m, fields, w, b, c, j, i) /\ c # 2 /\ c # 6
    BY <1>4 DEF PlainStep
  <2>2. Before(after, w, c,
               Walk(place[i], next, IF c = 2 THEN LastOf(fields[i][2]) ELSE flags,
                    IF c = 6 THEN SignedChar(LastOf(fields[i][2])) ELSE rssi))
    BY <2>1, FieldStepped
  <2>3. QED
    BY <2>1, <2>2, Zenon
<1>5. QED
  BY <1>2, <1>3, <1>4, Zenon DEF FieldMoves

OtherDue(c, arg, next, known, reset, flags, rssi, t) ==
  /\ known \in BOOLEAN /\ reset \in BOOLEAN
  /\ \/ c = 30 /\ t = TapState(arg, next, TRUE, TRUE, flags, rssi)
     \/ c = 32 /\ reset /\ t = TapState(arg, next, known, FALSE, flags, rssi)
     \/ c <= 29 /\ ~known /\ t = TapState(next, next, known, reset, flags, rssi)
     \/ c = 19 /\ known /\ t = TapState(next, next, FALSE, reset, flags, rssi)
     \/ c = 28 /\ known
          /\ t = [ TapState(arg, next, known, reset, flags, rssi) EXCEPT !.end = "done" ]

LEMMA OtherStepped ==
  ASSUME NEW buf, NEW n, NEW words, NEW m, NEW fields, NEW place, NEW held, NEW after,
         Parsing(buf, n, words, m, fields, place, held, after),
         NEW w, NEW b, NEW c, OtherStep(n, words, w, b, c),
         NEW arg, NEW next, NEW known, NEW reset, NEW flags, NEW rssi,
         Plausible(Len(buf), arg, next, flags, rssi),
         Before(after, w, b, TapState(arg, next, known, reset, flags, rssi)),
         NEW t, OtherDue(c, arg, next, known, reset, flags, rssi, t)
  PROVE  Before(after, w, c, t)
<1> DEFINE s == TapState(arg, next, known, reset, flags, rssi)
           bit == c - 1
<1>1. w \in 0 .. n - 1 /\ c \in 1 .. 32 /\ Due(words, w, b, bit, c)
  BY DEF OtherStep
<1>2. /\ c \in Int /\ (c = 30 => bit = 29) /\ (c = 32 => bit = 31) /\ (c <= 29 => bit \in 0 .. 28)
      /\ (c = 19 => bit = 18) /\ (c = 28 => bit \in 23 .. 28)
  <2>1. c \in 1 .. 32
    BY <1>1
  <2>2. QED
    BY <2>1
<1> HIDE DEF bit, s
<1>3. /\ arg \in Nat /\ arg <= Len(buf) /\ next \in Nat /\ flags \in Int /\ rssi \in Int
      /\ known \in BOOLEAN /\ reset \in BOOLEAN
      /\ s = TapState(arg, next, known, reset, flags, rssi)
  BY DEF Plausible, OtherDue, s
<1>4. \/ bit = 29 /\ t = TapState(arg, next, TRUE, TRUE, flags, rssi)
      \/ bit = 31 /\ reset /\ t = TapState(arg, next, known, FALSE, flags, rssi)
      \/ bit \in 0 .. 28 /\ ~known /\ t = TapState(next, next, known, reset, flags, rssi)
      \/ bit = 18 /\ known /\ t = TapState(next, next, FALSE, reset, flags, rssi)
      \/ bit \in 23 .. 28 /\ known /\ t = [ s EXCEPT !.end = "done" ]
  BY <1>2 DEF OtherDue, s
<1>5. OtherTurn(Len(buf), s, bit, t)
  BY <1>3, <1>4, Zenon DEF OtherTurn
<1>6. QED
  BY <1>1, <1>5, OtherTurns DEF s

LEMMA OtherSteps ==
  ASSUME NEW buf, NEW n, NEW words, NEW m, NEW fields, NEW place, NEW held, NEW after,
         Parsing(buf, n, words, m, fields, place, held, after)
  PROVE  OtherMoves(Len(buf), n, words, after)
<1> DEFINE yes == TRUE
           no == FALSE
<1>1. yes \in BOOLEAN /\ no \in BOOLEAN /\ yes /\ ~no /\ yes = TRUE /\ no = FALSE
  OBVIOUS
<1> HIDE DEF yes, no
<1>2. \A arg, next, flags, rssi :
        /\ Walk(arg, next, flags, rssi) = TapState(arg, next, yes, no, flags, rssi)
        /\ Renewed(arg, next, flags, rssi) = TapState(arg, next, yes, yes, flags, rssi)
        /\ Foreign(arg, next, flags, rssi) = TapState(arg, next, no, yes, flags, rssi)
        /\ Lost(arg, next, flags, rssi) = TapState(arg, next, no, no, flags, rssi)
        /\ Stopped(arg, next, flags, rssi)
             = [ TapState(arg, next, yes, no, flags, rssi) EXCEPT !.end = "done" ]
  BY Zenon DEF Walk, Renewed, Foreign, Lost, Stopped, yes, no
<1>3. ASSUME NEW w, NEW b, NEW c, OtherStep(n, words, w, b, c),
             NEW arg, NEW next, NEW flags, NEW rssi, Plausible(Len(buf), arg, next, flags, rssi)
      PROVE  /\ c = 30 /\ Before(after, w, b, Walk(arg, next, flags, rssi)) =>
                  Before(after, w, c, Renewed(arg, next, flags, rssi))
             /\ c = 30 /\ Before(after, w, b, Lost(arg, next, flags, rssi)) =>
                  Before(after, w, c, Renewed(arg, next, flags, rssi))
             /\ c = 32 /\ Before(after, w, b, Renewed(arg, next, flags, rssi)) =>
                  Before(after, w, c, Walk(arg, next, flags, rssi))
             /\ c = 32 /\ Before(after, w, b, Foreign(arg, next, flags, rssi)) =>
                  Before(after, w, c, Lost(arg, next, flags, rssi))
             /\ c <= 29 /\ Before(after, w, b, Lost(arg, next, flags, rssi)) =>
                  Before(after, w, c, Lost(next, next, flags, rssi))
             /\ c = 19 /\ Before(after, w, b, Walk(arg, next, flags, rssi)) =>
                  Before(after, w, c, Lost(next, next, flags, rssi))
             /\ c = 28 /\ Before(after, w, b, Walk(arg, next, flags, rssi)) =>
                  Before(after, w, c, Stopped(arg, next, flags, rssi))
  <2> DEFINE s(known, reset) == TapState(arg, next, known, reset, flags, rssi)
             due(known, reset, t) == OtherDue(c, arg, next, known, reset, flags, rssi, t)
             lost == TapState(next, next, no, no, flags, rssi)
  <2>1. \A known, reset, t :
          due(known, reset, t) /\ Before(after, w, b, s(known, reset)) => Before(after, w, c, t)
    BY <1>3, OtherStepped
  <2>2. /\ c = 30 => due(yes, no, s(yes, yes)) /\ due(no, no, s(yes, yes))
        /\ c = 32 => due(yes, yes, s(yes, no)) /\ due(no, yes, s(no, no))
        /\ c <= 29 => due(no, no, lost)
        /\ c = 19 => due(yes, no, lost)
        /\ c = 28 => due(yes, no, [ s(yes, no) EXCEPT !.end = "done" ])
    <3>1. yes = TRUE /\ no = FALSE
      BY <1>1
    <3>2. QED
      BY <3>1, Zenon DEF OtherDue
  <2> HIDE DEF due
  <2>3. QED
    BY <1>2, <2>1, <2>2, Zenon
<1>4. QED
  BY <1>3 DEF OtherMoves

LEMMA WordSteps ==
  ASSUME NEW buf, NEW n, NEW words, NEW m, NEW fields, NEW place, NEW held, NEW after,
         Parsing(buf, n, words, m, fields, place, held, after)
  PROVE  /\ WordMoves(n, words, after)
         /\ \A s : Before(after, n - 1, 32, s) => after[32 * n] = s
<1>1. ASSUME NEW w, NEW b, NEW s, NoneLeft(n, words, w, b), Before(after, w, b, s)
      PROVE  Before(after, w, 32, s)
  <2> DEFINE c == 32
  <2>1. /\ w \in 0 .. n - 1 /\ b \in 0 .. 32
        /\ c \in b .. 32 /\ \A x \in words[w + 1] : x < b \/ c <= x
    BY <1>1 DEF NoneLeft
  <2> HIDE DEF c
  <2>2. Before(after, w, c, s)
    BY <1>1, <2>1, TurnsSkip
  <2>3. QED
    BY <2>2 DEF c
<1>2. ASSUME NEW w, NEW v, NEW s, w \in Nat, v = w + 1, Before(after, w, 32, s)
      PROVE  Before(after, v, 0, s)
  <2>1. 32 * w + 32 = 32 * v + 0
    BY <1>2
  <2>2. QED
    BY <1>2, <2>1 DEF Before
<1>3. ASSUME NEW s, Before(after, n - 1, 32, s) PROVE after[32 * n] = s
  <2>1. n \in Nat
    BY DEF Parsing, HeaderParts
  <2>2. 32 * (n - 1) + 32 = 32 * n
    BY <2>1
  <2>3. QED
    BY <1>3, <2>2 DEF Before
<1>4. QED
  BY <1>1, <1>2, <1>3, Zenon DEF WordMoves

LEMMA VendorSteps ==
  ASSUME NEW buf, NEW n, NEW words, NEW m, NEW fields, NEW place, NEW held, NEW after,
         Parsing(buf, n, words, m, fields, place, held, after)
  PROVE  VendorMoves(n, words, m, fields, place, after)
<1>1. ASSUME NEW w, NEW b, NEW j, NEW i, NEW width,
             VendorStep(n, words, m, fields, w, b, j, i, width),
             NEW next, NEW flags, NEW rssi,
             Before(after, w, b, Walk(place[j], next, flags, rssi))
      PROVE  Before(after, w, 31, Foreign(place[i], place[i], flags, rssi))
  <2> DEFINE bit == 30
             behind == 31
             s == Walk(place[j], next, flags, rssi)
  <2>1. /\ w \in 0 .. n - 1 /\ Due(words, w, b, bit, behind) /\ bit = VendorNamespace
        /\ i \in 1 .. m /\ j = i - 1 /\ width \in Nat /\ fields[i] = << 2, VendorData(width) >>
    BY <1>1 DEF VendorStep, VendorNamespace
  <2>2. s = TapState(place[i - 1], next, TRUE, FALSE, flags, rssi) /\ Before(after, w, b, s)
    BY <1>1, <2>1, Zenon DEF Walk
  <2> HIDE DEF bit, behind, s
  <2>3. Before(after, w, behind, Foreign(place[i], place[i], flags, rssi))
    BY <2>1, <2>2, VendorTurn DEF Foreign
  <2>4. QED
    BY <2>3 DEF behind
<1>2. QED
  BY <1>1, Zenon DEF VendorMoves

(* A header whose words announce each other is parsed in turns, up to the  *)
(* end of its last word.                                                   *)
HeldTyped == [ flags : Nat, rssi : Int, next_ns_data : Nat ]

Chained(n, words) == \A w \in 1 .. n : 31 \in words[w] <=> w < n

LEMMA ParsingBegins ==
  \A n, words, m, fields, held :
    HeaderParts(n, words, m, fields) /\ Chained(n, words) /\ held \in HeldTyped =>
    \E place, after :
      Begun(TapHeader(words, fields), n, words, m, fields, held, place, after)
<1> SUFFICES ASSUME NEW n, NEW words, NEW m, NEW fields, NEW held,
                    HeaderParts(n, words, m, fields), Chained(n, words), held \in HeldTyped
             PROVE  \E place, after :
                      Begun(TapHeader(words, fields), n, words, m, fields, held, place, after)
  BY Zenon
<1> DEFINE buf == TapHeader(words, fields)
<1>1. PICK place : Placed(buf, n, words, m, fields, place)
  BY HeaderPlaced
<1> HIDE DEF buf
<1>2. n \in Nat \ {0} /\ words \in [ 1 .. n -> SUBSET Nat ]
  BY DEF HeaderParts
<1>3. Words(buf, Len(buf)) = { n - 1 }
  BY <1>1, <1>2, WordsCounted DEF Chained
<1>4. held.flags \in Nat /\ held.rssi \in Int /\ held.next_ns_data \in Nat
  BY DEF HeldTyped
<1>5. PICK after : /\ Turns(after, buf, n, held)
                   /\ RadiotapParse(buf, held) =
                        [ ok |-> after[32 * n].end # "bad", length |-> Len(buf),
                          flags |-> after[32 * n].flags, rssi |-> after[32 * n].rssi ]
  BY <1>1, <1>2, <1>3, <1>4, ParseTurns
<1>6. Parsing(buf, n, words, m, fields, place, held, after)
  BY <1>1, <1>5 DEF Parsing
<1>7. Before(after, 0, 0,
             Walk(place[0], held.next_ns_data, held.flags, held.rssi))
  <2>1. after[0] = Walk(place[0], held.next_ns_data, held.flags, held.rssi)
    BY <1>1, <1>5 DEF Turns, Start, TapState, Walk, Placed
  <2>2. 32 * 0 + 0 = 0
    OBVIOUS
  <2>3. QED
    BY <2>1, <2>2 DEF Before
<1>8. ASSUME NEW w, NEW s, w = n - 1, Before(after, w, 32, s)
      PROVE  RadiotapParse(buf, held) = ParseOf(buf, s)
  <2>1. after[32 * n] = s
    BY <1>6, <1>8, WordSteps
  <2>2. QED
    BY <1>5, <2>1, Zenon DEF ParseOf
<1>9. Begun(buf, n, words, m, fields, held, place, after)
  <2>1. place \in [ 0 .. m -> Nat ]
    BY <1>1 DEF Placed
  <2>2. ASSUME NEW i \in 0 .. m PROVE place[i] <= Len(buf)
    <3>1. CASE i = 0
      BY <1>1, <3>1 DEF Placed
    <3>2. CASE i # 0
      <4> DEFINE at == Aligned(place[i - 1], fields[i][1])
      <4>1. i \in 1 .. m
        BY <3>2
      <4>2. place[i] = at + Len(fields[i][2]) /\ At(buf, at, fields[i][2])
        BY <1>1, <4>1 DEF Placed
      <4>3. QED
        BY <4>2 DEF At
    <3>3. QED
      BY <3>1, <3>2
  <2>3. QED
    BY <1>6, <1>7, <1>8, <2>1, <2>2, FieldSteps, WordSteps, OtherSteps, VendorSteps DEF Begun
<1>10. QED
  BY <1>9 DEF buf

(* What the layouts are made of.                                           *)
LEMMA SizesUsed ==
  /\ NamespaceSizes[1][1] = 8 /\ NamespaceSizes[1][2] = 8
  /\ NamespaceSizes[2][1] = 1 /\ NamespaceSizes[2][2] = 1
  /\ NamespaceSizes[3][1] = 1 /\ NamespaceSizes[3][2] = 1
  /\ NamespaceSizes[4][1] = 2 /\ NamespaceSizes[4][2] = 4
  /\ NamespaceSizes[6][1] = 1 /\ NamespaceSizes[6][2] = 1
  /\ NamespaceSizes[12][1] = 1 /\ NamespaceSizes[12][2] = 1
  /\ NamespaceSizes[15][1] = 2 /\ NamespaceSizes[15][2] = 2
BY DEF NamespaceSizes

LEMMA FlagsTell ==
  ASSUME NEW flags \in Nat
  PROVE  Len(U8(flags)) = 1 /\ LastOf(U8(flags)) = flags
<1>1. Len(U8(flags)) = 1 /\ U8(flags)[1] = Num(flags) /\ Num(flags)[3] = flags
  BY U8Bytes, NumByte
<1>2. QED
  BY <1>1, Zenon DEF LastOf

LEMMA SignalTells ==
  ASSUME NEW dbm \in -128 .. 127
  PROVE  /\ Signal(dbm)[1] = 1 /\ Len(Signal(dbm)[2]) = 1
         /\ SignedChar(LastOf(Signal(dbm)[2])) = dbm
<1> DEFINE n == dbm % 256
<1>1. n \in Nat /\ (n >= 128 => n - 256 = dbm) /\ (~(n >= 128) => n = dbm)
  OBVIOUS
<1> HIDE DEF n
<1>2. SignedChar(n) = dbm
  BY <1>1 DEF SignedChar
<1>3. Signal(dbm)[1] = 1 /\ Signal(dbm)[2] = U8(n)
  BY DEF Signal, n
<1>4. QED
  BY <1>1, <1>2, <1>3, FlagsTell, Zenon

LEMMA RadioWidth == \A width \in Nat : Len(Radio(width)) = width
<1>1. "radio" \in Names /\ 0 \in Nat
  BY DEF Names
<1>2. QED
  BY <1>1, FieldBlock, Zenon DEF Radio, Block

Readings(flags, dbm) == flags \in 0 .. 255 /\ dbm \in -128 .. 127

LEMMA PlainTold ==
  ASSUME NEW flags, NEW dbm, Readings(flags, dbm), NEW held \in HeldTyped
  PROVE  RadiotapParse(PlainTap(flags, dbm), held) =
           [ ok |-> TRUE, length |-> Len(PlainTap(flags, dbm)), flags |-> flags, rssi |-> dbm ]
<1> DEFINE words == << { 1, 2, 3, 5, 11, 14 } >>
           fields == << << 1, U8(flags) >>, << 1, Radio(1) >>, << 2, Radio(4) >>, Signal(dbm),
                        << 1, Radio(1) >>, << 2, Radio(2) >> >>
           F == (Nat \ {0}) \X Buffer
<1>1. PlainTap(flags, dbm) = TapHeader(words, fields)
  BY DEF PlainTap
<1>2. words \in [ 1 .. 1 -> SUBSET Nat ] /\ words[1] = { 1, 2, 3, 5, 11, 14 }
  OBVIOUS
<1>3. /\ flags \in Nat /\ dbm \in -128 .. 127 /\ dbm \in Int
  BY DEF Readings
<1>4. /\ fields[1] = << 1, U8(flags) >> /\ fields[2] = << 1, Radio(1) >>
      /\ fields[3] = << 2, Radio(4) >> /\ fields[4] = Signal(dbm)
      /\ fields[5] = << 1, Radio(1) >> /\ fields[6] = << 2, Radio(2) >>
  OBVIOUS
<1>5. fields \in [ 1 .. 6 -> F ]
  <2>1. << 1, U8(flags) >> \in F /\ Signal(dbm) \in F
    BY <1>3, TapFields
  <2>2. << 1, Radio(1) >> \in F /\ << 2, Radio(4) >> \in F /\ << 2, Radio(2) >> \in F
    BY TapFields
  <2> HIDE DEF F
  <2>3. QED
    BY <2>1, <2>2
<1> HIDE DEF words, fields
<1>6. HeaderParts(1, words, 6, fields)
  BY <1>2, <1>5 DEF HeaderParts
<1>7. Chained(1, words)
  BY <1>2 DEF Chained
<1> HIDE DEF F
<1>8. /\ fields[1][1] = 1 /\ Len(fields[1][2]) = 1 /\ LastOf(fields[1][2]) = flags
      /\ fields[2][1] = 1 /\ Len(fields[2][2]) = 1
      /\ fields[3][1] = 2 /\ Len(fields[3][2]) = 4
      /\ fields[4][1] = 1 /\ Len(fields[4][2]) = 1 /\ SignedChar(LastOf(fields[4][2])) = dbm
      /\ fields[5][1] = 1 /\ Len(fields[5][2]) = 1
      /\ fields[6][1] = 2 /\ Len(fields[6][2]) = 2
  <2>1. Len(U8(flags)) = 1 /\ LastOf(U8(flags)) = flags
    BY <1>3, FlagsTell
  <2>2. /\ Signal(dbm)[1] = 1 /\ Len(Signal(dbm)[2]) = 1
        /\ SignedChar(LastOf(Signal(dbm)[2])) = dbm
    BY <1>3, SignalTells
  <2>3. Len(Radio(1)) = 1 /\ Len(Radio(4)) = 4 /\ Len(Radio(2)) = 2
    BY RadioWidth
  <2>4. fields[4][1] = Signal(dbm)[1] /\ fields[4][2] = Signal(dbm)[2]
    BY <1>4
  <2>5. /\ fields[1][1] = 1 /\ fields[1][2] = U8(flags)
        /\ fields[2][1] = 1 /\ fields[2][2] = Radio(1)
        /\ fields[3][1] = 2 /\ fields[3][2] = Radio(4)
        /\ fields[5][1] = 1 /\ fields[5][2] = Radio(1)
        /\ fields[6][1] = 2 /\ fields[6][2] = Radio(2)
    BY <1>4
  <2>6. QED
    BY <2>1, <2>2, <2>3, <2>4, <2>5, Zenon
<1> DEFINE buf == TapHeader(words, fields)
           plain(b, c, j, i) == PlainStep(1, words, 6, fields, 0, b, c, j, i)
<1>9. /\ FlagsStep(1, words, 6, fields, 0, 0, 2, 0, 1, flags)
      /\ plain(2, 3, 1, 2) /\ plain(3, 4, 2, 3)
      /\ SignalStep(1, words, 6, fields, 0, 4, 6, 3, 4, dbm)
      /\ plain(6, 12, 4, 5) /\ plain(12, 15, 5, 6) /\ NoneLeft(1, words, 0, 15)
  BY <1>2, <1>8, SizesUsed DEF FieldStep, Due, FlagsStep, SignalStep, PlainStep, NoneLeft
<1>10. PICK place, after : Begun(buf, 1, words, 6, fields, held, place, after)
  BY <1>6, <1>7, ParsingBegins, Zenon
<1> DEFINE next == held.next_ns_data
           Come(b, i, f, r) == Before(after, 0, b, Walk(place[i], next, f, r))
<1>11. Come(0, 0, held.flags, held.rssi)
  BY <1>10, Zenon DEF Begun
<1> HIDE DEF next, buf
<1>12. FieldMoves(1, words, 6, fields, place, after) /\ WordMoves(1, words, after)
  BY <1>10 DEF Begun
<1>13. /\ \A f, r : Come(0, 0, f, r) => Come(2, 1, flags, r)
       /\ \A f, r : Come(4, 3, f, r) => Come(6, 4, f, dbm)
       /\ \A b, c, j, i : plain(b, c, j, i) => \A f, r : Come(b, j, f, r) => Come(c, i, f, r)
  <2>1. \A f, r : Come(0, 0, f, r) => Come(2, 1, flags, r)
    BY <1>9, <1>12 DEF FieldMoves
  <2>2. \A f, r : Come(4, 3, f, r) => Come(6, 4, f, dbm)
    BY <1>9, <1>12 DEF FieldMoves
  <2>3. \A b, c, j, i : plain(b, c, j, i) => \A f, r : Come(b, j, f, r) => Come(c, i, f, r)
    BY <1>12 DEF FieldMoves
  <2>4. QED
    BY <2>1, <2>2, <2>3
<1> HIDE DEF plain
<1>14. Come(4, 3, flags, held.rssi)
  <2>1. Come(3, 2, flags, held.rssi)
    BY <1>9, <1>11, <1>13
  <2>2. QED
    BY <1>9, <1>13, <2>1
<1>15. Come(6, 4, flags, dbm)
  BY <1>13, <1>14
<1>16. Come(12, 5, flags, dbm)
  BY <1>9, <1>13, <1>15
<1>17. Come(15, 6, flags, dbm)
  BY <1>9, <1>13, <1>16
<1>18. Before(after, 0, 32, Walk(place[6], next, flags, dbm))
  BY <1>9, <1>12, <1>17 DEF WordMoves
<1>19. RadiotapParse(buf, held) = ParseOf(buf, Walk(place[6], next, flags, dbm))
  <2>1. 0 = 1 - 1
    OBVIOUS
  <2>2. QED
    BY <1>10, <1>18, <2>1, Zenon DEF Begun
<1>20. RadiotapParse(buf, held) =
         [ ok |-> TRUE, length |-> Len(buf), flags |-> flags, rssi |-> dbm ]
  BY <1>19 DEF ParseOf, Walk, TapState
<1>21. QED
  BY <1>1, <1>20 DEF buf

LEMMA AntennasTold ==
  ASSUME NEW flags, NEW dbm, Readings(flags, dbm), NEW held \in HeldTyped
  PROVE  RadiotapParse(AntennasTap(flags, dbm), held) =
           [ ok |-> TRUE, length |-> Len(AntennasTap(flags, dbm)),
             flags |-> flags, rssi |-> dbm ]
<1> DEFINE words == << { 0, 1, 3, 5, 14, 29, 31 }, { 5, 11 } >>
           fields == << << 8, Radio(8) >>, << 1, U8(flags) >>, << 2, Radio(4) >>, Signal(-40),
                        << 2, Radio(2) >>, Signal(dbm), << 1, Radio(1) >> >>
           F == (Nat \ {0}) \X Buffer
<1>1. AntennasTap(flags, dbm) = TapHeader(words, fields)
  BY DEF AntennasTap
<1>2. /\ words \in [ 1 .. 2 -> SUBSET Nat ]
      /\ words[1] = { 0, 1, 3, 5, 14, 29, 31 } /\ words[2] = { 5, 11 }
  OBVIOUS
<1>3. /\ flags \in Nat /\ dbm \in -128 .. 127 /\ dbm \in Int /\ flags \in Int
      /\ -40 \in -128 .. 127 /\ -40 \in Int
  BY DEF Readings
<1>4. /\ fields[1] = << 8, Radio(8) >> /\ fields[2] = << 1, U8(flags) >>
      /\ fields[3] = << 2, Radio(4) >> /\ fields[4] = Signal(-40)
      /\ fields[5] = << 2, Radio(2) >> /\ fields[6] = Signal(dbm)
      /\ fields[7] = << 1, Radio(1) >>
  OBVIOUS
<1>5. fields \in [ 1 .. 7 -> F ]
  <2>1. << 1, U8(flags) >> \in F /\ Signal(dbm) \in F /\ Signal(-40) \in F
    BY <1>3, TapFields
  <2>2. /\ << 8, Radio(8) >> \in F /\ << 2, Radio(4) >> \in F /\ << 2, Radio(2) >> \in F
        /\ << 1, Radio(1) >> \in F
    BY TapFields
  <2> HIDE DEF F
  <2>3. QED
    BY <2>1, <2>2
<1> HIDE DEF words, fields
<1>6. HeaderParts(2, words, 7, fields)
  BY <1>2, <1>5 DEF HeaderParts
<1>7. Chained(2, words)
  BY <1>2 DEF Chained
<1> HIDE DEF F
<1>8. /\ fields[1][1] = 8 /\ Len(fields[1][2]) = 8
      /\ fields[2][1] = 1 /\ Len(fields[2][2]) = 1 /\ LastOf(fields[2][2]) = flags
      /\ fields[3][1] = 2 /\ Len(fields[3][2]) = 4
      /\ fields[4][1] = 1 /\ Len(fields[4][2]) = 1 /\ SignedChar(LastOf(fields[4][2])) = -40
      /\ fields[5][1] = 2 /\ Len(fields[5][2]) = 2
      /\ fields[6][1] = 1 /\ Len(fields[6][2]) = 1 /\ SignedChar(LastOf(fields[6][2])) = dbm
      /\ fields[7][1] = 1 /\ Len(fields[7][2]) = 1
  <2> DEFINE weak == -40
  <2>1. Len(U8(flags)) = 1 /\ LastOf(U8(flags)) = flags
    BY <1>3, FlagsTell
  <2>2. weak \in -128 .. 127 /\ fields[4] = Signal(weak)
    BY <1>3, <1>4
  <2> HIDE DEF weak
  <2>3. /\ Signal(dbm)[1] = 1 /\ Len(Signal(dbm)[2]) = 1
        /\ SignedChar(LastOf(Signal(dbm)[2])) = dbm
        /\ Signal(weak)[1] = 1 /\ Len(Signal(weak)[2]) = 1
        /\ SignedChar(LastOf(Signal(weak)[2])) = weak
    BY <1>3, <2>2, SignalTells
  <2>4. Len(Radio(1)) = 1 /\ Len(Radio(4)) = 4 /\ Len(Radio(2)) = 2 /\ Len(Radio(8)) = 8
    BY RadioWidth
  <2>5. /\ fields[4][1] = Signal(weak)[1] /\ fields[4][2] = Signal(weak)[2]
        /\ fields[6][1] = Signal(dbm)[1] /\ fields[6][2] = Signal(dbm)[2]
    BY <1>4, <2>2
  <2>6. /\ fields[1][1] = 8 /\ fields[1][2] = Radio(8)
        /\ fields[2][1] = 1 /\ fields[2][2] = U8(flags)
        /\ fields[3][1] = 2 /\ fields[3][2] = Radio(4)
        /\ fields[5][1] = 2 /\ fields[5][2] = Radio(2)
        /\ fields[7][1] = 1 /\ fields[7][2] = Radio(1)
    BY <1>4
  <2>7. weak = -40
    BY DEF weak
  <2>8. QED
    BY <2>1, <2>3, <2>4, <2>5, <2>6, <2>7
<1> DEFINE buf == TapHeader(words, fields)
           plain(w, b, c, j, i) == PlainStep(2, words, 7, fields, w, b, c, j, i)
<1>9. /\ plain(0, 0, 1, 0, 1) /\ FlagsStep(2, words, 7, fields, 0, 1, 2, 1, 2, flags)
      /\ plain(0, 2, 4, 2, 3) /\ SignalStep(2, words, 7, fields, 0, 4, 6, 3, 4, -40)
      /\ plain(0, 6, 15, 4, 5)
  BY <1>2, <1>8, SizesUsed DEF FieldStep, Due, FlagsStep, SignalStep, PlainStep
<1>10. /\ OtherStep(2, words, 0, 15, 30) /\ OtherStep(2, words, 0, 30, 32)
  BY <1>2 DEF Due, OtherStep
<1>11. /\ SignalStep(2, words, 7, fields, 1, 0, 6, 5, 6, dbm) /\ plain(1, 6, 12, 6, 7)
       /\ NoneLeft(2, words, 1, 12)
  BY <1>2, <1>8, SizesUsed DEF FieldStep, Due, SignalStep, PlainStep, NoneLeft
<1>12. PICK place, after : Begun(buf, 2, words, 7, fields, held, place, after)
  BY <1>6, <1>7, ParsingBegins, Zenon
<1> DEFINE next == held.next_ns_data
           Come(w, b, i, f, r) == Before(after, w, b, Walk(place[i], next, f, r))
<1>13. Come(0, 0, 0, held.flags, held.rssi)
  BY <1>12, Zenon DEF Begun
<1>14. /\ FieldMoves(2, words, 7, fields, place, after) /\ WordMoves(2, words, after)
       /\ OtherMoves(Len(buf), 2, words, after)
       /\ place[5] \in Nat /\ place[5] <= Len(buf) /\ next \in Nat
  <2>1. 5 \in 0 .. 7
    OBVIOUS
  <2>2. QED
    BY <1>12, <2>1 DEF Begun, HeldTyped
<1> HIDE DEF next, buf
<1>15. /\ \A w, b, c, j, i : plain(w, b, c, j, i) =>
            \A f, r : Come(w, b, j, f, r) => Come(w, c, i, f, r)
       /\ \A f, r : Come(0, 1, 1, f, r) => Come(0, 2, 2, flags, r)
       /\ \A f, r : Come(0, 4, 3, f, r) => Come(0, 6, 4, f, -40)
       /\ \A f, r : Come(1, 0, 5, f, r) => Come(1, 6, 6, f, dbm)
  <2>1. \A w, b, c, j, i : plain(w, b, c, j, i) =>
            \A f, r : Come(w, b, j, f, r) => Come(w, c, i, f, r)
    BY <1>14 DEF FieldMoves
  <2>2. \A f, r : Come(0, 1, 1, f, r) => Come(0, 2, 2, flags, r)
    BY <1>9, <1>14 DEF FieldMoves
  <2>3. \A f, r : Come(0, 4, 3, f, r) => Come(0, 6, 4, f, -40)
    BY <1>9, <1>14 DEF FieldMoves
  <2>4. \A f, r : Come(1, 0, 5, f, r) => Come(1, 6, 6, f, dbm)
    BY <1>11, <1>14 DEF FieldMoves
  <2>5. QED
    BY <2>1, <2>2, <2>3, <2>4
<1> HIDE DEF plain
<1>16. Come(0, 6, 4, flags, -40)
  <2>1. Come(0, 1, 1, held.flags, held.rssi)
    BY <1>9, <1>13, <1>15
  <2>2. Come(0, 2, 2, flags, held.rssi)
    BY <1>15, <2>1
  <2>3. Come(0, 4, 3, flags, held.rssi)
    BY <1>9, <1>15, <2>2
  <2>4. QED
    BY <1>15, <2>3
<1>17. Come(0, 15, 5, flags, -40)
  BY <1>9, <1>15, <1>16
<1>18. Plausible(Len(buf), place[5], next, flags, -40)
  BY <1>3, <1>14 DEF Plausible
<1>19. Before(after, 0, 30, Renewed(place[5], next, flags, -40))
  BY <1>10, <1>14, <1>17, <1>18 DEF OtherMoves
<1>20. Come(0, 32, 5, flags, -40)
  BY <1>10, <1>14, <1>18, <1>19 DEF OtherMoves
<1>21. Come(1, 0, 5, flags, -40)
  <2>1. 0 \in Nat /\ 1 = 0 + 1
    OBVIOUS
  <2>2. QED
    BY <1>14, <1>20, <2>1 DEF WordMoves
<1>22. Come(1, 6, 6, flags, dbm)
  BY <1>15, <1>21
<1>23. Come(1, 12, 7, flags, dbm)
  BY <1>11, <1>15, <1>22
<1>24. Come(1, 32, 7, flags, dbm)
  BY <1>11, <1>14, <1>23 DEF WordMoves
<1>25. RadiotapParse(buf, held) = ParseOf(buf, Walk(place[7], next, flags, dbm))
  <2>1. 1 = 2 - 1
    OBVIOUS
  <2>2. QED
    BY <1>12, <1>24, <2>1 DEF Begun
<1>26. RadiotapParse(buf, held) =
         [ ok |-> TRUE, length |-> Len(buf), flags |-> flags, rssi |-> dbm ]
  BY <1>25 DEF ParseOf, Walk, TapState
<1>27. QED
  BY <1>1, <1>26 DEF buf
(* A vendor's data, skipped with the fields behind it until the next word  *)
(* renews the name space.                                                  *)
LEMMA VendorTold ==
  ASSUME NEW flags, NEW dbm, Readings(flags, dbm), NEW held \in HeldTyped
  PROVE  RadiotapParse(VendorTap(flags, dbm), held) =
           [ ok |-> TRUE, length |-> Len(VendorTap(flags, dbm)),
             flags |-> flags, rssi |-> dbm ]
<1> DEFINE words == << { 1, 30, 31 }, { 0, 1, 29, 31 }, { 5 } >>
           fields == << << 1, U8(flags) >>, << 2, VendorData(VendorLength) >>, Signal(dbm) >>
           F == (Nat \ {0}) \X Buffer
<1>1. VendorTap(flags, dbm) = TapHeader(words, fields)
  BY DEF VendorTap, VendorData
<1>2. /\ words \in [ 1 .. 3 -> SUBSET Nat ]
      /\ words[1] = { 1, 30, 31 } /\ words[2] = { 0, 1, 29, 31 } /\ words[3] = { 5 }
  OBVIOUS
<1>3. flags \in Nat /\ dbm \in -128 .. 127 /\ dbm \in Int /\ flags \in Int
  BY DEF Readings
<1>4. /\ fields[1] = << 1, U8(flags) >> /\ fields[2] = << 2, VendorData(VendorLength) >>
      /\ fields[3] = Signal(dbm)
  OBVIOUS
<1>5. fields \in [ 1 .. 3 -> F ]
  <2>1. << 1, U8(flags) >> \in F /\ Signal(dbm) \in F
    BY <1>3, TapFields
  <2>2. << 2, VendorData(VendorLength) >> \in F
    <3> DEFINE x == Radio(4)
               number == LE16(VendorLength)
               y == Radio(VendorLength)
               data == VendorData(VendorLength)
    <3>1. x \in Buffer /\ y \in Buffer
      BY TapFields, VendorLengthType
    <3>2. number \in Buffer
      BY NumberBytes, VendorLengthType
    <3>3. data = x \o number \o y
      BY DEF VendorData
    <3> HIDE DEF x, number, y, data
    <3>4. data \in Buffer
      BY <3>1, <3>2, <3>3, Chain3
    <3>5. << 2, data >> \in F
      BY <3>4
    <3>6. QED
      BY <3>5 DEF data
  <2> HIDE DEF F
  <2>3. QED
    BY <2>1, <2>2
<1> HIDE DEF words, fields
<1>6. HeaderParts(3, words, 3, fields)
  BY <1>2, <1>5 DEF HeaderParts
<1>7. Chained(3, words)
  BY <1>2 DEF Chained
<1> HIDE DEF F
<1>8. /\ fields[1][1] = 1 /\ Len(fields[1][2]) = 1 /\ LastOf(fields[1][2]) = flags
      /\ fields[3][1] = 1 /\ Len(fields[3][2]) = 1 /\ SignedChar(LastOf(fields[3][2])) = dbm
  <2>1. Len(U8(flags)) = 1 /\ LastOf(U8(flags)) = flags
    BY <1>3, FlagsTell
  <2>2. /\ Signal(dbm)[1] = 1 /\ Len(Signal(dbm)[2]) = 1
        /\ SignedChar(LastOf(Signal(dbm)[2])) = dbm
    BY <1>3, SignalTells
  <2>3. fields[3][1] = Signal(dbm)[1] /\ fields[3][2] = Signal(dbm)[2]
    BY <1>4
  <2>4. fields[1][1] = 1 /\ fields[1][2] = U8(flags)
    BY <1>4
  <2>5. QED
    BY <2>1, <2>2, <2>3, <2>4
<1> DEFINE buf == TapHeader(words, fields)
           other(w, b, c) == OtherStep(3, words, w, b, c)
<1>9. /\ FlagsStep(3, words, 3, fields, 0, 0, 2, 0, 1, flags)
      /\ SignalStep(3, words, 3, fields, 2, 0, 6, 2, 3, dbm) /\ NoneLeft(3, words, 2, 6)
  BY <1>2, <1>8, SizesUsed DEF FieldStep, Due, FlagsStep, SignalStep, NoneLeft
<1>10. VendorStep(3, words, 3, fields, 0, 2, 1, 2, VendorLength)
  BY <1>2, <1>4, VendorLengthType DEF VendorStep, Due
<1>11. other(0, 31, 32) /\ other(1, 0, 1) /\ other(1, 1, 2) /\ other(1, 2, 30) /\ other(1, 30, 32)
  BY <1>2 DEF Due, OtherStep
<1>12. PICK place, after : Begun(buf, 3, words, 3, fields, held, place, after)
  BY <1>6, <1>7, ParsingBegins, Zenon
<1> DEFINE next == held.next_ns_data
           at == place[2]
<1>13. Before(after, 0, 0, Walk(place[0], next, held.flags, held.rssi))
  BY <1>12, Zenon DEF Begun
<1>14. /\ FieldMoves(3, words, 3, fields, place, after) /\ WordMoves(3, words, after)
       /\ OtherMoves(Len(buf), 3, words, after)
       /\ VendorMoves(3, words, 3, fields, place, after)
       /\ at \in Nat /\ at <= Len(buf) /\ held.rssi \in Int
  <2>1. 2 \in 0 .. 3
    OBVIOUS
  <2>2. QED
    BY <1>12, <2>1 DEF Begun, HeldTyped
<1> HIDE DEF next, buf
<1>15. Before(after, 0, 2, Walk(place[1], next, flags, held.rssi))
  BY <1>9, <1>13, <1>14 DEF FieldMoves
<1>16. Before(after, 0, 31, Foreign(at, at, flags, held.rssi))
  BY <1>10, <1>14, <1>15 DEF VendorMoves
<1>17. Plausible(Len(buf), at, at, flags, held.rssi)
  BY <1>3, <1>14 DEF Plausible
<1> DEFINE lost == Lost(at, at, flags, held.rssi)
<1> HIDE DEF at
<1>18. Before(after, 0, 32, lost)
  BY <1>11, <1>14, <1>16, <1>17 DEF OtherMoves
<1>19. Before(after, 1, 0, lost)
  <2>1. 0 \in Nat /\ 1 = 0 + 1
    OBVIOUS
  <2>2. QED
    BY <1>14, <1>18, <2>1 DEF WordMoves
<1>20. \A w, b, c : other(w, b, c) /\ c <= 29 /\ Before(after, w, b, lost) =>
         Before(after, w, c, lost)
  BY <1>14, <1>17 DEF OtherMoves
<1>21. Before(after, 1, 2, lost)
  <2>1. 1 <= 29 /\ 2 <= 29
    OBVIOUS
  <2> HIDE DEF lost, other
  <2>2. QED
    BY <1>11, <1>19, <1>20, <2>1
<1>22. Before(after, 1, 32, Walk(at, at, flags, held.rssi))
  <2>1. Before(after, 1, 30, Renewed(at, at, flags, held.rssi))
    BY <1>11, <1>14, <1>17, <1>21 DEF OtherMoves
  <2>2. QED
    BY <1>11, <1>14, <1>17, <2>1 DEF OtherMoves
<1>23. Before(after, 2, 0, Walk(place[2], at, flags, held.rssi))
  <2>1. 1 \in Nat /\ 2 = 1 + 1
    OBVIOUS
  <2>2. QED
    BY <1>14, <1>22, <2>1 DEF WordMoves, at
<1>24. Before(after, 2, 6, Walk(place[3], at, flags, dbm))
  BY <1>9, <1>14, <1>23 DEF FieldMoves
<1>25. Before(after, 2, 32, Walk(place[3], at, flags, dbm))
  BY <1>9, <1>14, <1>24 DEF WordMoves
<1>26. RadiotapParse(buf, held) = ParseOf(buf, Walk(place[3], at, flags, dbm))
  <2>1. 2 = 3 - 1
    OBVIOUS
  <2>2. QED
    BY <1>12, <1>25, <2>1 DEF Begun
<1>27. RadiotapParse(buf, held) =
         [ ok |-> TRUE, length |-> Len(buf), flags |-> flags, rssi |-> dbm ]
  BY <1>26 DEF ParseOf, Walk, TapState
<1>28. QED
  BY <1>1, <1>27 DEF buf

(* A field that the parser does not know: within those of its name space   *)
(* it gives the rest of the header up, behind them it stops.  Either way   *)
(* what it has read stands.                                                *)
LEMMA LaterTold ==
  ASSUME NEW flags, NEW dbm, Readings(flags, dbm), NEW held \in HeldTyped,
         NEW bit, bit = 18 \/ bit = 27
  PROVE  RadiotapParse(LaterTap(flags, dbm, bit), held) =
           [ ok |-> TRUE, length |-> Len(LaterTap(flags, dbm, bit)),
             flags |-> flags, rssi |-> dbm ]
<1> DEFINE words == << { 1, 5, bit } >>
           fields == << << 1, U8(flags) >>, Signal(dbm), << 4, Radio(8) >> >>
           F == (Nat \ {0}) \X Buffer
<1>1. LaterTap(flags, dbm, bit) = TapHeader(words, fields)
  BY DEF LaterTap
<1>2. words \in [ 1 .. 1 -> SUBSET Nat ] /\ words[1] = { 1, 5, bit }
  OBVIOUS
<1>3. flags \in Nat /\ dbm \in -128 .. 127 /\ dbm \in Int /\ flags \in Int
  BY DEF Readings
<1>4. /\ fields[1] = << 1, U8(flags) >> /\ fields[2] = Signal(dbm)
      /\ fields[3] = << 4, Radio(8) >>
  OBVIOUS
<1>5. fields \in [ 1 .. 3 -> F ]
  <2>1. << 1, U8(flags) >> \in F /\ Signal(dbm) \in F
    BY <1>3, TapFields
  <2>2. << 4, Radio(8) >> \in F
    BY TapFields
  <2> HIDE DEF F
  <2>3. QED
    BY <2>1, <2>2
<1> HIDE DEF words, fields
<1>6. HeaderParts(1, words, 3, fields)
  BY <1>2, <1>5 DEF HeaderParts
<1>7. Chained(1, words)
  BY <1>2 DEF Chained
<1> HIDE DEF F
<1>8. /\ fields[1][1] = 1 /\ Len(fields[1][2]) = 1 /\ LastOf(fields[1][2]) = flags
      /\ fields[2][1] = 1 /\ Len(fields[2][2]) = 1 /\ SignedChar(LastOf(fields[2][2])) = dbm
  <2>1. Len(U8(flags)) = 1 /\ LastOf(U8(flags)) = flags
    BY <1>3, FlagsTell
  <2>2. /\ Signal(dbm)[1] = 1 /\ Len(Signal(dbm)[2]) = 1
        /\ SignedChar(LastOf(Signal(dbm)[2])) = dbm
    BY <1>3, SignalTells
  <2>3. fields[2][1] = Signal(dbm)[1] /\ fields[2][2] = Signal(dbm)[2]
    BY <1>4
  <2>4. fields[1][1] = 1 /\ fields[1][2] = U8(flags)
    BY <1>4
  <2>5. QED
    BY <2>1, <2>2, <2>3, <2>4
<1> DEFINE buf == TapHeader(words, fields)
<1>9. /\ FlagsStep(1, words, 3, fields, 0, 0, 2, 0, 1, flags)
      /\ SignalStep(1, words, 3, fields, 0, 2, 6, 1, 2, dbm)
  BY <1>2, <1>8, SizesUsed DEF FieldStep, Due, FlagsStep, SignalStep
<1>10. PICK place, after : Begun(buf, 1, words, 3, fields, held, place, after)
  BY <1>6, <1>7, ParsingBegins, Zenon
<1> DEFINE next == held.next_ns_data
<1>11. Before(after, 0, 0, Walk(place[0], next, held.flags, held.rssi))
  BY <1>10, Zenon DEF Begun
<1>12. /\ FieldMoves(1, words, 3, fields, place, after) /\ WordMoves(1, words, after)
       /\ OtherMoves(Len(buf), 1, words, after)
       /\ place[2] \in Nat /\ place[2] <= Len(buf) /\ next \in Nat
  <2>1. 2 \in 0 .. 3
    OBVIOUS
  <2>2. QED
    BY <1>10, <2>1 DEF Begun, HeldTyped
<1> HIDE DEF next, buf
<1>13. Before(after, 0, 2, Walk(place[1], next, flags, held.rssi))
  BY <1>9, <1>11, <1>12 DEF FieldMoves
<1>14. Before(after, 0, 6, Walk(place[2], next, flags, dbm))
  BY <1>9, <1>12, <1>13 DEF FieldMoves
<1>15. Plausible(Len(buf), place[2], next, flags, dbm)
  BY <1>3, <1>12 DEF Plausible
<1>16. PICK s : /\ Before(after, 0, 32, s)
               /\ s.end # "bad" /\ s.flags = flags /\ s.rssi = dbm
  <2>1. CASE bit = 18
    <3> DEFINE s == Lost(next, next, flags, dbm)
    <3>1. OtherStep(1, words, 0, 6, 19) /\ NoneLeft(1, words, 0, 19)
      BY <1>2, <2>1 DEF Due, OtherStep, NoneLeft
    <3>2. Before(after, 0, 19, s)
      BY <1>12, <1>14, <1>15, <3>1 DEF OtherMoves
    <3>3. s.end # "bad" /\ s.flags = flags /\ s.rssi = dbm
      BY DEF Lost, TapState
    <3> HIDE DEF s
    <3>4. QED
      BY <1>12, <3>1, <3>2, <3>3 DEF WordMoves
  <2>2. CASE bit = 27
    <3> DEFINE s == Stopped(place[2], next, flags, dbm)
    <3>1. OtherStep(1, words, 0, 6, 28) /\ NoneLeft(1, words, 0, 28)
      BY <1>2, <2>2 DEF Due, OtherStep, NoneLeft
    <3>2. Before(after, 0, 28, s)
      BY <1>12, <1>14, <1>15, <3>1 DEF OtherMoves
    <3>3. s.end # "bad" /\ s.flags = flags /\ s.rssi = dbm
      BY DEF Stopped, Walk, TapState
    <3> HIDE DEF s
    <3>4. QED
      BY <1>12, <3>1, <3>2, <3>3 DEF WordMoves
  <2>3. QED
    BY <2>1, <2>2
<1>17. RadiotapParse(buf, held) = ParseOf(buf, s)
  <2>1. 0 = 1 - 1
    OBVIOUS
  <2>2. QED
    BY <1>10, <1>16, <2>1, Zenon DEF Begun
<1>18. RadiotapParse(buf, held) =
         [ ok |-> TRUE, length |-> Len(buf), flags |-> flags, rssi |-> dbm ]
  BY <1>16, <1>17 DEF ParseOf
<1>19. QED
  BY <1>1, <1>18 DEF buf

(* Every header that has flags tells them, and its own signal, whatever    *)
(* the variables held before.                                              *)
LEMMA HeadersTell ==
  ASSUME NEW h \in Headers, NEW held \in Held, h[1] # "bare"
  PROVE  RadiotapParse(Tap[h], held) =
           [ ok |-> TRUE, length |-> Len(Tap[h]), flags |-> h[2], rssi |-> h[3] ]
<1>1. /\ h[1] \in { "sent", "plain", "antennas", "vendor", "within", "behind", "bare" }
      /\ h[2] \in 0 .. 255 /\ h[3] \in -128 .. 127
  BY HeadersTyped, Zenon
<1>2. Readings(h[2], h[3]) /\ held \in HeldTyped
  <2>1. held \in [ flags : 0 .. 255, rssi : -128 .. 127, next_ns_data : Nat ]
    BY ReceptionAssumption, Zenon
  <2>2. QED
    BY <1>1, <2>1 DEF Readings, HeldTyped
<1> DEFINE told(tap) ==
             RadiotapParse(tap, held) =
               [ ok |-> TRUE, length |-> Len(tap), flags |-> h[2], rssi |-> h[3] ]
           layout == h[1]
           plain == PlainTap(h[2], h[3])
           antennas == AntennasTap(h[2], h[3])
           vendor == VendorTap(h[2], h[3])
           within == LaterTap(h[2], h[3], 18)
           behind == LaterTap(h[2], h[3], 27)
<1>3. told(plain) /\ told(antennas) /\ told(vendor)
  BY <1>2, PlainTold, AntennasTold, VendorTold
<1>4. told(within) /\ told(behind)
  <2> DEFINE b18 == 18
             b27 == 27
  <2>1. (b18 = 18 \/ b18 = 27) /\ (b27 = 18 \/ b27 = 27)
    OBVIOUS
  <2> HIDE DEF b18, b27
  <2>2. told(LaterTap(h[2], h[3], b18)) /\ told(LaterTap(h[2], h[3], b27))
    BY <1>2, <2>1, LaterTold
  <2>3. QED
    BY <2>2 DEF b18, b27
<1>5. layout = "sent" => told(SentTap)
  <2>1. SUFFICES ASSUME layout = "sent" PROVE SentTap = plain
    BY <1>3, Zenon
  <2>2. h[2] = 0 /\ h[3] = -30
    BY <2>1, ReceptionAssumption
  <2>3. QED
    BY <2>2, Zenon DEF SentTap
<1>6. Tap[h] = CASE layout = "sent"     -> SentTap
                 [] layout = "plain"    -> plain
                 [] layout = "antennas" -> antennas
                 [] layout = "vendor"   -> vendor
                 [] layout = "within"   -> within
                 [] layout = "behind"   -> behind
                 [] layout = "bare"     -> BareTap
  BY DEF Tap
<1> HIDE DEF told, layout, plain, antennas, vendor, within, behind
<1>7. \/ layout = "sent" /\ Tap[h] = SentTap
      \/ Tap[h] \in { plain, antennas, vendor, within, behind }
  <2>1. layout \in { "sent", "plain", "antennas", "vendor", "within", "behind" }
    BY <1>1 DEF layout
  <2>2. QED
    BY <1>6, <2>1
<1>8. told(Tap[h])
  BY <1>3, <1>4, <1>5, <1>7
<1>9. QED
  BY <1>8 DEF told
-----------------------------------------------------------------------------
(* The frames that are sent.                                               *)

LEMMA AddressBlock == \A n \in Nat : Address(n) \in Block(6)
<1>1. "address" \in Names /\ 6 \in Nat
  BY DEF Names
<1>2. QED
  BY <1>1, FieldBlock, Zenon DEF Address

LEMMA HeaderLayout ==
  ASSUME NEW type \in Nat, NEW src \in Nat, NEW dst \in Nat
  PROVE  /\ Header(type, src, dst) \in Block(24)
         /\ At(Header(type, src, dst), 0, LE16(type))
         /\ At(Header(type, src, dst), 4, Address(dst))
         /\ At(Header(type, src, dst), 10, Address(src))
<1> DEFINE number == LE16(type)
           duration == Field("duration", 0, 2)
           to == Address(dst)
           from == Address(src)
           bssid == Field("bssid", 0, 6)
           seq_ctrl == Field("seq_ctrl", 0, 2)
<1>1. /\ number \in Block(2) /\ duration \in Block(2) /\ to \in Block(6) /\ from \in Block(6)
      /\ bssid \in Block(6) /\ seq_ctrl \in Block(2)
  <2>1. "duration" \in Names /\ "bssid" \in Names /\ "seq_ctrl" \in Names
    BY DEF Names
  <2>2. QED
    BY <2>1, FieldBlock, NumberBlock, AddressBlock
<1>2. Header(type, src, dst) = number \o duration \o to \o from \o bssid \o seq_ctrl
  BY DEF Header
<1> HIDE DEF number, duration, to, from, bssid, seq_ctrl
<1> DEFINE a == number \o duration
           b == a \o to
           c == b \o from
           d == c \o bssid
           e == d \o seq_ctrl
<1>3. a \in Block(4) /\ At(a, 0, number)
  <2>1. number \in Buffer /\ duration \in Buffer
    BY <1>1 DEF Block
  <2>2. At(number, 0, number)
    BY <2>1, AtItself
  <2>3. QED
    BY <1>1, <2>1, <2>2, AtFront, ConcatBlock
<1> HIDE DEF a
<1>4. b \in Block(10) /\ At(b, 0, number) /\ At(b, 4, to)
  <2>1. number \in Buffer /\ to \in Buffer /\ a \in Buffer /\ Len(a) = 4
    BY <1>1, <1>3 DEF Block
  <2>2. At(b, 4, to)
    BY <2>1, AtEnd
  <2>3. QED
    BY <1>1, <1>3, <2>1, <2>2, AtFront, ConcatBlock
<1> HIDE DEF b
<1>5. c \in Block(16) /\ At(c, 0, number) /\ At(c, 4, to) /\ At(c, 10, from)
  <2>1. /\ number \in Buffer /\ to \in Buffer /\ from \in Buffer
        /\ b \in Buffer /\ Len(b) = 10
    BY <1>1, <1>4 DEF Block
  <2>2. At(c, 10, from)
    BY <2>1, AtEnd
  <2>3. QED
    BY <1>1, <1>4, <2>1, <2>2, AtFront, ConcatBlock
<1> HIDE DEF c
<1>6. d \in Block(22) /\ At(d, 0, number) /\ At(d, 4, to) /\ At(d, 10, from)
  <2>1. /\ number \in Buffer /\ to \in Buffer /\ from \in Buffer
        /\ c \in Buffer /\ bssid \in Buffer
    BY <1>1, <1>5 DEF Block
  <2>2. QED
    BY <1>1, <1>5, <2>1, AtFront, ConcatBlock
<1> HIDE DEF d
<1>7. e \in Block(24) /\ At(e, 0, number) /\ At(e, 4, to) /\ At(e, 10, from)
  <2>1. /\ number \in Buffer /\ to \in Buffer /\ from \in Buffer
        /\ d \in Buffer /\ seq_ctrl \in Buffer
    BY <1>1, <1>6 DEF Block
  <2>2. QED
    BY <1>1, <1>6, <2>1, AtFront, ConcatBlock
<1>8. Header(type, src, dst) = e
  BY <1>2 DEF a, b, c, d
<1> HIDE DEF e
<1>9. QED
  BY <1>7, <1>8 DEF number, to, from

(* A frame that begins as such a header and a body do shows the header,    *)
(* and begins with the body behind it.                                     *)
HeaderSeen(frame, type, src, b) ==
  /\ ReadLE16(frame, 0) = type /\ Read(frame, 10, 6) = Address(src)
  /\ Strip(frame, 24) \in Buffer /\ Begins(Strip(frame, 24), 0, b \o Fcs)

LEMMA AtBegins ==
  ASSUME NEW frame \in Buffer, NEW y \in Buffer, NEW x \in Buffer, NEW offset \in Nat,
         Begins(frame, 0, y), At(y, offset, x), offset + Len(x) <= Len(frame)
  PROVE  At(frame, offset, x)
<1>1. Len(frame) \in Nat /\ Len(x) \in Nat
  BY DEF Buffer
<1>2. ASSUME NEW k \in 1 .. Len(x) PROVE frame[offset + k] = x[k]
  <2>1. offset + k \in 1 .. Len(frame) - 0 /\ 0 + (offset + k) = offset + k
    BY <1>1
  <2>2. frame[0 + (offset + k)] = y[offset + k]
    BY <2>1 DEF Begins
  <2>3. y[offset + k] = x[k]
    BY DEF At
  <2>4. QED
    BY <2>1, <2>2, <2>3
<1>3. QED
  BY <1>2 DEF At

LEMMA StripBegins ==
  ASSUME NEW frame \in Buffer, NEW h \in Buffer, NEW b \in Buffer, NEW z \in Buffer,
         Begins(frame, 0, (h \o b) \o z), Len(frame) >= Len(h)
  PROVE  /\ Strip(frame, Len(h)) \in Buffer
         /\ Begins(Strip(frame, Len(h)), 0, b \o z)
<1> DEFINE y == b \o z
           w == h \o y
           n == Len(h)
           body == Strip(frame, n)
<1>1. (h \o b) \o z = w
  BY DEF Buffer
<1>2. y \in Buffer /\ n \in Nat /\ Len(frame) \in Nat
  BY ConcatBytes DEF Buffer
<1> HIDE DEF y
<1>3. Len(w) = n + Len(y) /\ \A k \in 1 .. Len(y) : w[n + k] = y[k]
  BY <1>2, ConcatBytes
<1>4. Begins(frame, 0, w)
  BY <1>1
<1> HIDE DEF w
<1>5. Len(frame) <= n + Len(y) /\ Len(y) \in Nat
  BY <1>2, <1>3, <1>4 DEF Begins, Buffer
<1>6. n \in 0 .. Len(frame)
  BY <1>2
<1> HIDE DEF n
<1>7. /\ body \in Buffer /\ Len(body) = Len(frame) - n
      /\ \A k \in 1 .. Len(frame) - n : body[k] = frame[n + k]
  BY <1>6, StripBytes
<1> HIDE DEF body
<1>8. ASSUME NEW k \in 1 .. Len(body) - 0 PROVE body[0 + k] = y[k]
  <2>1. /\ k \in 1 .. Len(frame) - n /\ k \in 1 .. Len(y) /\ 0 + k = k
        /\ n + k \in 1 .. Len(frame) - 0 /\ 0 + (n + k) = n + k
    BY <1>2, <1>5, <1>6, <1>7
  <2>2. frame[0 + (n + k)] = w[n + k]
    BY <1>4, <2>1 DEF Begins
  <2>3. QED
    BY <1>3, <1>7, <2>1, <2>2
<1>9. Begins(body, 0, y)
  <2>1. Len(body) - 0 <= Len(y)
    BY <1>2, <1>5, <1>6, <1>7
  <2>2. QED
    BY <1>8, <2>1 DEF Begins
<1>10. QED
  BY <1>7, <1>9 DEF y, body, n

HeaderBegun(frame, type, src, dst, b) ==
  /\ type \in Nat /\ src \in Nat /\ dst \in Nat /\ b \in Buffer /\ frame \in Buffer
  /\ Begins(frame, 0, (Header(type, src, dst) \o b) \o Fcs) /\ Len(frame) >= 24

LEMMA HeaderRead ==
  ASSUME NEW frame, NEW type, NEW src, NEW dst, NEW b,
         HeaderBegun(frame, type, src, dst, b)
  PROVE  HeaderSeen(frame, type, src, b)
<1> DEFINE h == Header(type, src, dst)
           number == LE16(type)
           from == Address(src)
<1>1. type \in Nat /\ src \in Nat /\ dst \in Nat /\ b \in Buffer /\ frame \in Buffer
  BY DEF HeaderBegun
<1>2. h \in Buffer /\ Len(h) = 24 /\ At(h, 0, number) /\ At(h, 10, from)
  BY <1>1, HeaderLayout DEF Block
<1>3. Fcs \in Buffer
  BY FcsReadable DEF Readable
<1>4. from \in Buffer /\ Len(from) = 6
  BY <1>1, AddressBlock DEF Block
<1>5. /\ number \in Buffer /\ Len(number) = 2 /\ number[1] = Num(type % 256)
      /\ number[2] = Num(type \div 256)
  BY <1>1, LE16Bytes
<1> HIDE DEF h, number, from
<1>6. Begins(frame, 0, (h \o b) \o Fcs) /\ Len(frame) >= 24 /\ Len(frame) \in Nat
  BY <1>1 DEF HeaderBegun, h, Buffer
<1> DEFINE y == (h \o b) \o Fcs
<1>7. y \in Buffer /\ At(y, 0, number) /\ At(y, 10, from)
  <2>1. h \o b \in Buffer
    BY <1>1, <1>2, ManyBytes
  <2>2. At(h \o b, 0, number) /\ At(h \o b, 10, from)
    BY <1>1, <1>2, <1>4, <1>5, AtFront
  <2>3. QED
    BY <1>3, <1>4, <1>5, <2>1, <2>2, AtFront, ManyBytes
<1>8. Begins(frame, 0, y)
  BY <1>6
<1> HIDE DEF y
<1>9. At(frame, 0, number) /\ At(frame, 10, from)
  <2>1. 0 + Len(number) <= Len(frame) /\ 10 + Len(from) <= Len(frame)
    BY <1>4, <1>5, <1>6
  <2>2. 0 \in Nat /\ 10 \in Nat
    OBVIOUS
  <2>3. At(frame, 0, number)
    BY <1>1, <1>5, <1>7, <1>8, <2>1, <2>2, AtBegins, Zenon
  <2>4. At(frame, 10, from)
    BY <1>1, <1>4, <1>7, <1>8, <2>1, <2>2, AtBegins, Zenon
  <2>5. QED
    BY <2>3, <2>4
<1>10. Read(frame, 10, 6) = from
  BY <1>1, <1>4, <1>9, AtRead
<1>11. ReadLE16(frame, 0) = type
  <2>1. frame[0 + 1] = number[1] /\ frame[0 + 2] = number[2]
    BY <1>5, <1>9 DEF At
  <2>2. frame[1] = Num(type % 256) /\ frame[2] = Num(type \div 256)
    BY <1>5, <2>1
  <2>3. type % 256 \in Nat /\ type \div 256 \in Nat
    BY <1>1
  <2>4. Num(type % 256)[3] = type % 256 /\ Num(type \div 256)[3] = type \div 256
    BY <2>3, NumByte, Zenon
  <2>5. frame[1][3] = type % 256 /\ frame[2][3] = type \div 256
    BY <2>2, <2>4, Zenon
  <2>6. ReadLE16(frame, 0) = frame[1][3] + 256 * frame[2][3]
    BY DEF ReadLE16, ReadU8
  <2>7. ReadLE16(frame, 0) = (type % 256) + 256 * (type \div 256)
    BY <2>5, <2>6, Zenon
  <2>8. QED
    BY <1>1, <2>7
<1>12. Strip(frame, 24) \in Buffer /\ Begins(Strip(frame, 24), 0, b \o Fcs)
  BY <1>1, <1>2, <1>3, <1>6, StripBegins
<1>13. QED
  BY <1>10, <1>11, <1>12 DEF HeaderSeen, from

(* Only announcements of the version v bring TLVs to the table: neither    *)
(* frames of other types do, nor those that the node hears of itself.      *)
Silent(v, type, src, b) ==
  \/ type # ActionFrame
  \/ src = Self
  \/ b \in HonestBodies(v)
  \/ b = Padding(20)

Sendable(v, type, src, dst, b) ==
  /\ type \in Nat /\ src \in Nat /\ dst \in Nat /\ b \in Buffer
  /\ v \in Nat /\ Silent(v, type, src, b)

LEMMA PaddingSilent ==
  ASSUME NEW body \in Buffer, Begins(body, 0, Padding(20) \o Fcs)
  PROVE  ~IsAnnouncement(body)
<1> SUFFICES ASSUME IsAnnouncement(body) PROVE FALSE
  OBVIOUS
<1>1. /\ Padding(20) \in Buffer /\ Len(Padding(20)) = 20 /\ Fcs \in Buffer
      /\ Padding(20)[1] = Num(0)
  <2>1. Padding(20) \in Buffer /\ Len(Padding(20)) = 20
    BY PaddingBytes
  <2>2. Padding(20)[1] = Num(0)
    BY DEF Padding
  <2>3. QED
    BY <2>1, <2>2, FcsReadable DEF Readable
<1> DEFINE p == Padding(20)
           w == p \o Fcs
<1>2. p \in Buffer /\ Len(p) = 20 /\ p[1] = Num(0)
  BY <1>1
<1> HIDE DEF p
<1>3. w[1] = Num(0)
  BY <1>1, <1>2, ConcatBytes
<1>4. Begins(body, 0, w)
  BY DEF p
<1> HIDE DEF w
<1>5. Len(body) \in Nat /\ Len(body) >= 16 /\ Read(body, 0, 6) = Field("action", 0, 6)
  BY DEF IsAnnouncement, Fits, Buffer
<1>6. body[1] = Num(0)
  <2>1. 1 \in 1 .. Len(body) - 0 /\ 0 + 1 = 1
    BY <1>5
  <2>2. body[0 + 1] = w[1]
    BY <1>4, <2>1 DEF Begins
  <2>3. QED
    BY <1>3, <2>1, <2>2
<1>7. Read(body, 0, 6)[1] = body[1]
  <2>1. \A k \in 1 .. 6 : Read(body, 0, 6)[k] = body[0 + k]
    BY <1>5, ReadBytes
  <2>2. 1 \in 1 .. 6 /\ 0 + 1 = 1
    OBVIOUS
  <2>3. QED
    BY <2>1, <2>2
<1>8. Field("action", 0, 6)[1] = << "action", 0, 1 >>
  BY DEF Field
<1>9. Num(0) # << "action", 0, 1 >>
  BY DEF Num
<1>10. QED
  BY <1>5, <1>6, <1>7, <1>8, <1>9, Zenon

LEMMA SilentHarmless ==
  ASSUME NEW v, NEW type, NEW src, NEW dst, NEW b, Sendable(v, type, src, dst, b)
  PROVE  Header(type, src, dst) \o b \in Harmless(v)
<1> DEFINE s == Header(type, src, dst) \o b
<1>1. type \in Nat /\ src \in Nat /\ dst \in Nat /\ b \in Buffer /\ v \in Nat
  BY DEF Sendable
<1>2. s \in Buffer
  <2>1. Header(type, src, dst) \in Buffer
    BY <1>1, HeaderLayout DEF Block
  <2>2. QED
    BY <1>1, <2>1, ManyBytes
<1>3. ASSUME NEW frame \in Buffer,
             Begins(frame, 0, s \o Fcs), Len(frame) >= 24,
             Read(frame, 10, 6) # Address(Self), ReadLE16(frame, 0) = ActionFrame,
             IsAnnouncement(Strip(frame, 24))
      PROVE  ReadTlvs(Strip(frame, 24), 16).tlvs \in Seq(Honest(v))
  <2>1. HeaderBegun(frame, type, src, dst, b)
    BY <1>1, <1>3 DEF HeaderBegun
  <2>2. HeaderSeen(frame, type, src, b)
    BY <2>1, HeaderRead
  <2> DEFINE body == Strip(frame, 24)
  <2>3. /\ type = ActionFrame /\ src # Self
        /\ body \in Buffer /\ Begins(body, 0, b \o Fcs) /\ IsAnnouncement(body)
    BY <1>3, <2>2 DEF HeaderSeen
  <2> HIDE DEF body
  <2>4. b # Padding(20)
    BY <2>3, PaddingSilent
  <2>5. b \in HonestBodies(v)
    BY <2>3, <2>4 DEF Sendable, Silent
  <2>6. Len(body) >= 16
    BY <2>3 DEF IsAnnouncement, Fits, Buffer
  <2>7. ReadTlvs(body, 16).tlvs \in Seq(Honest(v))
    BY <1>1, <2>3, <2>5, <2>6, HonestReading
  <2>8. QED
    BY <2>7 DEF body
<1> HIDE DEF s
<1>4. s \in Harmless(v)
  BY <1>2, <1>3 DEF Harmless
<1>5. QED
  BY <1>4 DEF s

LEMMA DataBodyBytes ==
  ASSUME NEW m \in Messages
  PROVE  /\ Llc(m.llc) \in Block(8) /\ DataHeader \in Block(6)
         /\ Payload(m) \in Block(2 + m.length)
         /\ DataBody(m) \in Block(16 + m.length)
<1>1. m.id \in Nat /\ m.length \in Nat
  BY DEF Messages
<1>2. Llc(m.llc) \in Block(8)
  <2> DEFINE snap == IF m.llc THEN 170 ELSE 66
             oui == Field("oui", 0, 3)
             type == BE16(2048)
  <2>1. snap \in Nat
    OBVIOUS
  <2>2. "oui" \in Names
    BY DEF Names
  <2>3. oui \in Block(3) /\ type \in Block(2)
    BY <2>2, FieldBlock, NumberBlock
  <2>4. U8(170) \in Block(1) /\ U8(snap) \in Block(1) /\ U8(3) \in Block(1)
    BY <2>1, NumberBlock
  <2>5. Llc(m.llc) = U8(170) \o U8(snap) \o U8(3) \o oui \o type
    BY DEF Llc
  <2> HIDE DEF snap, oui, type
  <2>6. U8(170) \o U8(snap) \in Block(2)
    BY <2>4, ConcatBlock
  <2>7. U8(170) \o U8(snap) \o U8(3) \in Block(3)
    BY <2>4, <2>6, ConcatBlock
  <2>8. U8(170) \o U8(snap) \o U8(3) \o oui \in Block(6)
    BY <2>3, <2>7, ConcatBlock
  <2>9. U8(170) \o U8(snap) \o U8(3) \o oui \o type \in Block(8)
    BY <2>3, <2>8, ConcatBlock
  <2>10. QED
    BY <2>5, <2>9
<1>3. DataHeader \in Block(6)
  <2>1. "head" \in Names /\ "seq" \in Names /\ "data_pad" \in Names
    BY DEF Names
  <2> DEFINE head == Field("head", 0, 2)
             seq == Field("seq", 0, 2)
             data_pad == Field("data_pad", 0, 2)
  <2>2. head \in Block(2) /\ seq \in Block(2) /\ data_pad \in Block(2)
    BY <2>1, FieldBlock
  <2>3. DataHeader = head \o seq \o data_pad
    BY DEF DataHeader
  <2> HIDE DEF head, seq, data_pad
  <2>4. head \o seq \in Block(4)
    BY <2>2, ConcatBlock
  <2>5. QED
    BY <2>2, <2>3, <2>4, ConcatBlock
<1>4. Payload(m) \in Block(2 + m.length)
  <2>1. "ethertype" \in Names /\ "payload" \in Names
    BY DEF Names
  <2> DEFINE ethertype == Field("ethertype", m.id, 2)
             payload == Field("payload", m.id, m.length)
  <2>2. ethertype \in Block(2) /\ payload \in Block(m.length)
    BY <1>1, <2>1, FieldBlock
  <2>3. Payload(m) = ethertype \o payload
    BY DEF Payload
  <2> HIDE DEF ethertype, payload
  <2>4. QED
    BY <1>1, <2>2, <2>3, ConcatBlock
<1>5. DataBody(m) \in Block(16 + m.length)
  <2> DEFINE llc == Llc(m.llc)
             payload == Payload(m)
             n == 2 + m.length
  <2>1. llc \in Block(8) /\ payload \in Block(n) /\ n \in Nat
    BY <1>1, <1>2, <1>4
  <2>2. DataBody(m) = llc \o DataHeader \o payload
    BY DEF DataBody
  <2> HIDE DEF llc, payload, n
  <2>3. llc \o DataHeader \in Block(14)
    BY <1>3, <2>1, ConcatBlock
  <2>4. llc \o DataHeader \o payload \in Block(14 + n)
    BY <2>1, <2>3, ConcatBlock
  <2>5. 14 + n = 16 + m.length
    BY <1>1 DEF n
  <2>6. QED
    BY <2>2, <2>4, <2>5
<1>6. QED
  BY <1>2, <1>3, <1>4, <1>5

LEMMA SubframeBytes ==
  ASSUME NEW m \in Messages
  PROVE  Subframe(m) \in Block(30 + m.length)
<1> DEFINE to == Address(m.dst)
           from == Address(m.src)
           body == DataBody(m)
           n == 16 + m.length
<1>1. m.dst \in Nat /\ m.src \in Nat /\ m.length \in Nat
  BY DEF Messages
<1>2. to \in Block(6) /\ from \in Block(6) /\ body \in Block(n) /\ n \in Nat
  BY <1>1, AddressBlock, DataBodyBytes
<1>3. Subframe(m) = to \o from \o BE16(Len(body)) \o body
  BY DEF Subframe
<1> HIDE DEF to, from, body, n
<1>4. BE16(Len(body)) \in Block(2)
  BY <1>2, NumberBlock DEF Block
<1>5. to \o from \in Block(12)
  BY <1>2, ConcatBlock
<1>6. to \o from \o BE16(Len(body)) \in Block(14)
  BY <1>4, <1>5, ConcatBlock
<1>7. to \o from \o BE16(Len(body)) \o body \in Block(14 + n)
  BY <1>2, <1>6, ConcatBlock
<1>8. 14 + n = 30 + m.length
  BY <1>1 DEF n
<1>9. QED
  BY <1>3, <1>7, <1>8

LEMMA AggregateBytes ==
  ASSUME NEW ms \in Seq(Messages)
  PROVE  Aggregate(ms) \in Buffer
<1> DEFINE pad(i) == IF i = Len(ms) THEN << >> ELSE Padding((-Len(Subframe(ms[i]))) % 4)
           parts == [ i \in 1 .. Len(ms) |-> Subframe(ms[i]) \o pad(i) ]
<1>1. Aggregate(ms) = FlattenSeq(parts) /\ Len(ms) \in Nat
  <2>1. DOMAIN ms = 1 .. Len(ms) /\ Len(ms) \in Nat
    OBVIOUS
  <2>2. QED
    BY <2>1, Zenon DEF Aggregate
<1>2. parts \in [ 1 .. Len(ms) -> Buffer ]
  <2>1. ASSUME NEW i \in 1 .. Len(ms) PROVE Subframe(ms[i]) \o pad(i) \in Buffer
    <3>1. Subframe(ms[i]) \in Buffer /\ Len(Subframe(ms[i])) \in Nat
      <4>1. ms[i] \in Messages
        OBVIOUS
      <4>2. QED
        BY <4>1, SubframeBytes DEF Block, Buffer
    <3> DEFINE n == (-Len(Subframe(ms[i]))) % 4
    <3>2. n \in Nat
      BY <3>1
    <3>3. << >> \in Buffer /\ Padding(n) \in Buffer
      <4> HIDE DEF n
      <4>1. QED
        BY <3>2, NoBytes, PaddingBytes
    <3>4. pad(i) \in Buffer
      BY <3>3, Zenon
    <3> HIDE DEF pad
    <3>5. QED
      BY <3>1, <3>4, ManyBytes
  <2>2. QED
    BY <2>1
<1> HIDE DEF parts
<1>3. CASE Len(ms) = 0
  <2>1. parts \in [ 1 .. 0 -> Buffer ] /\ Len(parts) = 0
    BY <1>2, <1>3
  <2>2. parts = << >>
    BY <2>1
  <2>3. FlattenSeq(parts) = parts
    BY <2>1 DEF FlattenSeq
  <2>4. QED
    BY <1>1, <2>2, <2>3, NoBytes
<1>4. CASE Len(ms) # 0
  <2> DEFINE n == Len(ms)
  <2>1. n \in Nat \ {0} /\ parts \in [ 1 .. n -> Buffer ]
    BY <1>1, <1>2, <1>4
  <2> HIDE DEF n
  <2>2. PICK g \in [ 1 .. n -> Buffer ] : FlattenSeq(parts) = g[n]
    BY <2>1, FlattenBytes
  <2>3. QED
    BY <1>1, <2>1, <2>2
<1>5. QED
  BY <1>3, <1>4

LEMMA QosControlBytes ==
  /\ \A aggregate \in BOOLEAN : QosControl(aggregate) \in Block(2)
<1>1. 128 \in Nat /\ 0 \in Nat
  OBVIOUS
<1>2. QED
  BY <1>1, NumberBlock, Zenon DEF QosControl

(* The frames in the air bring TLVs of the version v only.                 *)
LEMMA SentHarmless ==
  ASSUME NEW v \in Nat, NEW f \in SentFrames, f.kind = "action" => f.version = v
  PROVE  Bytes[f] \in Harmless(v)
<1> DEFINE H == Harmless(v)
<1>1. ASSUME NEW type \in Nat, NEW src \in Nat, NEW dst \in Nat, NEW b \in Buffer,
             Silent(v, type, src, b)
      PROVE  Header(type, src, dst) \o b \in H
  <2>1. Sendable(v, type, src, dst, b)
    BY <1>1 DEF Sendable
  <2>2. QED
    BY <2>1, SilentHarmless
<1> HIDE DEF H
<1>2. CASE f \in Announcements
  <2>1. PICK a \in Actions, w \in 1 .. MaxVersion :
          f = [ kind |-> "action", make |-> a[1], type |-> a[2], name |-> a[3], version |-> w ]
    BY <1>2 DEF Announcements
  <2>2. /\ f.kind = "action" /\ f.make = a[1] /\ f.type = a[2] /\ f.name = a[3]
        /\ f.version = w
    BY <2>1
  <2>3. a[2] \in { Psf, Mif } /\ a[3] \in Nat
    <3>1. a \in { "own", "v1", "steps" } \X { 0, 3 } \X (0 .. 255)
      <4>1. Actions \subseteq { "own", "v1", "steps" } \X { 0, 3 } \X (0 .. 255)
        BY ReceptionAssumption
      <4>2. QED
        BY <4>1, Zenon
    <3>2. (0 .. 255) \subseteq Nat
      OBVIOUS
    <3>3. QED
      BY <3>1, <3>2, Zenon DEF Psf, Mif
  <2> DEFINE own == ActionBody(f.version, f.type, f.name)
             other == BodyOfOthers(f.version, f.make, f.name)
             body == IF f.make = "own" THEN own ELSE other
             head == Header(ActionFrame, Peer, 0)
  <2>4. own \in HonestBodies(v) /\ other \in HonestBodies(v)
    BY <2>2, <2>3, ActionBodyHonest, OtherBodyHonest
  <2>5. Bytes[f] = head \o body
    BY <2>2 DEF Bytes
  <2>6. body \in HonestBodies(v)
    BY <2>4, Zenon
  <2> HIDE DEF body, own, other, head
  <2>7. body \in Buffer /\ Silent(v, ActionFrame, Peer, body)
    BY <2>6 DEF HonestBodies, Silent
  <2>8. ActionFrame \in Nat /\ Peer \in Nat /\ 0 \in Nat
    BY DEF ActionFrame, Peer
  <2>9. head \o body \in H
    BY <1>1, <2>7, <2>8 DEF head
  <2>10. QED
    BY <2>5, <2>9 DEF H
<1>3. CASE f \in Others
  <2>1. f.kind \in { "beacon", "block ack", "echo" }
    <3>1. PICK k \in { "beacon", "block ack", "echo" } : f = [ kind |-> k ]
      BY <1>3 DEF Others
    <3>2. QED
      BY <3>1
  <2>2. CASE f.kind = "beacon"
    <3>1. Bytes[f] = Header(128, Stranger, 0)
      BY <2>2 DEF Bytes
    <3>2. /\ 128 \in Nat /\ Stranger \in Nat /\ 0 \in Nat /\ << >> \in Buffer
          /\ Silent(v, 128, Stranger, << >>)
      BY NoBytes DEF Stranger, Silent, ActionFrame
    <3>3. Header(128, Stranger, 0) \o << >> \in H
      BY <1>1, <3>2, Zenon
    <3>4. Header(128, Stranger, 0) \in Buffer
      BY <3>2, HeaderLayout DEF Block
    <3> DEFINE h == Header(128, Stranger, 0)
    <3> HIDE DEF h
    <3>5. \A x \in Buffer : x \o << >> = x
      BY DEF Buffer
    <3>6. QED
      BY <3>1, <3>3, <3>4, <3>5, Zenon DEF H
  <2>3. CASE f.kind = "block ack"
    <3>1. Bytes[f] = Header(ActionFrame, Peer, Self) \o Padding(20)
      BY <2>3 DEF Bytes
    <3>2. /\ ActionFrame \in Nat /\ Peer \in Nat /\ Self \in Nat
          /\ Silent(v, ActionFrame, Peer, Padding(20))
      BY DEF ActionFrame, Peer, Self, Silent
    <3>3. Padding(20) \in Buffer
      BY PaddingBytes
    <3>4. QED
      BY <1>1, <3>1, <3>2, <3>3, Zenon DEF H
  <2>4. CASE f.kind = "echo"
    <3>1. Bytes[f] = Header(ActionFrame, Self, 0) \o ActionBody(0, Psf, 0)
      BY <2>4 DEF Bytes
    <3>2. /\ ActionFrame \in Nat /\ Self \in Nat /\ 0 \in Nat /\ Psf \in Nat
          /\ Silent(v, ActionFrame, Self, ActionBody(0, Psf, 0))
      BY DEF ActionFrame, Self, Psf, Silent
    <3>3. ActionBody(0, Psf, 0) \in HonestBodies(0)
      <4>1. 0 \in Nat /\ Psf \in { Psf, Mif }
        OBVIOUS
      <4>2. QED
        BY <4>1, ActionBodyHonest, Zenon
    <3>4. ActionBody(0, Psf, 0) \in Buffer
      BY <3>3, Zenon DEF HonestBodies
    <3>5. QED
      BY <1>1, <3>1, <3>2, <3>4, Zenon DEF H
  <2>5. QED
    BY <2>1, <2>2, <2>3, <2>4
<1>4. CASE f \in { g \in DataFrames : g.kind = "amsdu" \/ Len(g.ms) = 1 }
  <2>1. PICK k \in { "data", "qos", "amsdu" }, ms \in Payloads : f = [ kind |-> k, ms |-> ms ]
    BY <1>4 DEF DataFrames
  <2>2. f.kind \in { "data", "qos", "amsdu" } /\ f.ms \in Payloads
    BY <2>1
  <2>3. f.ms \in Seq(Messages)
    BY <2>2, ReceptionAssumption, Zenon DEF Messages
  <2>4. /\ DataFrame \in Nat /\ QosDataFrame \in Nat /\ Peer \in Nat /\ Self \in Nat
        /\ DataFrame # ActionFrame /\ QosDataFrame # ActionFrame
    BY DEF DataFrame, QosDataFrame, ActionFrame, Peer, Self
  <2>5. \A type \in { DataFrame, QosDataFrame }, src \in Nat, dst \in Nat, b \in Buffer :
          Header(type, src, dst) \o b \in H
    BY <1>1, <2>4 DEF Silent
  <2>6. \A type, src, dst \in Nat : Header(type, src, dst) \in Buffer
    BY HeaderLayout DEF Block
  <2>7. \A x, y, z \in Buffer : (x \o y) \o z = x \o (y \o z)
    BY DEF Buffer
  <2>8. QosControl(FALSE) \in Buffer /\ QosControl(TRUE) \in Buffer
    BY QosControlBytes DEF Block
  <2>9. CASE f.kind = "amsdu"
    <3>1. Bytes[f] = Header(QosDataFrame, Peer, Self) \o QosControl(TRUE) \o Aggregate(f.ms)
      BY <2>9 DEF Bytes
    <3>2. Aggregate(f.ms) \in Buffer
      BY <2>3, AggregateBytes
    <3>3. QosControl(TRUE) \o Aggregate(f.ms) \in Buffer
      BY <2>8, <3>2, ManyBytes, Zenon
    <3>4. Header(QosDataFrame, Peer, Self) \o (QosControl(TRUE) \o Aggregate(f.ms)) \in H
      BY <2>4, <2>5, <3>3, Zenon
    <3>5. Header(QosDataFrame, Peer, Self) \in Buffer
      BY <2>4, <2>6
    <3>6. Bytes[f] = Header(QosDataFrame, Peer, Self) \o (QosControl(TRUE) \o Aggregate(f.ms))
      BY <2>7, <2>8, <3>1, <3>2, <3>5, Zenon
    <3>7. QED
      BY <3>4, <3>6, Zenon DEF H
  <2>10. CASE f.kind # "amsdu"
    <3>1. Len(f.ms) = 1
      BY <1>4, <2>10
    <3> DEFINE m == f.ms[1]
    <3>2. m \in Messages
      BY <2>3, <3>1
    <3>3. m.src \in Nat /\ m.dst \in Nat
      BY <3>2 DEF Messages
    <3>4. DataBody(m) \in Buffer
      BY <3>2, DataBodyBytes DEF Block
    <3>5. CASE f.kind = "data"
      <4>1. Bytes[f] = Header(DataFrame, m.src, m.dst) \o DataBody(m)
        BY <3>5 DEF Bytes
      <4> HIDE DEF m
      <4>2. QED
        BY <2>5, <3>3, <3>4, <4>1, Zenon DEF H
    <3>6. CASE f.kind = "qos"
      <4>1. Bytes[f] = Header(QosDataFrame, m.src, m.dst) \o QosControl(FALSE) \o DataBody(m)
        BY <3>6 DEF Bytes
      <4> HIDE DEF m
      <4>2. QosControl(FALSE) \o DataBody(m) \in Buffer
        BY <2>8, <3>4, ManyBytes, Zenon
      <4>3. Header(QosDataFrame, m.src, m.dst) \o (QosControl(FALSE) \o DataBody(m)) \in H
        BY <2>5, <3>3, <4>2, Zenon
      <4>4. Header(QosDataFrame, m.src, m.dst) \in Buffer
        BY <2>4, <2>6, <3>3
      <4>5. Bytes[f] = Header(QosDataFrame, m.src, m.dst) \o (QosControl(FALSE) \o DataBody(m))
        BY <2>7, <2>8, <3>4, <4>1, <4>4, Zenon
      <4>6. QED
        BY <4>3, <4>5, Zenon DEF H
    <3>7. QED
      BY <2>2, <2>10, <3>5, <3>6
  <2>11. QED
    BY <2>9, <2>10
<1>5. QED
  BY <1>2, <1>3, <1>4 DEF SentFrames
-----------------------------------------------------------------------------
LEMMA ReceivedKeeps ==
  ASSUME IInv, NEW f, NEW h, NEW buf, NEW told, NEW memory, NEW whole,
         NEW s \in Harmless(version), Carries(buf, told, s),
         Received(f, h, buf, told, memory, whole)
  PROVE  IInv'
<1> DEFINE outcome == Rx(buf, told, memory)
<1>1. /\ version \in 1 .. MaxVersion /\ Typed /\ RankedIfKnown(entry)
      /\ buf \in Buffer /\ Measured(buf, told)
      /\ told.ok => Begins(Strip(buf, told.length), 0, s \o Fcs)
  BY DEF IInv, Carries
<1>2. outcome \in Outcomes /\ (entry.known => outcome.entry.known)
  BY <1>1, RxTyped
<1>3. RankedIfKnown(outcome.entry)
  BY <1>1, RxTyped
<1>4. /\ entry' = outcome.entry /\ clock' = outcome.clock /\ result' = outcome.result
      /\ host' \in { outcome.out, << >> }
      /\ version' = version /\ follows' = follows
  BY DEF Received
<1> HIDE DEF outcome
<1>5. /\ outcome.entry \in Peers /\ outcome.clock \in Clocks /\ outcome.result \in Results
      /\ outcome.out \in Seq(Block(EtherMaxLen)) /\ << >> \in Seq(Block(EtherMaxLen))
  BY <1>2 DEF Outcomes
<1>6. Typed'
  BY <1>4, <1>5 DEF Typed
<1>7. RankedIfKnown(entry)'
  BY <1>3, <1>4
<1>8. follows' \in BOOLEAN /\ (follows' => entry'.known)
  BY <1>2, <1>4 DEF IInv
<1>9. version' \in 1 .. MaxVersion /\ result' \in Results /\ host' \in Seq(Block(EtherMaxLen))
  BY <1>1, <1>4, <1>5
<1>10. QED
  BY <1>6, <1>7, <1>8, <1>9 DEF IInv

LEMMA HeldTells ==
  ASSUME NEW h \in Headers, NEW held \in HeldBefore(h)
  PROVE  held \in Held /\ Told[h][held] = RadiotapParse(Tap[h], held)
<1>1. held \in Held
  BY ReceptionAssumption DEF HeldBefore
<1>2. QED
  BY <1>1 DEF Told

(* Behind the header, the frame or its beginning.                          *)
LEMMA HeaderCarries ==
  ASSUME NEW x \in Taps, NEW bytes \in Buffer, NEW s \in Buffer, NEW held,
         Begins(bytes, 0, s \o Fcs)
  PROVE  Carries(x \o bytes, RadiotapParse(x, held), s)
<1> DEFINE told == RadiotapParse(x, held)
           buf == x \o bytes
           n == Len(x)
<1>1. x \in Buffer /\ ReadLE16(x, 2) = n /\ n \in Nat /\ Len(bytes) \in Nat
  BY DEF Taps, Buffer
<1>2. /\ buf \in Buffer /\ Len(buf) = n + Len(bytes)
      /\ \A k \in 1 .. Len(bytes) : buf[n + k] = bytes[k]
  BY <1>1, ConcatBytes
<1>3. told.ok => told.length = n
  BY <1>1, ParseMeasures
<1> HIDE DEF buf, n, told
<1>4. n \in 0 .. Len(buf)
  BY <1>1, <1>2
<1>5. Strip(buf, n) = bytes
  <2>1. /\ Strip(buf, n) \in Buffer /\ Len(Strip(buf, n)) = Len(buf) - n
        /\ \A k \in 1 .. Len(buf) - n : Strip(buf, n)[k] = buf[n + k]
    BY <1>2, <1>4, StripBytes
  <2> DEFINE rest == Strip(buf, n)
  <2>2. rest \in Buffer
    BY <2>1
  <2> HIDE DEF rest
  <2>3. Len(rest) = Len(bytes) /\ \A k \in 1 .. Len(bytes) : rest[k] = bytes[k]
    BY <1>1, <1>2, <2>1 DEF rest
  <2>4. rest = bytes
    BY <2>2, <2>3, SeqEqual DEF Buffer
  <2>5. QED
    BY <2>4 DEF rest
<1>6. Carries(buf, told, s)
  BY <1>2, <1>3, <1>4, <1>5 DEF Carries, Measured
<1>7. QED
  BY <1>6 DEF buf, told

(* A header that is cut is refused.                                        *)
LEMMA CutHeaderCarries ==
  ASSUME NEW x \in Taps, NEW cut \in Nat, cut < Len(x), NEW s, NEW held
  PROVE  Carries(SubSeq(x, 1, cut), RadiotapParse(SubSeq(x, 1, cut), held), s)
<1> DEFINE buf == SubSeq(x, 1, cut)
           told == RadiotapParse(buf, held)
<1>1. x \in Buffer /\ ReadLE16(x, 2) = Len(x) /\ Len(x) \in Nat
  BY DEF Taps, Buffer
<1>2. buf \in Buffer /\ Len(buf) = cut /\ \A k \in 1 .. cut : buf[k] = x[k]
  BY <1>1 DEF Buffer
<1> HIDE DEF buf
<1>3. ASSUME told.ok PROVE FALSE
  <2>1. told.length = ReadLE16(buf, 2) /\ told.length \in 0 .. Len(buf) /\ Len(buf) >= 8
    BY <1>2, <1>3, ParseMeasures
  <2>2. buf[3] = x[3] /\ buf[4] = x[4]
    BY <1>2, <2>1
  <2>3. ReadLE16(buf, 2) = ReadLE16(x, 2)
    <3>1. \A y : ReadLE16(y, 2) = y[3][3] + 256 * y[4][3]
      BY DEF ReadLE16, ReadU8
    <3>2. QED
      BY <2>2, <3>1, Zenon
  <2>4. QED
    BY <1>1, <1>2, <2>1, <2>3
<1> HIDE DEF told
<1>4. Carries(buf, told, s)
  BY <1>2, <1>3 DEF Carries, Measured
<1>5. QED
  BY <1>4 DEF buf, told

LEMMA FrameBegins ==
  ASSUME NEW b \in Buffer
  PROVE  /\ Begins(b, 0, b \o Fcs) /\ Begins(b \o Fcs, 0, b \o Fcs) /\ b \o Fcs \in Buffer
         /\ \A cut \in Nat : cut < Len(b) =>
              SubSeq(b, 1, cut) \in Buffer /\ Begins(SubSeq(b, 1, cut), 0, b \o Fcs)
<1> DEFINE w == b \o Fcs
<1>1. Fcs \in Buffer
  BY FcsReadable DEF Readable
<1>2. /\ w \in Buffer /\ Len(w) = Len(b) + Len(Fcs) /\ \A k \in 1 .. Len(b) : w[k] = b[k]
      /\ Len(b) \in Nat /\ Len(Fcs) \in Nat
  BY <1>1, ConcatBytes DEF Buffer
<1> HIDE DEF w
<1>3. Begins(b, 0, w)
  BY <1>2 DEF Begins
<1>4. Begins(w, 0, w)
  BY <1>2 DEF Begins
<1>5. ASSUME NEW cut \in Nat, cut < Len(b)
      PROVE  SubSeq(b, 1, cut) \in Buffer /\ Begins(SubSeq(b, 1, cut), 0, w)
  <2> DEFINE c == SubSeq(b, 1, cut)
  <2>1. c \in Buffer /\ Len(c) = cut /\ \A k \in 1 .. cut : c[k] = b[k]
    BY <1>2, <1>5 DEF Buffer
  <2> HIDE DEF c
  <2>2. Begins(c, 0, w)
    BY <1>2, <1>5, <2>1 DEF Begins
  <2>3. QED
    BY <2>1, <2>2 DEF c
<1>6. QED
  BY <1>2, <1>3, <1>4, <1>5 DEF w

LEMMA InTheAirHarmless ==
  ASSUME version \in 1 .. MaxVersion, NEW f \in SentFrames,
         f \in InTheAir \/ f \in Others
  PROVE  Bytes[f] \in Harmless(version) /\ Bytes[f] \in Buffer
<1>1. f.kind = "action" => f.version = version
  <2>1. CASE f \in InTheAir
    BY <2>1 DEF InTheAir
  <2>2. CASE f \in Others
    <3>1. PICK k \in { "beacon", "block ack", "echo" } : f = [ kind |-> k ]
      BY <2>2 DEF Others
    <3>2. f.kind # "action"
      BY <3>1
    <3>3. QED
      BY <3>2
  <2>3. QED
    BY <2>1, <2>2
<1>2. version \in Nat
  BY Widths
<1>3. Bytes[f] \in Harmless(version)
  BY <1>1, <1>2, SentHarmless
<1>4. QED
  BY <1>3 DEF Harmless

LEMMA IInvInitially == Init => IInv
<1> SUFFICES ASSUME Init PROVE IInv
  OBVIOUS
<1>1. entry = NoEntry /\ clock = NoClock /\ follows = FALSE /\ version = 1
      /\ host = << >> /\ result = RxOk
  BY DEF Init
<1>2. NoClock \in Clocks
  <2>1. \A field \in DOMAIN NoClock : NoClock[field] \in Buffer
    <3>1. \A field \in DOMAIN NoClock : NoClock[field] = << >>
      BY DEF NoClock
    <3>2. QED
      BY <3>1, NoBytes
  <2>2. NoClock = [ field \in DOMAIN NoClock |-> NoClock[field] ]
    BY DEF NoClock
  <2>3. QED
    BY <2>1, <2>2 DEF Clocks
<1>3. Typed
  BY <1>1, <1>2 DEF Typed, Peers
<1>4. 1 \in 1 .. MaxVersion
  BY Widths
<1>5. RankedIfKnown(entry)
  BY <1>1, KnownPeers DEF RankedIfKnown
<1>6. result \in Results /\ host \in Seq(Block(EtherMaxLen))
  BY <1>1 DEF Results
<1>7. QED
  BY <1>1, <1>3, <1>4, <1>5, <1>6 DEF IInv

LEMMA ArriveKeeps ==
  ASSUME IInv, Arrive
  PROVE  IInv'
<1>1. PICK f \in InTheAir, h \in Headers, memory \in { entry.known, TRUE } :
      \E held \in HeldBefore(h) :
        LET bytes == IF IsSet(h[2], FlagFcs) THEN Bytes[f] \o Fcs ELSE Bytes[f]
        IN  Received(f, h, Tap[h] \o bytes, Told[h][held], memory,
                     h[1] # "bare" /\ ~IsSet(h[2], FlagBadFcs))
  BY Zenon DEF Arrive
<1>2. PICK held \in HeldBefore(h) :
        LET bytes == IF IsSet(h[2], FlagFcs) THEN Bytes[f] \o Fcs ELSE Bytes[f]
        IN  Received(f, h, Tap[h] \o bytes, Told[h][held], memory,
                     h[1] # "bare" /\ ~IsSet(h[2], FlagBadFcs))
  BY <1>1, Zenon
<1> DEFINE bytes == IF IsSet(h[2], FlagFcs) THEN Bytes[f] \o Fcs ELSE Bytes[f]
           whole == h[1] # "bare" /\ ~IsSet(h[2], FlagBadFcs)
<1>3. Received(f, h, Tap[h] \o bytes, Told[h][held], memory, whole)
  BY <1>2
<1>4. Bytes[f] \in Harmless(version) /\ Bytes[f] \in Buffer
  BY InTheAirHarmless DEF IInv, InTheAir
<1>5. bytes \in Buffer /\ Begins(bytes, 0, Bytes[f] \o Fcs)
  BY <1>4, FrameBegins, Zenon
<1> HIDE DEF bytes, whole
<1>6. Tap[h] \in Taps /\ Told[h][held] = RadiotapParse(Tap[h], held)
  BY TapTells, HeldTells
<1>7. Carries(Tap[h] \o bytes, Told[h][held], Bytes[f])
  BY <1>4, <1>5, <1>6, HeaderCarries
<1>8. QED
  BY <1>3, <1>4, <1>7, ReceivedKeeps

LEMMA ArriveCutKeeps ==
  ASSUME IInv, ArriveCut
  PROVE  IInv'
<1>1. PICK f \in InTheAir, h \in Headers, cut \in Cuts :
      \E held \in HeldBefore(h) :
        /\ h[1] = "sent"
        /\ cut < Len(Bytes[f])
        /\ Received(f, h, Tap[h] \o SubSeq(Bytes[f], 1, cut), Told[h][held], TRUE, FALSE)
  BY Zenon DEF ArriveCut
<1>2. PICK held \in HeldBefore(h) :
        /\ cut < Len(Bytes[f])
        /\ Received(f, h, Tap[h] \o SubSeq(Bytes[f], 1, cut), Told[h][held], TRUE, FALSE)
  BY <1>1, Zenon
<1> DEFINE bytes == SubSeq(Bytes[f], 1, cut)
<1>3. Bytes[f] \in Harmless(version) /\ Bytes[f] \in Buffer
  BY InTheAirHarmless DEF IInv, InTheAir
<1>4. cut \in Nat
  BY Widths
<1>5. bytes \in Buffer /\ Begins(bytes, 0, Bytes[f] \o Fcs)
  BY <1>2, <1>3, <1>4, FrameBegins
<1>6. Received(f, h, Tap[h] \o bytes, Told[h][held], TRUE, FALSE)
  BY <1>2
<1> HIDE DEF bytes
<1>7. Tap[h] \in Taps /\ Told[h][held] = RadiotapParse(Tap[h], held)
  BY TapTells, HeldTells
<1>8. Carries(Tap[h] \o bytes, Told[h][held], Bytes[f])
  BY <1>3, <1>5, <1>7, HeaderCarries
<1>9. QED
  BY <1>3, <1>6, <1>8, ReceivedKeeps

LEMMA ArriveCutInHeaderKeeps ==
  ASSUME IInv, ArriveCutInHeader
  PROVE  IInv'
<1>1. PICK f \in Others, h \in Headers, cut \in HeaderCuts :
      \E held \in HeldBefore(h) :
        LET buf == SubSeq(Tap[h], 1, cut)
        IN  cut < Len(Tap[h]) /\ Received(f, h, buf, RadiotapParse(buf, held), TRUE, FALSE)
  BY Zenon DEF ArriveCutInHeader
<1>2. PICK held \in HeldBefore(h) :
        LET buf == SubSeq(Tap[h], 1, cut)
        IN  cut < Len(Tap[h]) /\ Received(f, h, buf, RadiotapParse(buf, held), TRUE, FALSE)
  BY <1>1, Zenon
<1> DEFINE buf == SubSeq(Tap[h], 1, cut)
           told == RadiotapParse(buf, held)
<1>3. cut < Len(Tap[h]) /\ Received(f, h, buf, told, TRUE, FALSE)
  BY <1>2
<1>4. Bytes[f] \in Harmless(version)
  BY InTheAirHarmless DEF IInv, SentFrames
<1>5. cut \in Nat /\ Tap[h] \in Taps
  BY Widths, TapTells
<1>6. Carries(buf, told, Bytes[f])
  BY <1>3, <1>5, CutHeaderCarries
<1> HIDE DEF buf, told
<1>7. QED
  BY <1>3, <1>4, <1>6, ReceivedKeeps

LEMMA IInvKept ==
  ASSUME IInv, [Next]_vars
  PROVE  IInv'
<1>1. CASE Arrive
  BY <1>1, ArriveKeeps
<1>2. CASE ArriveCut
  BY <1>2, ArriveCutKeeps
<1>3. CASE ArriveCutInHeader
  BY <1>3, ArriveCutInHeaderKeeps
<1>4. CASE Return
  <2>1. << >> \in Seq(Block(EtherMaxLen)) /\ RxOk \in Results
    BY DEF Results
  <2>2. /\ version' = version /\ entry' = entry /\ clock' = clock /\ follows' = follows
        /\ host' = << >> /\ result' = RxOk
    BY <1>4 DEF Return
  <2>3. QED
    BY <2>1, <2>2 DEF IInv, Typed
<1>5. CASE Change
  <2>1. /\ version' = version + 1 /\ version < MaxVersion /\ entry' = entry
        /\ clock' = clock /\ follows' = follows /\ host' = host /\ result' = result
    BY <1>5 DEF Change
  <2>2. version' \in 1 .. MaxVersion
    BY <2>1, Widths DEF IInv
  <2>3. QED
    BY <2>1, <2>2 DEF IInv, Typed
<1>6. CASE CleanPeers
  <2>1. /\ version' = version /\ clock' = clock /\ host' = host /\ result' = result
        /\ entry' \in { entry, NoEntry }
        /\ follows' \in BOOLEAN /\ (follows' => entry'.known)
    BY <1>6 DEF CleanPeers
  <2>2. entry' \in Peers
    BY <2>1 DEF IInv, Typed, Peers
  <2>3. RankedIfKnown(entry')
    <3>1. CASE entry' = entry
      BY <3>1 DEF IInv
    <3>2. CASE entry' = NoEntry
      BY <3>2, KnownPeers DEF RankedIfKnown
    <3>3. QED
      BY <2>1, <3>1, <3>2
  <2>4. QED
    BY <2>1, <2>2, <2>3 DEF IInv, Typed
<1>7. CASE UNCHANGED vars
  BY <1>7 DEF IInv, Typed, vars
<1>8. QED
  BY <1>1, <1>2, <1>3, <1>4, <1>5, <1>6, <1>7 DEF Next

LEMMA IInvTypes == IInv => TypeOK
<1> SUFFICES ASSUME IInv PROVE TypeOK
  OBVIOUS
<1>1. ASSUME entry.known
      PROVE  /\ DOMAIN entry = DOMAIN NewEntry
             /\ Len(entry.name) <= NameMax
             /\ Len(entry.master_addr) \in { 0, 6 } /\ Len(entry.sync_addr) \in { 0, 6 }
             /\ Len(entry.country_code) \in { 0, 3 } /\ Len(entry.infra_addr) \in { 0, 6 }
  <2>1. entry \in Entries
    BY <1>1, KnownPeers DEF IInv, Typed
  <2>2. entry \in [ DOMAIN NewEntry -> Buffer \cup BOOLEAN ]
    BY <2>1 DEF Entries
  <2>3. /\ Len(entry["name"]) <= NameMax
        /\ entry["master_addr"] \in Optional(6) /\ entry["sync_addr"] \in Optional(6)
        /\ entry["country_code"] \in Optional(3) /\ entry["infra_addr"] \in Optional(6)
    BY <2>1 DEF Entries
  <2>4. \A n \in Nat : \A x : x \in Optional(n) => Len(x) \in { 0, n }
    BY DEF Optional, Block
  <2>5. QED
    BY <2>2, <2>3, <2>4
<1>2. DOMAIN clock = DOMAIN NoClock
  BY DEF IInv, Typed, Clocks
<1>3. \A i \in DOMAIN host : Len(host[i]) = EtherMaxLen
  BY DEF IInv, Block
<1>4. QED
  BY <1>1, <1>2, <1>3 DEF IInv, TypeOK

(* The entry of the peer keeps the widths of its fields, whatever is cut   *)
(* off the frames and whatever order their TLVs come in; the name fits     *)
(* into its room; and every buffer for the host has the same length        *)
(* (rx.c, peers.h:25).                                                     *)
THEOREM ReceptionTypeCorrect == Spec => []TypeOK
<1>1. Init => IInv
  BY IInvInitially
<1>2. IInv /\ [Next]_vars => IInv'
  BY IInvKept
<1>3. IInv => TypeOK
  BY IInvTypes
<1>4. QED
  BY <1>1, <1>2, <1>3, PTL DEF Spec

(* The election never sees a mixture of two announcements of a peer, or of *)
(* the two versions of one: for any frames, headers, cuts and any memory,  *)
(* the fields that rank a peer come from one frame (rx.c:96, rx.c:116).    *)
THEOREM RankedByOneFrame == Spec => []ElectionFromOneFrame
<1>1. Init => IInv
  BY IInvInitially
<1>2. IInv /\ [Next]_vars => IInv'
  BY IInvKept
<1>3. IInv => ElectionFromOneFrame
  BY Zenon DEF IInv, RankedIfKnown, Ranked, ElectionFromOneFrame
<1>4. QED
  BY <1>1, <1>2, <1>3, PTL DEF Spec
-----------------------------------------------------------------------------
(* What a frame with a header in front and a body behind it shows.         *)
LEMMA FrameSeen ==
  ASSUME NEW type \in Nat, NEW src \in Nat, NEW dst \in Nat, NEW b \in Buffer
  PROVE  LET frame == Header(type, src, dst) \o b
         IN  /\ frame \in Buffer /\ Fits(frame, 0, 24)
             /\ ReadLE16(frame, 0) = type /\ Read(frame, 4, 6) = Address(dst)
             /\ Read(frame, 10, 6) = Address(src) /\ Strip(frame, 24) = b
<1> DEFINE h == Header(type, src, dst)
           frame == h \o b
           to == Address(dst)
<1>1. h \in Buffer /\ Len(h) = 24 /\ At(h, 4, to)
  BY HeaderLayout DEF Block
<1> HIDE DEF h, to
<1>2. frame \in Buffer /\ Len(frame) = 24 + Len(b) /\ Len(b) \in Nat
  <2>1. frame \in Buffer /\ Len(frame) = Len(h) + Len(b)
    BY <1>1, ConcatBytes
  <2>2. Len(b) \in Nat
    BY DEF Buffer
  <2> HIDE DEF frame
  <2>3. QED
    BY <1>1, <2>1, <2>2
<1>3. Strip(frame, 24) = b
  BY <1>1, StripFront
<1>4. Begins(frame, 0, frame \o Fcs)
  BY <1>2, FrameBegins
<1>5. HeaderBegun(frame, type, src, dst, b)
  BY <1>2, <1>4 DEF HeaderBegun, h
<1>6. Read(frame, 4, 6) = to
  <2>1. to \in Buffer /\ Len(to) = 6
    BY AddressBlock DEF Block, to
  <2>2. At(frame, 4, to)
    BY <1>1, <2>1, AtFront
  <2> HIDE DEF frame
  <2>3. QED
    BY <1>2, <2>1, <2>2, AtRead
<1> HIDE DEF frame
<1>7. HeaderSeen(frame, type, src, b)
  BY <1>5, HeaderRead
<1>8. QED
  BY <1>2, <1>3, <1>6, <1>7 DEF HeaderSeen, Fits, frame, h, to

LEMMA BodiesAnnounce ==
  ASSUME NEW v \in Nat, NEW b \in HonestBodies(v)
  PROVE  IsAnnouncement(b)
<1>1. PICK h \in Heads, t \in Chains(v) : b = h \o t
  BY DEF HonestBodies
<1> DEFINE action == Field("action", 0, 6)
<1>2. /\ h \in Buffer /\ Len(h) = 16 /\ t \in Buffer /\ At(h, 0, action)
      /\ ReadU8(h, 6) \in { Psf, Mif }
  BY <1>1 DEF Heads, Block, Chains
<1>3. action \in Buffer /\ Len(action) = 6
  <2>1. "action" \in Names
    BY FieldNames
  <2>2. QED
    BY <2>1, FieldBlock DEF Block
<1> HIDE DEF action
<1>4. b \in Buffer /\ Len(b) = 16 + Len(t) /\ Len(t) \in Nat /\ b[7] = h[7]
  <2>1. /\ b \in Buffer /\ Len(b) = Len(h) + Len(t)
        /\ \A k \in 1 .. Len(h) : b[k] = h[k]
    BY <1>1, <1>2, ConcatBytes
  <2>2. Len(t) \in Nat
    BY <1>2 DEF Buffer
  <2>3. 7 \in 1 .. Len(h)
    BY <1>2
  <2>4. QED
    BY <1>2, <2>1, <2>2, <2>3
<1>5. Read(b, 0, 6) = action
  <2>1. At(b, 0, action)
    BY <1>1, <1>2, <1>3, AtFront
  <2>2. QED
    BY <1>3, <1>4, <2>1, AtRead
<1>6. ReadU8(b, 6) \in { Psf, Mif }
  <2>1. ReadU8(b, 6) = ReadU8(h, 6)
    BY <1>4 DEF ReadU8
  <2>2. QED
    BY <1>2, <2>1
<1>7. QED
  BY <1>4, <1>5, <1>6 DEF IsAnnouncement, Fits, action

(* The announcements, with their 802.11 header.                            *)
LEMMA AnnouncementBytes ==
  ASSUME NEW f \in SentFrames, f.kind = "action"
  PROVE  /\ f \in Announcements
         /\ \E b \in HonestBodies(f.version) : Bytes[f] = Header(ActionFrame, Peer, 0) \o b
<1>1. f \in Announcements
  <2>1. CASE f \in Others
    <3>1. PICK k \in { "beacon", "block ack", "echo" } : f = [ kind |-> k ]
      BY <2>1 DEF Others
    <3>2. f.kind # "action"
      BY <3>1
    <3>3. QED
      BY <3>2
  <2>2. CASE f \in DataFrames
    <3>1. PICK k \in { "data", "qos", "amsdu" }, ms \in Payloads : f = [ kind |-> k, ms |-> ms ]
      BY <2>2 DEF DataFrames
    <3>2. f.kind # "action"
      BY <3>1
    <3>3. QED
      BY <3>2
  <2>3. QED
    BY <2>1, <2>2 DEF SentFrames
<1>2. PICK a \in Actions, w \in 1 .. MaxVersion :
        f = [ kind |-> "action", make |-> a[1], type |-> a[2], name |-> a[3], version |-> w ]
  BY <1>1 DEF Announcements
<1>3. f.make = a[1] /\ f.type = a[2] /\ f.name = a[3] /\ f.version = w /\ w \in Nat
  BY <1>2, Widths
<1>4. a[2] \in { Psf, Mif } /\ a[3] \in Nat
  <2>1. a \in { "own", "v1", "steps" } \X { 0, 3 } \X (0 .. 255)
    <3>1. Actions \subseteq { "own", "v1", "steps" } \X { 0, 3 } \X (0 .. 255)
      BY ReceptionAssumption
    <3>2. QED
      BY <3>1, Zenon
  <2>2. (0 .. 255) \subseteq Nat
    OBVIOUS
  <2>3. QED
    BY <2>1, <2>2, Zenon DEF Psf, Mif
<1> DEFINE own == ActionBody(f.version, f.type, f.name)
           other == BodyOfOthers(f.version, f.make, f.name)
           body == IF f.make = "own" THEN own ELSE other
<1>5. own \in HonestBodies(f.version) /\ other \in HonestBodies(f.version)
  BY <1>3, <1>4, ActionBodyHonest, OtherBodyHonest
<1>6. Bytes[f] = Header(ActionFrame, Peer, 0) \o body
  BY DEF Bytes
<1> HIDE DEF own, other
<1>7. body \in HonestBodies(f.version)
  BY <1>5, Zenon
<1>8. QED
  BY <1>1, <1>6, <1>7, Zenon

(* A frame that has arrived whole behind a header that tells so much is    *)
(* the frame that was sent; one of the node itself is ignored.             *)
Heard(tap, f, flags, rssi) ==
  LET bytes == IF IsSet(flags, FlagFcs) THEN Bytes[f] \o Fcs ELSE Bytes[f]
  IN  Rx(tap \o bytes, [ ok |-> TRUE, length |-> Len(tap), flags |-> flags, rssi |-> rssi ],
         TRUE)

RxFrame(frame, rssi, memory) ==
  LET dst == Read(frame, 4, 6)
      src == Read(frame, 10, 6)
      body == Strip(frame, 24)
  IN  CASE ReadLE16(frame, 0) = ActionFrame  -> RxAction(body, rssi, memory)
        [] ReadLE16(frame, 0) = QosDataFrame -> RxQosData(body, src, dst)
        [] ReadLE16(frame, 0) = DataFrame    -> RxData(body, src, dst)
        [] OTHER -> Outcome(RxUnexpectedType)

LEMMA WholeFrame ==
  ASSUME NEW tap \in Buffer, NEW f, Bytes[f] \in Buffer, NEW flags, NEW rssi,
         ~IsSet(flags, FlagBadFcs), Fits(Bytes[f], 0, 24)
  PROVE  Heard(tap, f, flags, rssi) =
           IF Read(Bytes[f], 10, 6) = Address(Self) THEN Outcome(RxIgnoreFromSelf)
           ELSE RxFrame(Bytes[f], rssi, TRUE)
<1> DEFINE frame == Bytes[f]
           bytes == IF IsSet(flags, FlagFcs) THEN frame \o Fcs ELSE frame
           buf == tap \o bytes
           told == [ ok |-> TRUE, length |-> Len(tap), flags |-> flags, rssi |-> rssi ]
           checksum == IsSet(flags, FlagFcs)
<1>1. Fcs \in Buffer /\ Len(Fcs) = 4
  <2>1. "fcs" \in Names /\ 0 \in Nat
    BY FieldNames
  <2>2. QED
    BY <2>1, FieldBlock, Zenon DEF Fcs, Block
<1>2. frame \in Buffer /\ Len(frame) \in Nat
  BY DEF Buffer
<1>3. /\ told.ok /\ told.length = Len(tap) /\ told.flags = flags /\ told.rssi = rssi
  OBVIOUS
<1> HIDE DEF frame, told
<1>4. Len(frame \o Fcs) = Len(frame) + 4 /\ frame \o Fcs \in Buffer
  <2>1. Len(frame \o Fcs) = Len(frame) + Len(Fcs) /\ frame \o Fcs \in Buffer
    BY <1>1, <1>2, ConcatBytes
  <2>2. QED
    BY <1>1, <2>1
<1>5. bytes \in Buffer
  BY <1>2, <1>4
<1>6. Strip(buf, told.length) = bytes
  <2> HIDE DEF bytes
  <2>1. Strip(buf, Len(tap)) = bytes
    BY <1>5, StripFront
  <2>2. QED
    BY <1>3, <2>1
<1>7. (IF checksum THEN Take(bytes, 4) ELSE bytes) = frame
  <2>1. Take(frame \o Fcs, 4) = frame
    BY <1>1, <1>2, TakeBack
  <2>2. QED
    BY <2>1, Zenon
<1>8. ~(IsSet(told.flags, FlagBadFcs) \/ (checksum /\ Len(bytes) < 4))
  <2>1. checksum => Len(bytes) >= 4
    BY <1>2, <1>4
  <2>2. CASE checksum
    BY <1>2, <1>3, <1>4, <2>2
  <2>3. CASE ~checksum
    BY <1>3, <2>3
  <2>4. QED
    BY <2>2, <2>3
<1> HIDE DEF bytes, buf, checksum
<1>9. Rx(buf, told, TRUE) = IF Read(frame, 10, 6) = Address(Self)
                              THEN Outcome(RxIgnoreFromSelf)
                              ELSE RxFrame(frame, rssi, TRUE)
  <2>1. Fits(frame, 0, 24)
    BY DEF frame
  <2>2. CASE Read(frame, 10, 6) = Address(Self)
    BY <1>3, <1>6, <1>7, <1>8, <2>1, <2>2, Zenon DEF Rx, checksum
  <2>3. CASE Read(frame, 10, 6) # Address(Self)
    <3>1. Rx(buf, told, TRUE) = RxFrame(frame, rssi, TRUE)
      BY <1>3, <1>6, <1>7, <1>8, <2>1, <2>3, Zenon DEF Rx, RxFrame, checksum
    <3>2. QED
      BY <2>3, <3>1, Zenon
  <2>4. QED
    BY <2>2, <2>3, Zenon
<1>10. QED
  BY <1>9, Zenon DEF Heard, frame, bytes, buf, told
LEMMA AddressesDiffer ==
  \A m, n \in Nat : Address(m) = Address(n) => m = n
<1> SUFFICES ASSUME NEW m \in Nat, NEW n \in Nat, Address(m) = Address(n) PROVE m = n
  OBVIOUS
<1>1. Address(m)[1] = << "address", m, 1 >> /\ Address(n)[1] = << "address", n, 1 >>
  BY DEF Address, Field
<1>2. QED
  BY <1>1

LEMMA ActionResult ==
  ASSUME NEW b, IsAnnouncement(b), NEW rssi
  PROVE  RxAction(b, rssi, TRUE).result = RxIgnoreRssi <=> FilterRssi /\ rssi < Limit
<1>1. CASE FilterRssi /\ rssi < Limit
  <2>1. RxAction(b, rssi, TRUE) = Outcome(RxIgnoreRssi)
    BY <1>1, Zenon DEF RxAction
  <2>2. Outcome(RxIgnoreRssi).result = RxIgnoreRssi
    BY DEF Outcome
  <2>3. QED
    BY <1>1, <2>1, <2>2, Zenon
<1>2. CASE ~(FilterRssi /\ rssi < Limit)
  <2>1. RxOk # RxIgnoreRssi /\ RxUnexpectedFormat # RxIgnoreRssi
    BY DEF RxOk, RxIgnoreRssi, RxUnexpectedFormat
  <2>2. RxAction(b, rssi, TRUE).result \in { RxOk, RxUnexpectedFormat }
    BY <1>2 DEF RxAction
  <2>3. QED
    BY <1>2, <2>1, <2>2
<1>3. QED
  BY <1>1, <1>2

(* The signal of an announcement decides whether it is used.               *)
LEMMA AnnouncementHeard ==
  ASSUME NEW tap \in Buffer, NEW f \in SentFrames, f.kind = "action",
         NEW flags, ~IsSet(flags, FlagBadFcs), NEW rssi
  PROVE  Heard(tap, f, flags, rssi).result = RxIgnoreRssi <=> FilterRssi /\ rssi < Limit
<1>1. PICK b \in HonestBodies(f.version) : Bytes[f] = Header(ActionFrame, Peer, 0) \o b
  BY AnnouncementBytes
<1>2. f.version \in Nat
  <2>1. PICK a \in Actions, w \in 1 .. MaxVersion :
          f = [ kind |-> "action", make |-> a[1], type |-> a[2], name |-> a[3],
                version |-> w ]
    BY AnnouncementBytes DEF Announcements
  <2>2. f.version = w /\ w \in Nat
    BY <2>1, Widths
  <2>3. QED
    BY <2>2
<1>3. b \in Buffer /\ IsAnnouncement(b)
  BY <1>2, BodiesAnnounce DEF HonestBodies
<1>4. ActionFrame \in Nat /\ Peer \in Nat /\ 0 \in Nat
  BY DEF ActionFrame, Peer
<1> DEFINE frame == Header(ActionFrame, Peer, 0) \o b
<1>5. /\ frame \in Buffer /\ Fits(frame, 0, 24) /\ ReadLE16(frame, 0) = ActionFrame
      /\ Read(frame, 10, 6) = Address(Peer) /\ Strip(frame, 24) = b
  BY <1>3, <1>4, FrameSeen
<1> HIDE DEF frame
<1>6. Address(Peer) # Address(Self)
  BY AddressesDiffer DEF Peer, Self
<1>7. Heard(tap, f, flags, rssi) = RxFrame(frame, rssi, TRUE)
  BY <1>1, <1>5, <1>6, WholeFrame, Zenon DEF frame
<1>8. RxFrame(frame, rssi, TRUE) = RxAction(b, rssi, TRUE)
  <2>1. ReadLE16(frame, 0) = ActionFrame /\ Strip(frame, 24) = b
    BY <1>5
  <2>2. ActionFrame # QosDataFrame /\ ActionFrame # DataFrame
    BY DEF ActionFrame, QosDataFrame, DataFrame
  <2>3. QED
    BY <2>1, <2>2 DEF RxFrame
<1>9. RxAction(b, rssi, TRUE).result = RxIgnoreRssi <=> FilterRssi /\ rssi < Limit
  BY <1>3, ActionResult
<1>10. QED
  BY <1>7, <1>8, <1>9

LEMMA ArriveHeard ==
  ASSUME IInv, Arrive
  PROVE  HeardIfNear'
<1>1. PICK f \in InTheAir, h \in Headers, memory \in { entry.known, TRUE } :
      \E held \in HeldBefore(h) :
        LET bytes == IF IsSet(h[2], FlagFcs) THEN Bytes[f] \o Fcs ELSE Bytes[f]
        IN  Received(f, h, Tap[h] \o bytes, Told[h][held], memory,
                     h[1] # "bare" /\ ~IsSet(h[2], FlagBadFcs))
  BY Zenon DEF Arrive
<1>2. PICK held \in HeldBefore(h) :
        LET bytes == IF IsSet(h[2], FlagFcs) THEN Bytes[f] \o Fcs ELSE Bytes[f]
        IN  Received(f, h, Tap[h] \o bytes, Told[h][held], memory,
                     h[1] # "bare" /\ ~IsSet(h[2], FlagBadFcs))
  BY <1>1, Zenon
<1> DEFINE bytes == IF IsSet(h[2], FlagFcs) THEN Bytes[f] \o Fcs ELSE Bytes[f]
           whole == h[1] # "bare" /\ ~IsSet(h[2], FlagBadFcs)
           mark == [ frame |-> f, whole |-> whole, near |-> h[3] >= Limit ]
           out == Rx(Tap[h] \o bytes, Told[h][held], memory)
<1>3. /\ result' = out.result
      /\ last' = IF memory /\ (whole \/ f.kind = "amsdu") THEN mark ELSE NoFrame
  BY <1>2, Zenon DEF Received
<1> SUFFICES ASSUME last' # NoFrame, last'.whole, last'.frame.kind = "action"
             PROVE  result' = RxIgnoreRssi <=> FilterRssi /\ ~last'.near
  BY DEF HeardIfNear
<1>4. memory /\ last' = mark
  BY <1>3, Zenon
<1>5. /\ last'.frame = f /\ last'.whole = whole /\ last'.near = (h[3] >= Limit)
  BY <1>4
<1>6. f.kind = "action" /\ whole /\ f \in SentFrames /\ memory = TRUE
  BY <1>4, <1>5 DEF InTheAir
<1>7. Told[h][held] = [ ok |-> TRUE, length |-> Len(Tap[h]), flags |-> h[2], rssi |-> h[3] ]
  <2>1. held \in Held /\ Told[h][held] = RadiotapParse(Tap[h], held)
    BY HeldTells
  <2>2. h[1] # "bare"
    BY <1>6
  <2>3. QED
    BY <2>1, <2>2, HeadersTell
<1>8. out = Heard(Tap[h], f, h[2], h[3])
  BY <1>6, <1>7, Zenon DEF Heard
<1>9. out.result = RxIgnoreRssi <=> FilterRssi /\ h[3] < Limit
  <2>1. Tap[h] \in Buffer
    BY TapTells DEF Taps
  <2>2. ~IsSet(h[2], FlagBadFcs)
    BY <1>6
  <2> HIDE DEF out, bytes, whole, mark
  <2>3. QED
    BY <1>6, <1>8, <2>1, <2>2, AnnouncementHeard
<1>10. (h[3] < Limit) <=> ~(h[3] >= Limit)
  <2>1. h[3] \in Int
    <3>1. h[3] \in -128 .. 127
      BY HeadersTyped, Zenon
    <3>2. QED
      BY <3>1
  <2>2. Limit \in Int
    <3>1. RssiThreshold \in Int /\ RssiGrace \in Int
      BY ReceptionAssumption
    <3>2. QED
      BY <3>1 DEF Limit
  <2>3. QED
    BY <2>1, <2>2
<1>11. QED
  BY <1>3, <1>5, <1>9, <1>10

LEMMA CutNotHeard ==
  ASSUME NEW f, NEW h, NEW buf, NEW told, NEW memory,
         Received(f, h, buf, told, memory, FALSE)
  PROVE  HeardIfNear'
<1> DEFINE mark == [ frame |-> f, whole |-> FALSE, near |-> h[3] >= Limit ]
<1>1. last' \in { mark, NoFrame } /\ mark.whole = FALSE
  BY DEF Received
<1>2. QED
  BY <1>1 DEF HeardIfNear

(* An announcement that arrives whole, behind a header of one of the       *)
(* layouts of Tap that give a signal, is ignored for its signal just when  *)
(* that is below the limit: for every byte of flags, every signal, every   *)
(* length of the vendor's data in the layout that has any, whatever an     *)
(* earlier header has left in the variables and whatever the thresholds    *)
(* (radiotap.c, rx.c:254).  Headers of other words are not covered.        *)
THEOREM HeardByItsSignal == Spec => []HeardIfNear
<1> DEFINE I == IInv /\ HeardIfNear
<1>1. Init => I
  <2>1. Init => HeardIfNear
    BY DEF Init, HeardIfNear
  <2>2. QED
    BY <2>1, IInvInitially
<1>2. I /\ [Next]_vars => I'
  <2> SUFFICES ASSUME I, [Next]_vars PROVE HeardIfNear'
    BY IInvKept
  <2>1. CASE Arrive
    BY <2>1, ArriveHeard
  <2>2. CASE ArriveCut
    <3>1. \E f, h, buf, told : Received(f, h, buf, told, TRUE, FALSE)
      BY <2>2, Zenon DEF ArriveCut
    <3>2. QED
      BY <3>1, CutNotHeard
  <2>3. CASE ArriveCutInHeader
    <3>1. \E f, h, buf, told : Received(f, h, buf, told, TRUE, FALSE)
      BY <2>3, Zenon DEF ArriveCutInHeader
    <3>2. QED
      BY <3>1, CutNotHeard
  <2>4. CASE Return
    BY <2>4 DEF Return, HeardIfNear
  <2>5. CASE Change
    BY <2>5 DEF Change, HeardIfNear
  <2>6. CASE CleanPeers
    BY <2>6 DEF CleanPeers, HeardIfNear
  <2>7. CASE UNCHANGED vars
    BY <2>7 DEF vars, HeardIfNear
  <2>8. QED
    BY <2>1, <2>2, <2>3, <2>4, <2>5, <2>6, <2>7 DEF Next
<1>3. I => HeardIfNear
  OBVIOUS
<1>4. QED
  BY <1>1, <1>2, <1>3, PTL DEF Spec
-----------------------------------------------------------------------------
(* What the host gets.                                                     *)

LEMMA FromPeerSelects ==
  ASSUME NEW ms \in Seq(Messages), NEW known \in BOOLEAN
  PROVE  \E upTo : Selects(upTo, ms, known) /\ FromPeer(ms, known) = upTo[Len(ms)]
<1> DEFINE N == Len(ms)
           S == Seq(Messages)
           add(n, some) == IF Wanted(ms[n], known) THEN Append(some, ms[n]) ELSE some
           Step(f) == [ n \in 0 .. N |-> IF n = 0 THEN << >> ELSE add(n, f[n - 1]) ]
           upTo == CHOOSE f : f = Step(f)
<1>1. N \in Nat /\ \A n \in 1 .. N : ms[n] \in Messages
  OBVIOUS
<1>2. FromPeer(ms, known) = upTo[N]
  BY Zenon DEF FromPeer, Wanted
<1>3. \A n \in 1 .. N, some \in S : add(n, some) \in S
  <2>1. \A n \in 1 .. N, some \in S : Append(some, ms[n]) \in S
    BY <1>1
  <2>2. QED
    BY <2>1
<1>4. \A n \in 1 .. N : n # 0 /\ n \in 0 .. N /\ n - 1 \in 0 .. N
  BY <1>1
<1>5. 0 \in 0 .. N /\ \A n \in 0 .. N : n # 0 => n \in 1 .. N
  BY <1>1
<1> HIDE DEF add
<1>6. \E f : f = Step(f)
  <2> DEFINE join == [ p \in (1 .. N) \X S |-> add(p[1], p[2]) ]
  <2>1. PICK g : Counts(g, N, S, << >>, join)
    <3>1. join \in [ (1 .. N) \X S -> S ] /\ << >> \in S
      BY <1>3
    <3>2. Count(N, S, << >>, join)
      BY <1>1, <3>1 DEF Count
    <3> HIDE DEF join, N, S
    <3>3. QED
      BY <3>2, CountHasResult
  <2>2. /\ g \in [ 0 .. N -> S ] /\ g[0] = << >>
        /\ \A n \in 1 .. N : g[n] = join[<< n, g[n - 1] >>]
    BY <2>1, Zenon DEF Counts
  <2>3. ASSUME NEW n \in 1 .. N PROVE g[n] = add(n, g[n - 1])
    <3>1. g[n - 1] \in S
      BY <1>4, <2>2
    <3>2. << n, g[n - 1] >> \in (1 .. N) \X S
      BY <3>1
    <3>3. join[<< n, g[n - 1] >>] = add(n, g[n - 1])
      BY <3>2
    <3>4. QED
      BY <2>2, <3>3
  <2> HIDE DEF join, N, S
  <2>4. \A n \in 0 .. N : g[n] = Step(g)[n]
    BY <1>4, <1>5, <2>2, <2>3
  <2>5. g = [ n \in 0 .. N |-> g[n] ] /\ Step(g) = [ n \in 0 .. N |-> Step(g)[n] ]
    BY <2>2
  <2> HIDE DEF Step
  <2>6. g = Step(g)
    BY <2>4, <2>5
  <2>7. QED
    BY <2>6
<1>7. upTo = Step(upTo)
  <2> HIDE DEF Step
  <2>1. QED
    BY <1>6
<1> HIDE DEF upTo
<1>8. upTo[0] = << >> /\ \A n \in 1 .. N : upTo[n] = add(n, upTo[n - 1])
  <2>1. \A n \in 0 .. N : upTo[n] = IF n = 0 THEN << >> ELSE add(n, upTo[n - 1])
    <3> HIDE DEF N
    <3>1. QED
      BY <1>7
  <2> HIDE DEF N
  <2>2. QED
    BY <1>4, <1>5, <2>1
<1>9. \A n \in 0 .. N : upTo[n] \in S
  <2>1. upTo[0] \in S
    BY <1>8
  <2>2. \A n \in 1 .. N : upTo[n - 1] \in S => upTo[n] \in S
    BY <1>3, <1>8
  <2> HIDE DEF S, N
  <2>3. QED
    BY <1>1, <2>1, <2>2, CountPreserves
<1>10. upTo \in [ 0 .. N -> S ]
  <2>1. upTo = [ n \in 0 .. N |-> upTo[n] ]
    <3> HIDE DEF N
    <3>1. QED
      BY <1>7
  <2> HIDE DEF N, S
  <2>2. QED
    BY <1>9, <2>1
<1>11. QED
  BY <1>2, <1>8, <1>10 DEF Selects, add

(* Those of the first k come first.                                        *)
LEMMA SelectedBefore ==
  ASSUME NEW ms \in Seq(Messages), NEW known, NEW upTo, Selects(upTo, ms, known),
         NEW k \in 0 .. Len(ms)
  PROVE  /\ upTo[k] \in Seq(Messages) /\ upTo[Len(ms)] \in Seq(Messages)
         /\ Len(upTo[k]) <= Len(upTo[Len(ms)])
         /\ \A i \in 1 .. Len(upTo[k]) : upTo[Len(ms)][i] = upTo[k][i]
<1> DEFINE N == Len(ms)
           all == upTo[N]
           X == 0 .. N
           measure == [ n \in X |-> N - n ]
           P == { n \in X : /\ Len(upTo[n]) <= Len(all)
                            /\ \A i \in 1 .. Len(upTo[n]) : all[i] = upTo[n][i] }
<1>1. N \in Nat /\ \A n \in 1 .. N : ms[n] \in Messages
  OBVIOUS
<1>2. \A n \in X : upTo[n] \in Seq(Messages)
  BY DEF Selects
<1>3. ASSUME NEW n \in X, \A m \in X : measure[m] < measure[n] => m \in P
      PROVE  n \in P
  <2>1. CASE n = N
    <3>1. Len(all) \in Nat
      BY <1>1, <1>2
    <3>2. QED
      BY <2>1, <3>1
  <2>2. CASE n # N
    <3> DEFINE m == n + 1
               more == upTo[m]
               some == upTo[n]
    <3>1. m \in X /\ m \in 1 .. N /\ m - 1 = n /\ measure[m] < measure[n]
      BY <1>1, <2>2
    <3>2. m \in P
      BY <1>3, <3>1
    <3>3. more = IF Wanted(ms[m], known) THEN Append(some, ms[m]) ELSE some
      BY <3>1 DEF Selects
    <3>4. some \in Seq(Messages) /\ ms[m] \in Messages
      BY <1>1, <1>2, <3>1
    <3>5. Len(more) <= Len(all) /\ \A i \in 1 .. Len(more) : all[i] = more[i]
      BY <3>2
    <3> HIDE DEF m, more, all, X, measure
    <3>6. /\ Len(some) \in Nat /\ Len(more) \in { Len(some), Len(some) + 1 }
          /\ \A i \in 1 .. Len(some) : more[i] = some[i]
      <4>1. CASE Wanted(ms[m], known)
        <5>1. more = Append(some, ms[m])
          BY <3>3, <4>1
        <5>2. QED
          BY <3>4, <5>1
      <4>2. CASE ~Wanted(ms[m], known)
        BY <3>3, <3>4, <4>2
      <4>3. QED
        BY <4>1, <4>2
    <3> HIDE DEF some
    <3>7. \A i \in 1 .. Len(some) : i \in 1 .. Len(more)
      BY <3>6
    <3>8. Len(all) \in Nat
      <4>1. N \in X
        BY <1>1 DEF X
      <4>2. all \in Seq(Messages)
        BY <1>2, <4>1 DEF all
      <4>3. QED
        BY <4>2
    <3>9. Len(some) <= Len(all) /\ \A i \in 1 .. Len(some) : all[i] = some[i]
      BY <3>5, <3>6, <3>7, <3>8
    <3>10. QED
      BY <3>9 DEF some
  <2>3. QED
    BY <2>1, <2>2
<1>4. measure \in [ X -> Nat ]
  BY <1>1
<1>5. X \subseteq P
  <2> HIDE DEF X, measure, P
  <2>1. QED
    BY <1>3, <1>4, MeasureInduction
<1>6. k \in X /\ N \in X
  BY <1>1
<1>7. QED
  BY <1>2, <1>5, <1>6

(* If the next is wanted, it is the one that follows in all.               *)
LEMMA SelectedNext ==
  ASSUME NEW ms \in Seq(Messages), NEW known, NEW upTo, Selects(upTo, ms, known),
         NEW k \in 0 .. Len(ms) - 1
  PROVE  IF Wanted(ms[k + 1], known)
           THEN /\ Len(upTo[k + 1]) = Len(upTo[k]) + 1
                /\ upTo[Len(ms)][Len(upTo[k]) + 1] = ms[k + 1]
           ELSE Len(upTo[k + 1]) = Len(upTo[k])
<1> DEFINE m == ms[k + 1]
           more == upTo[k + 1]
           some == upTo[k]
           all == upTo[Len(ms)]
<1>1. Len(ms) \in Nat
  OBVIOUS
<1>2. /\ k + 1 \in 1 .. Len(ms) /\ k + 1 \in 0 .. Len(ms) /\ k \in 0 .. Len(ms)
      /\ (k + 1) - 1 = k
  BY <1>1
<1>3. m \in Messages
  BY <1>2
<1>4. more = IF Wanted(m, known) THEN Append(some, m) ELSE some
  BY <1>2 DEF Selects
<1>5. some \in Seq(Messages)
  BY <1>2, SelectedBefore
<1>6. \A i \in 1 .. Len(more) : all[i] = more[i]
  BY <1>2, SelectedBefore
<1> HIDE DEF m, more, some, all
<1>7. CASE Wanted(m, known)
  <2>1. Len(some) \in Nat
    BY <1>5
  <2>2. Len(more) = Len(some) + 1 /\ more[Len(some) + 1] = m
    BY <1>3, <1>4, <1>5, <1>7
  <2>3. Len(some) + 1 \in 1 .. Len(more)
    BY <2>1, <2>2
  <2>4. all[Len(some) + 1] = m
    BY <1>6, <2>2, <2>3
  <2>5. QED
    BY <1>7, <2>2, <2>4 DEF m, more, some, all
<1>8. CASE ~Wanted(m, known)
  BY <1>4, <1>8 DEF m, more, some
<1>9. QED
  BY <1>7, <1>8

(* What a subframe holds.                                                  *)
SubHead(m) == Address(m.dst) \o Address(m.src) \o BE16(Len(DataBody(m)))

LEMMA SubframeParts ==
  ASSUME NEW m \in Messages
  PROVE  /\ m.dst \in Nat /\ m.src \in Nat /\ m.length \in Nat
         /\ SubHead(m) \in Block(14) /\ DataBody(m) \in Block(16 + m.length)
         /\ Subframe(m) \in Block(30 + m.length)
         /\ Subframe(m) = SubHead(m) \o DataBody(m)
<1>1. m.dst \in Nat /\ m.src \in Nat /\ m.length \in Nat
  BY DEF Messages
<1>2. DataBody(m) \in Block(16 + m.length) /\ Subframe(m) \in Block(30 + m.length)
  BY DataBodyBytes, SubframeBytes
<1> DEFINE to == Address(m.dst)
           from == Address(m.src)
           body == DataBody(m)
           number == BE16(Len(body))
<1>3. Subframe(m) = SubHead(m) \o body /\ SubHead(m) = to \o from \o number
  BY DEF Subframe, SubHead
<1>4. to \in Block(6) /\ from \in Block(6)
  BY <1>1, AddressBlock
<1>5. Len(body) \in Nat
  BY <1>2 DEF Block, Buffer
<1> HIDE DEF to, from, body
<1>6. number \in Block(2)
  BY <1>5, NumberBlock
<1> HIDE DEF number
<1>7. to \o from \in Block(12)
  BY <1>4, ConcatBlock
<1>8. to \o from \o number \in Block(14)
  BY <1>6, <1>7, ConcatBlock
<1>9. QED
  BY <1>1, <1>2, <1>3, <1>8 DEF body

LEMMA SubHeadRead ==
  ASSUME NEW frame \in Buffer, NEW at \in Nat, NEW m \in Messages,
         At(frame, at, SubHead(m))
  PROVE  /\ Fits(frame, at, 14)
         /\ ReadBE16(frame, at + 12) = 16 + m.length
         /\ Read(frame, at, 6) = Address(m.dst)
         /\ Read(frame, at + 6, 6) = Address(m.src)
<1> DEFINE to == Address(m.dst)
           from == Address(m.src)
           n == 16 + m.length
           number == BE16(n)
           head == SubHead(m)
<1>1. /\ m.dst \in Nat /\ m.src \in Nat /\ m.length \in Nat
      /\ head \in Block(14) /\ DataBody(m) \in Block(n)
  BY SubframeParts
<1>2. Len(DataBody(m)) = n /\ n \in Nat
  BY <1>1 DEF Block
<1>3. head = to \o from \o number
  BY <1>2 DEF SubHead
<1>4. to \in Block(6) /\ from \in Block(6)
  BY <1>1, AddressBlock
<1>5. number \in Block(2) /\ number[1] = Num(n \div 256) /\ number[2] = Num(n % 256)
  <2> HIDE DEF n
  <2>1. number \in Block(2)
    BY <1>2, NumberBlock
  <2>2. QED
    BY <2>1 DEF BE16
<1>6. At(frame, at, head)
  OBVIOUS
<1> HIDE DEF to, from, number, head
<1>7. to \o from \in Block(12)
  BY <1>4, ConcatBlock
<1>8. /\ to \in Buffer /\ from \in Buffer /\ number \in Buffer /\ to \o from \in Buffer
      /\ Len(to) = 6 /\ Len(from) = 6 /\ Len(number) = 2 /\ Len(to \o from) = 12
      /\ Len(head) = 14
  BY <1>1, <1>4, <1>5, <1>7 DEF Block
<1>9. At(frame, at, to \o from) /\ At(frame, at + 12, number)
  <2>1. /\ At(frame, at, to \o from)
        /\ At(frame, at + Len(to \o from), number)
    BY <1>3, <1>6, <1>8, AtParts
  <2>2. QED
    BY <1>8, <2>1
<1>10. At(frame, at, to) /\ At(frame, at + 6, from)
  <2>1. At(frame, at, to) /\ At(frame, at + Len(to), from)
    BY <1>8, <1>9, AtParts
  <2>2. QED
    BY <1>8, <2>1
<1>11. Read(frame, at, 6) = to
  BY <1>8, <1>10, AtRead
<1>12. Read(frame, at + 6, 6) = from
  <2> DEFINE place == at + 6
  <2>1. place \in Nat /\ At(frame, place, from)
    BY <1>10
  <2> HIDE DEF place
  <2>2. Read(frame, place, 6) = from
    BY <1>8, <2>1, AtRead
  <2>3. QED
    BY <2>2 DEF place
<1>13. ReadBE16(frame, at + 12) = n
  <2>1. \A k \in 1 .. 2 : frame[(at + 12) + k] = number[k]
    BY <1>8, <1>9 DEF At
  <2>2. frame[(at + 12) + 1] = Num(n \div 256) /\ frame[(at + 12) + 2] = Num(n % 256)
    BY <1>5, <2>1
  <2>3. n \div 256 \in Nat /\ n % 256 \in Nat
    BY <1>2
  <2>4. Num(n \div 256)[3] = n \div 256 /\ Num(n % 256)[3] = n % 256
    BY <2>3, NumByte, Zenon
  <2>5. ReadU8(frame, at + 12) = n \div 256
    BY <2>2, <2>4, Zenon DEF ReadU8
  <2>6. ReadU8(frame, (at + 12) + 1) = n % 256
    <3>1. ReadU8(frame, (at + 12) + 1) = frame[(at + 12) + 2][3]
      <4>1. ((at + 12) + 1) + 1 = (at + 12) + 2
        OBVIOUS
      <4>2. ReadU8(frame, (at + 12) + 1) = frame[((at + 12) + 1) + 1][3]
        BY Zenon DEF ReadU8
      <4>3. QED
        BY <4>1, <4>2
    <3>2. QED
      BY <2>2, <2>4, <3>1, Zenon
  <2>7. ReadBE16(frame, at + 12) = 256 * (n \div 256) + (n % 256)
    BY <2>5, <2>6, Zenon DEF ReadBE16
  <2>8. QED
    BY <1>2, <2>7
<1>14. Fits(frame, at, 14)
  BY <1>6, <1>8 DEF At, Fits
<1>15. QED
  BY <1>11, <1>12, <1>13, <1>14 DEF to, from, n

LEMMA SubframeSeen ==
  ASSUME NEW frame \in Buffer, NEW at \in Nat, NEW m \in Messages,
         At(frame, at, Subframe(m))
  PROVE  /\ At(frame, at, SubHead(m))
         /\ Read(frame, at + 14, 16 + m.length) = DataBody(m)
<1> DEFINE head == SubHead(m)
           body == DataBody(m)
           n == 16 + m.length
           place == at + 14
<1>1. /\ m.length \in Nat /\ head \in Buffer /\ Len(head) = 14 /\ body \in Buffer
      /\ Len(body) = n /\ Subframe(m) = head \o body
  BY SubframeParts DEF Block
<1> HIDE DEF head, body
<1>2. At(frame, at, head) /\ At(frame, at + Len(head), body)
  BY <1>1, AtParts
<1>3. place \in Nat /\ At(frame, place, body) /\ n \in Nat
  BY <1>1, <1>2
<1> HIDE DEF place, n
<1>4. Read(frame, place, n) = body
  BY <1>1, <1>3, AtRead
<1>5. QED
  BY <1>2, <1>4 DEF head, body, n, place

LEMMA LlcBytes ==
  ASSUME NEW valid \in BOOLEAN
  PROVE  /\ Llc(valid) \in Block(8)
         /\ Llc(valid)[1] = Num(170) /\ Llc(valid)[2] = Num(IF valid THEN 170 ELSE 66)
         /\ Llc(valid)[3] = Num(3) /\ Llc(valid)[7] = Num(8) /\ Llc(valid)[8] = Num(0)
<1> DEFINE snap == IF valid THEN 170 ELSE 66
           dsap == U8(170)
           ssap == U8(snap)
           control == U8(3)
           oui == Field("oui", 0, 3)
           type == BE16(2048)
           a == dsap \o ssap
           b == a \o control
           c == b \o oui
           d == c \o type
<1>1. Llc(valid) = d
  BY DEF Llc
<1>2. /\ dsap \in Block(1) /\ ssap \in Block(1) /\ control \in Block(1)
      /\ oui \in Block(3) /\ type \in Block(2)
  <2>1. snap \in Nat
    OBVIOUS
  <2>2. "oui" \in Names
    BY DEF Names
  <2> HIDE DEF snap
  <2>3. QED
    BY <2>1, <2>2, FieldBlock, NumberBlock
<1>3. /\ dsap[1] = Num(170) /\ ssap[1] = Num(snap) /\ control[1] = Num(3)
      /\ type[1] = Num(8) /\ type[2] = Num(0)
  BY DEF U8, BE16
<1>4. /\ dsap \in Buffer /\ ssap \in Buffer /\ control \in Buffer
      /\ oui \in Buffer /\ type \in Buffer
      /\ Len(dsap) = 1 /\ Len(ssap) = 1 /\ Len(control) = 1
      /\ Len(oui) = 3 /\ Len(type) = 2
  <2> HIDE DEF dsap, ssap, control, oui, type
  <2>1. QED
    BY <1>2 DEF Block
<1> HIDE DEF snap, dsap, ssap, control, oui, type
<1>5. a \in Buffer /\ Len(a) = 2 /\ a[1] = dsap[1] /\ a[2] = ssap[1]
  <2>1. /\ a \in Buffer /\ Len(a) = Len(dsap) + Len(ssap)
        /\ \A k \in 1 .. Len(dsap) : a[k] = dsap[k]
        /\ \A k \in 1 .. Len(ssap) : a[Len(dsap) + k] = ssap[k]
    BY <1>4, ConcatBytes
  <2> HIDE DEF a
  <2>2. QED
    BY <1>4, <2>1
<1> HIDE DEF a
<1>6. b \in Buffer /\ Len(b) = 3 /\ b[3] = control[1] /\ \A k \in 1 .. 2 : b[k] = a[k]
  <2>1. /\ b \in Buffer /\ Len(b) = Len(a) + Len(control)
        /\ \A k \in 1 .. Len(a) : b[k] = a[k]
        /\ \A k \in 1 .. Len(control) : b[Len(a) + k] = control[k]
    BY <1>4, <1>5, ConcatBytes
  <2> HIDE DEF b
  <2>2. QED
    BY <1>4, <1>5, <2>1
<1> HIDE DEF b
<1>7. c \in Buffer /\ Len(c) = 6 /\ \A k \in 1 .. 3 : c[k] = b[k]
  <2>1. /\ c \in Buffer /\ Len(c) = Len(b) + Len(oui)
        /\ \A k \in 1 .. Len(b) : c[k] = b[k]
    BY <1>4, <1>6, ConcatBytes
  <2> HIDE DEF c
  <2>2. QED
    BY <1>4, <1>6, <2>1
<1> HIDE DEF c
<1>8. /\ d \in Buffer /\ Len(d) = 8 /\ d[7] = type[1] /\ d[8] = type[2]
      /\ \A k \in 1 .. 6 : d[k] = c[k]
  <2>1. /\ d \in Buffer /\ Len(d) = Len(c) + Len(type)
        /\ \A k \in 1 .. Len(c) : d[k] = c[k]
        /\ \A k \in 1 .. Len(type) : d[Len(c) + k] = type[k]
    BY <1>4, <1>7, ConcatBytes
  <2> HIDE DEF d
  <2>2. QED
    BY <1>4, <1>7, <2>1
<1> HIDE DEF d
<1>9. d[1] = dsap[1] /\ d[2] = ssap[1] /\ d[3] = control[1]
  BY <1>5, <1>6, <1>7, <1>8
<1>10. d \in Block(8)
  BY <1>8 DEF Block
<1>11. QED
  BY <1>1, <1>3, <1>8, <1>9, <1>10 DEF snap

LEMMA LlcSeen ==
  ASSUME NEW valid \in BOOLEAN, NEW y \in Buffer
  PROVE  ValidLlc(Llc(valid) \o y) <=> valid
<1> DEFINE llc == Llc(valid)
           frame == llc \o y
           snap == IF valid THEN 170 ELSE 66
<1>1. /\ llc \in Buffer /\ Len(llc) = 8 /\ llc[1] = Num(170) /\ llc[2] = Num(snap)
      /\ llc[3] = Num(3) /\ llc[7] = Num(8) /\ llc[8] = Num(0)
  BY LlcBytes DEF Block
<1>2. snap \in Nat /\ (snap = 170 <=> valid)
  OBVIOUS
<1> HIDE DEF llc, snap
<1>3. Len(frame) = 8 + Len(y) /\ Len(y) \in Nat /\ \A k \in 1 .. 8 : frame[k] = llc[k]
  <2>1. /\ Len(frame) = Len(llc) + Len(y)
        /\ \A k \in 1 .. Len(llc) : frame[k] = llc[k]
    BY <1>1, ConcatBytes
  <2>2. Len(y) \in Nat
    BY DEF Buffer
  <2> HIDE DEF frame
  <2>3. QED
    BY <1>1, <2>1, <2>2
<1> HIDE DEF frame
<1>4. /\ frame[1] = Num(170) /\ frame[2] = Num(snap) /\ frame[3] = Num(3)
      /\ frame[7] = Num(8) /\ frame[8] = Num(0)
  BY <1>1, <1>3
<1>5. /\ Num(170)[3] = 170 /\ Num(snap)[3] = snap /\ Num(3)[3] = 3
      /\ Num(8)[3] = 8 /\ Num(0)[3] = 0
  BY <1>2, NumByte
<1>6. /\ ReadU8(frame, 0) = 170 /\ ReadU8(frame, 1) = snap /\ ReadU8(frame, 2) = 3
      /\ ReadU8(frame, 6) = 8 /\ ReadU8(frame, 7) = 0
  BY <1>4, <1>5 DEF ReadU8
<1>7. ReadBE16(frame, 6) = 2048
  BY <1>6 DEF ReadBE16
<1>8. Fits(frame, 0, 8)
  BY <1>3 DEF Fits
<1>9. ValidLlc(frame) <=> snap = 170
  BY <1>6, <1>7, <1>8 DEF ValidLlc
<1>10. QED
  BY <1>2, <1>9 DEF frame, llc

LEMMA PrefixBytes ==
  ASSUME NEW x \in Buffer, NEW y \in Buffer
  PROVE  IsPrefix(x, x \o y)
<1> DEFINE w == x \o y
<1>1. /\ w \in Buffer /\ Len(w) = Len(x) + Len(y) /\ \A k \in 1 .. Len(x) : w[k] = x[k]
      /\ Len(x) \in Nat /\ Len(y) \in Nat
  BY ConcatBytes DEF Buffer
<1> HIDE DEF w
<1> DEFINE a == SubSeq(x, 1, Len(x))
           b == SubSeq(w, 1, Len(x))
<1>2. a \in Buffer /\ Len(a) = Len(x) /\ \A k \in 1 .. Len(x) : a[k] = x[k]
  BY <1>1 DEF Buffer
<1>3. b \in Buffer /\ Len(b) = Len(x) /\ \A k \in 1 .. Len(x) : b[k] = w[k]
  BY <1>1 DEF Buffer
<1> HIDE DEF a, b
<1>4. a = b
  BY <1>1, <1>2, <1>3, SeqEqual DEF Buffer
<1>5. IsPrefix(x, w)
  BY <1>1, <1>4 DEF IsPrefix, a, b
<1>6. QED
  BY <1>5 DEF w

(* The buffer for the host begins with the Ethernet frame.                 *)
LEMMA DeliveryHolds ==
  ASSUME NEW m \in Messages, 14 + m.length <= EtherMaxLen
  PROVE  IsPrefix(Ethernet(m),
                  Delivery(Address(m.dst), Address(m.src), DataHeader \o Payload(m)))
<1> DEFINE to == Address(m.dst)
           from == Address(m.src)
           ethertype == Field("ethertype", m.id, 2)
           payload == Field("payload", m.id, m.length)
           data == DataHeader \o Payload(m)
           head == to \o from \o ethertype
           frame == head \o payload
           n == EtherMaxLen - (14 + m.length)
           memory == Field("memory", 0, n)
<1>1. m.id \in Nat /\ m.dst \in Nat /\ m.src \in Nat /\ m.length \in Nat /\ n \in Nat
  BY Widths DEF Messages
<1>2. /\ to \in Block(6) /\ from \in Block(6) /\ ethertype \in Block(2)
      /\ payload \in Block(m.length) /\ memory \in Block(n) /\ DataHeader \in Block(6)
  <2>1. "ethertype" \in Names /\ "payload" \in Names /\ "memory" \in Names
    BY DEF Names
  <2> HIDE DEF n
  <2>2. QED
    BY <1>1, <2>1, AddressBlock, FieldBlock, DataBodyBytes
<1>3. /\ Payload(m) = ethertype \o payload
      /\ Ethernet(m) = to \o from \o (ethertype \o payload)
  BY DEF Payload, Ethernet
<1>4. /\ to \in Buffer /\ from \in Buffer /\ ethertype \in Buffer /\ payload \in Buffer
      /\ memory \in Buffer /\ DataHeader \in Buffer
      /\ Len(ethertype) = 2 /\ Len(payload) = m.length /\ Len(DataHeader) = 6
  BY <1>2 DEF Block
<1>5. data = DataHeader \o (ethertype \o payload)
  BY <1>3
<1> HIDE DEF to, from, ethertype, payload, data, memory, n
<1>6. \A x, y, z \in Buffer : x \o (y \o z) = (x \o y) \o z
  BY DEF Buffer
<1>7. Read(data, 6, 2) = ethertype
  <2> DEFINE front == DataHeader \o ethertype
  <2>1. At(front, 6, ethertype) /\ front \in Buffer
    BY <1>4, AtEnd, ManyBytes
  <2>2. data = front \o payload
    BY <1>4, <1>5, <1>6, Zenon
  <2> HIDE DEF front
  <2>3. At(data, 6, ethertype) /\ data \in Buffer
    BY <1>4, <2>1, <2>2, AtFront, ManyBytes
  <2>4. QED
    BY <1>4, <2>3, AtRead
<1>8. Strip(data, 8) = payload
  <2> DEFINE front == DataHeader \o ethertype
  <2>1. data = front \o payload
    BY <1>4, <1>5, <1>6, Zenon
  <2>2. front \in Buffer /\ Len(front) = 8
    <3>1. front \in Buffer /\ Len(front) = Len(DataHeader) + Len(ethertype)
      BY <1>4, ConcatBytes
    <3> HIDE DEF front
    <3>2. QED
      BY <1>4, <3>1
  <2> HIDE DEF front
  <2>3. Strip(front \o payload, Len(front)) = payload
    BY <1>4, <2>2, StripFront
  <2>4. QED
    BY <2>1, <2>2, <2>3
<1>9. head \in Block(14)
  <2>1. to \o from \in Block(12)
    BY <1>2, ConcatBlock
  <2>2. QED
    BY <1>2, <2>1, ConcatBlock
<1>10. frame \in Buffer /\ Len(frame) = 14 + m.length /\ Len(head) = 14
  <2>1. head \in Buffer /\ Len(head) = 14
    BY <1>9 DEF Block
  <2> HIDE DEF head
  <2>2. frame \in Buffer /\ Len(frame) = Len(head) + Len(payload)
    BY <1>4, <2>1, ConcatBytes
  <2> HIDE DEF frame
  <2>3. QED
    BY <1>4, <2>1, <2>2
<1>11. Ethernet(m) = frame
  <2>1. to \o from \in Buffer
    BY <1>4, ManyBytes
  <2>2. QED
    BY <1>3, <1>4, <1>6, <2>1, Zenon
<1>12. Delivery(to, from, data) =
         LET written == IF Len(head) + Len(payload) <= EtherMaxLen THEN frame ELSE head
         IN  written \o Field("memory", 0, EtherMaxLen - Len(written))
  BY <1>7, <1>8, Zenon DEF Delivery
<1> HIDE DEF head, frame
<1>13. Delivery(to, from, data) = frame \o memory
  <2>1. Len(head) + Len(payload) <= EtherMaxLen
    BY <1>1, <1>4, <1>10
  <2>2. EtherMaxLen - Len(frame) = n
    BY <1>10 DEF n
  <2>3. QED
    BY <1>12, <2>1, <2>2, Zenon DEF memory
<1>14. IsPrefix(frame, frame \o memory)
  BY <1>4, <1>10, PrefixBytes
<1>15. QED
  BY <1>11, <1>13, <1>14, Zenon DEF to, from, data

(* What is done with the data that the peer m.src has sent.                *)
Brought(s, m) ==
  IF ~Wanted(m, entry.known) THEN s = Outcome(RxIgnorePeer)
  ELSE IF ~m.llc THEN s = Outcome(RxUnexpectedFormat)
  ELSE \E d : IsPrefix(Ethernet(m), d) /\ s = [ Outcome(RxOk) EXCEPT !.out = << d >> ]

LEMMA DataSeen ==
  ASSUME NEW m \in Messages, 14 + m.length <= EtherMaxLen
  PROVE  Brought(RxData(DataBody(m), Address(m.src), Address(m.dst)), m)
<1> DEFINE body == DataBody(m)
           llc == Llc(m.llc)
           data == DataHeader \o Payload(m)
           from == Address(m.src)
           to == Address(m.dst)
<1>1. m.src \in Nat /\ Peer \in Nat /\ m.llc \in BOOLEAN /\ m.length \in Nat
  BY DEF Messages, Peer
<1>2. /\ llc \in Buffer /\ Len(llc) = 8 /\ data \in Buffer /\ body = llc \o data
      /\ Len(body) = 16 + m.length
  <2>1. /\ llc \in Block(8) /\ DataHeader \in Block(6) /\ Payload(m) \in Block(2 + m.length)
        /\ body \in Block(16 + m.length)
    BY DataBodyBytes
  <2> DEFINE payload == Payload(m)
  <2>2. body = llc \o DataHeader \o payload /\ data = DataHeader \o payload
    BY DEF DataBody
  <2>3. payload \in Buffer /\ DataHeader \in Buffer /\ llc \in Buffer /\ Len(llc) = 8
    BY <2>1 DEF Block
  <2>4. Len(body) = 16 + m.length
    BY <2>1 DEF Block
  <2> HIDE DEF payload, llc, body, data
  <2>5. data \in Buffer /\ body = llc \o data
    <3>1. \A x, y, z \in Buffer : (x \o y) \o z = x \o (y \o z)
      BY DEF Buffer
    <3>2. QED
      BY <2>2, <2>3, <3>1, ManyBytes
  <2>6. QED
    BY <2>3, <2>4, <2>5
<1>3. (~entry.known \/ from # Address(Peer)) <=> ~Wanted(m, entry.known)
  BY <1>1, AddressesDiffer DEF Wanted
<1>4. ValidLlc(body) <=> m.llc
  <2>1. ValidLlc(llc \o data) <=> m.llc
    <3> HIDE DEF data
    <3>1. QED
      BY <1>1, <1>2, LlcSeen
  <2>2. QED
    BY <1>2, <2>1
<1>5. Strip(body, 8) = data /\ Fits(body, 8, 8)
  <2> HIDE DEF body, llc, data
  <2>1. Strip(llc \o data, Len(llc)) = data
    BY <1>2, StripFront
  <2>2. Fits(body, 8, 8)
    BY <1>1, <1>2 DEF Fits
  <2>3. QED
    BY <1>2, <2>1, <2>2
<1>6. IsPrefix(Ethernet(m), Delivery(to, from, data))
  BY DeliveryHolds
<1> HIDE DEF body, data, from, to
<1>7. CASE ~Wanted(m, entry.known)
  <2>1. RxData(body, from, to) = Outcome(RxIgnorePeer)
    BY <1>3, <1>7, Zenon DEF RxData
  <2>2. QED
    BY <1>7, <2>1, Zenon DEF Brought, body, from, to
<1>8. CASE Wanted(m, entry.known) /\ ~m.llc
  <2>1. RxData(body, from, to) = Outcome(RxUnexpectedFormat)
    BY <1>3, <1>4, <1>8, Zenon DEF RxData
  <2>2. QED
    BY <1>8, <2>1, Zenon DEF Brought, body, from, to
<1>9. CASE Wanted(m, entry.known) /\ m.llc
  <2> DEFINE d == Delivery(to, from, data)
  <2>1. RxData(body, from, to) = [ Outcome(RxOk) EXCEPT !.out = << d >> ]
    BY <1>3, <1>4, <1>5, <1>9, Zenon DEF RxData
  <2> HIDE DEF d
  <2>2. IsPrefix(Ethernet(m), d)
    BY <1>6 DEF d
  <2>3. QED
    BY <1>9, <2>1, <2>2, Zenon DEF Brought, body, from, to
<1>10. QED
  BY <1>7, <1>8, <1>9, Zenon

(* Where the parts of a flattened sequence stand.                          *)
LEMMA FlattenLayout ==
  ASSUME NEW n \in Nat \ {0}, NEW seqs \in [ 1 .. n -> Buffer ]
  PROVE  \E place \in [ 0 .. n -> Nat ] :
           /\ place[0] = 0 /\ place[n] = Len(FlattenSeq(seqs))
           /\ \A i \in 1 .. n : /\ place[i] = place[i - 1] + Len(seqs[i])
                                /\ At(FlattenSeq(seqs), place[i - 1], seqs[i])
<1>1. PICK g \in [ 1 .. n -> Buffer ] :
        /\ g[1] = seqs[1]
        /\ \A i \in 2 .. n : g[i] = g[i - 1] \o seqs[i]
        /\ FlattenSeq(seqs) = g[n]
  BY FlattenBytes
<1> DEFINE place == [ k \in 0 .. n |-> IF k = 0 THEN 0 ELSE Len(g[k]) ]
           X == 1 .. n
           measure == [ k \in X |-> k ]
           P == { k \in X : \A i \in 1 .. k : At(g[k], place[i - 1], seqs[i]) }
<1>2. /\ \A k \in X : g[k] \in Buffer /\ seqs[k] \in Buffer
      /\ \A k \in X : Len(g[k]) \in Nat /\ Len(seqs[k]) \in Nat
  BY DEF Buffer
<1>3. /\ place \in [ 0 .. n -> Nat ] /\ place[0] = 0 /\ \A k \in X : place[k] = Len(g[k])
  <2>1. \A k \in 0 .. n : k # 0 => k \in X
    OBVIOUS
  <2>2. \A k \in X : k \in 0 .. n /\ k # 0
    OBVIOUS
  <2>3. 0 \in 0 .. n
    OBVIOUS
  <2> HIDE DEF X
  <2>4. QED
    BY <1>2, <2>1, <2>2, <2>3
<1>4. \A k \in X : k # 1 => /\ k - 1 \in X /\ k \in 2 .. n
  OBVIOUS
<1>5. 1 \in X /\ n \in X /\ 1 - 1 = 0
  OBVIOUS
<1>6. \A k \in X : place[k] = place[k - 1] + Len(seqs[k])
  <2>1. ASSUME NEW k \in X PROVE place[k] = place[k - 1] + Len(seqs[k])
    <3>1. CASE k = 1
      <4>1. place[1] = Len(seqs[1]) /\ place[1 - 1] = 0
        BY <1>1, <1>3, <1>5
      <4>2. QED
        BY <1>2, <1>5, <3>1, <4>1
    <3>2. CASE k # 1
      <4>1. g[k] = g[k - 1] \o seqs[k] /\ k - 1 \in X
        BY <1>1, <1>4, <3>2
      <4>2. Len(g[k]) = Len(g[k - 1]) + Len(seqs[k])
        BY <1>2, <4>1, ConcatBytes
      <4>3. QED
        BY <1>3, <4>1, <4>2
    <3>3. QED
      BY <3>1, <3>2
  <2>2. QED
    BY <2>1
<1> HIDE DEF place
<1>7. ASSUME NEW k \in X, \A j \in X : measure[j] < measure[k] => j \in P
      PROVE  k \in P
  <2>1. CASE k = 1
    <3>1. At(g[1], 0, seqs[1])
      BY <1>1, <1>2, <1>5, AtItself
    <3>2. \A i \in 1 .. 1 : i = 1
      OBVIOUS
    <3>3. \A i \in 1 .. k : At(g[k], place[i - 1], seqs[i])
      BY <1>3, <1>5, <2>1, <3>1, <3>2
    <3>4. QED
      BY <3>3
  <2>2. CASE k # 1
    <3> DEFINE j == k - 1
    <3>1. j \in X /\ k \in 2 .. n /\ measure[j] < measure[k]
      BY <1>4, <2>2
    <3>2. j \in P
      BY <1>7, <3>1
    <3>3. \A i \in 1 .. j : At(g[j], place[i - 1], seqs[i])
      BY <3>2
    <3>4. g[k] = g[j] \o seqs[k] /\ place[j] = Len(g[j])
      BY <1>1, <1>3, <3>1
    <3>5. \A i \in 1 .. k : i \in X /\ (i # k => i \in 1 .. j)
      BY <3>1
    <3>6. \A i \in X : place[i - 1] \in Nat
      <4>1. \A i \in X : i - 1 \in 0 .. n
        OBVIOUS
      <4>2. QED
        BY <1>3, <4>1
    <3>7. ASSUME NEW i \in 1 .. k PROVE At(g[k], place[i - 1], seqs[i])
      <4>1. CASE i = k
        <5>1. At(g[j] \o seqs[k], Len(g[j]), seqs[k])
          BY <1>2, <3>1, AtEnd
        <5>2. QED
          BY <3>4, <4>1, <5>1
      <4>2. CASE i # k
        <5>1. At(g[j], place[i - 1], seqs[i]) /\ i \in X
          BY <3>3, <3>5, <4>2
        <5> HIDE DEF X, j
        <5>2. At(g[j] \o seqs[k], place[i - 1], seqs[i])
          BY <1>2, <3>1, <3>6, <5>1, AtFront
        <5>3. QED
          BY <3>4, <5>2
      <4>3. QED
        BY <4>1, <4>2
    <3>8. QED
      BY <3>7
  <2>3. QED
    BY <2>1, <2>2
<1>8. measure \in [ X -> Nat ]
  OBVIOUS
<1>9. X \subseteq P
  <2> HIDE DEF X, measure, P
  <2>1. QED
    BY <1>7, <1>8, MeasureInduction
<1>10. \A i \in 1 .. n : At(g[n], place[i - 1], seqs[i])
  BY <1>5, <1>9
<1>11. place[n] = Len(FlattenSeq(seqs))
  BY <1>1, <1>3, <1>5
<1>12. QED
  BY <1>1, <1>3, <1>6, <1>10, <1>11

LEMMA AggregateLayout ==
  ASSUME NEW ms \in Seq(Messages)
  PROVE  \E place : Laid(place, ms)
<1> DEFINE pad(i) == IF i = Len(ms) THEN << >> ELSE Padding((-Len(Subframe(ms[i]))) % 4)
           part(i) == Subframe(ms[i]) \o pad(i)
           parts == [ i \in 1 .. Len(ms) |-> part(i) ]
           n == Len(ms)
<1>1. Aggregate(ms) = FlattenSeq(parts) /\ n \in Nat
  <2>1. DOMAIN ms = 1 .. Len(ms) /\ Len(ms) \in Nat
    OBVIOUS
  <2>2. QED
    BY <2>1, Zenon DEF Aggregate
<1>2. ASSUME NEW i \in 1 .. n
      PROVE  /\ Subframe(ms[i]) \in Buffer /\ pad(i) \in Buffer /\ part(i) \in Buffer
             /\ Len(part(i)) = 30 + ms[i].length + Gap(ms, i)
             /\ ms[i].length \in Nat /\ Gap(ms, i) \in Nat
  <2>1. ms[i] \in Messages
    OBVIOUS
  <2> DEFINE m == ms[i]
             sub == Subframe(m)
             k == 30 + m.length
             gap == (-k) % 4
  <2>2. sub \in Buffer /\ Len(sub) = k /\ m.length \in Nat
    BY <2>1, SubframeParts DEF Block
  <2>3. k \in Nat /\ gap \in Nat
    BY <2>2
  <2>4. pad(i) = IF i = n THEN << >> ELSE Padding(gap)
    BY <2>2, Zenon
  <2>5. Gap(ms, i) = IF i = n THEN 0 ELSE gap
    BY DEF Gap
  <2> HIDE DEF pad, gap, n, k
  <2>6. pad(i) \in Buffer /\ Len(pad(i)) = Gap(ms, i)
    <3>1. << >> \in Buffer /\ Len(<< >>) = 0
      BY NoBytes
    <3>2. Padding(gap) \in Buffer /\ Len(Padding(gap)) = gap
      BY <2>3, PaddingBytes
    <3>3. QED
      BY <2>4, <2>5, <3>1, <3>2
  <2>7. part(i) \in Buffer /\ Len(part(i)) = Len(sub) + Len(pad(i))
    <3> HIDE DEF sub
    <3>1. sub \o pad(i) \in Buffer /\ Len(sub \o pad(i)) = Len(sub) + Len(pad(i))
      BY <2>2, <2>6, ConcatBytes
    <3>2. part(i) = sub \o pad(i)
      BY DEF sub
    <3>3. QED
      BY <3>1, <3>2
  <2>8. Gap(ms, i) \in Nat
    BY <2>3, <2>5
  <2> HIDE DEF part
  <2>9. QED
    BY <2>2, <2>6, <2>7, <2>8 DEF k
<1>3. CASE n = 0
  <2>1. parts = << >>
    BY <1>3
  <2>2. FlattenSeq(<< >>) = << >>
    BY DEF FlattenSeq
  <2>3. Len(Aggregate(ms)) = 0
    <3>1. Aggregate(ms) = << >>
      <4> HIDE DEF parts
      <4>1. QED
        BY <1>1, <2>1, <2>2
    <3>2. QED
      BY <3>1
  <2> DEFINE place == [ i \in 0 .. n |-> 0 ]
  <2>4. place \in [ 0 .. n -> Nat ] /\ place[0] = 0 /\ place[n] = 0 /\ 1 .. n = { }
    BY <1>3
  <2> HIDE DEF place
  <2>5. Laid(place, ms)
    BY <2>3, <2>4 DEF Laid
  <2>6. QED
    BY <2>5
<1>4. CASE n # 0
  <2>1. n \in Nat \ {0} /\ parts \in [ 1 .. n -> Buffer ]
    <3>1. \A i \in 1 .. n : part(i) \in Buffer
      BY <1>2
    <3> HIDE DEF part
    <3>2. QED
      BY <1>1, <1>4, <3>1
  <2>2. \A i \in 1 .. n : parts[i] = part(i)
    OBVIOUS
  <2> HIDE DEF parts, n, part, pad
  <2>3. PICK place \in [ 0 .. n -> Nat ] :
          /\ place[0] = 0 /\ place[n] = Len(FlattenSeq(parts))
          /\ \A i \in 1 .. n : /\ place[i] = place[i - 1] + Len(parts[i])
                               /\ At(FlattenSeq(parts), place[i - 1], parts[i])
    BY <2>1, FlattenLayout
  <2>4. ASSUME NEW i \in 1 .. n
        PROVE  /\ At(Aggregate(ms), place[i - 1], Subframe(ms[i]))
               /\ place[i] = place[i - 1] + 30 + ms[i].length + Gap(ms, i)
    <3>1. /\ place[i] = place[i - 1] + Len(part(i))
          /\ At(Aggregate(ms), place[i - 1], part(i))
      BY <1>1, <2>2, <2>3
    <3>2. place[i - 1] \in Nat
      <4>1. i - 1 \in 0 .. n
        BY <2>1
      <4>2. QED
        BY <2>3, <4>1
    <3>3. Aggregate(ms) \in Buffer
      BY AggregateBytes
    <3>4. At(Aggregate(ms), place[i - 1], Subframe(ms[i]) \o pad(i))
      BY <3>1 DEF part
    <3>5. At(Aggregate(ms), place[i - 1], Subframe(ms[i]))
      BY <1>2, <3>2, <3>3, <3>4, AtParts
    <3>6. place[i] = place[i - 1] + 30 + ms[i].length + Gap(ms, i)
      <4> DEFINE k == ms[i].length
                 gap == Gap(ms, i)
                 length == Len(part(i))
                 old == place[i - 1]
      <4>1. length = 30 + k + gap /\ k \in Nat /\ gap \in Nat /\ old \in Nat
        BY <1>2, <3>2
      <4>2. place[i] = old + length
        BY <3>1
      <4> HIDE DEF k, gap, length, old
      <4>3. place[i] = old + 30 + k + gap
        BY <4>1, <4>2
      <4>4. QED
        BY <4>3 DEF k, gap, old
    <3>7. QED
      BY <3>5, <3>6
  <2>5. Laid(place, ms)
    BY <1>1, <2>3, <2>4 DEF Laid, n
  <2>6. QED
    BY <2>5
<1>5. QED
  BY <1>3, <1>4

LEMMA FittingMessages ==
  ASSUME NEW ms \in Seq(Fitting)
  PROVE  /\ ms \in Seq(Messages) /\ Len(ms) \in Nat
         /\ \A i \in 1 .. Len(ms) : ms[i] \in Messages /\ 14 + ms[i].length <= EtherMaxLen
<1>1. Fitting \subseteq Messages
  BY DEF Fitting
<1>2. \A i \in 1 .. Len(ms) : ms[i] \in Fitting
  OBVIOUS
<1>3. ms \in Seq(Messages)
  BY <1>1
<1>4. QED
  BY <1>2, <1>3 DEF Fitting

LEMMA FcsBytes == Fcs \in Buffer /\ Len(Fcs) = 4
<1>1. "fcs" \in Names /\ 0 \in Nat
  BY FieldNames
<1>2. QED
  BY <1>1, FieldBlock, Zenon DEF Fcs, Block

LEMMA PaddingAgrees ==
  \A n \in Nat : SubframePadding(16 + n) = (-(30 + n)) % 4 /\ SubframePadding(16 + n) \in Nat
BY DEF SubframePadding

(* A subframe, as far as it is there.                                      *)
LEMMA SubframeArrived ==
  ASSUME NEW frame, NEW ms, NEW from, NEW upTo, NEW place,
         AmsduOf(frame, ms, from, upTo, place),
         NEW k \in 0 .. Len(ms) - 1, Fits(frame, place[k], 14)
  PROVE  /\ ReadBE16(frame, place[k] + 12) = 16 + ms[k + 1].length
         /\ SubframeEnd(frame, place[k]) = place[k] + 30 + ms[k + 1].length
         /\ SubframeEnd(frame, place[k]) <= Len(frame) =>
              Brought(SubframeData(frame, place[k]), ms[k + 1])
<1> DEFINE m == ms[k + 1]
           at == place[k]
           whole == Aggregate(ms) \o Fcs
           sub == Subframe(m)
           head == SubHead(m)
<1>1. Len(ms) \in Nat /\ ms \in Seq(Messages) /\ m \in Messages /\ 14 + m.length <= EtherMaxLen
  <2>1. ms \in Seq(Fitting) /\ k + 1 \in 1 .. Len(ms)
    BY DEF AmsduOf
  <2>2. QED
    BY <2>1, FittingMessages
<1>2. at \in Nat /\ At(Aggregate(ms), at, sub)
  <2>1. k \in 0 .. Len(ms) /\ k + 1 \in 1 .. Len(ms) /\ (k + 1) - 1 = k
    BY <1>1
  <2>2. QED
    BY <2>1 DEF AmsduOf, Laid
<1>3. /\ m.length \in Nat /\ head \in Buffer /\ Len(head) = 14 /\ sub \in Buffer
      /\ Len(sub) = 30 + m.length /\ sub = head \o DataBody(m) /\ DataBody(m) \in Buffer
  BY <1>1, SubframeParts DEF Block
<1>4. whole \in Buffer /\ At(whole, at, sub)
  <2>1. Aggregate(ms) \in Buffer
    BY <1>1, AggregateBytes
  <2> HIDE DEF sub, at
  <2>2. QED
    BY <1>2, <1>3, <2>1, FcsBytes, AtFront, ManyBytes
<1>5. frame \in Buffer /\ Len(frame) \in Nat /\ Begins(frame, 0, whole)
  BY DEF AmsduOf, Buffer
<1> HIDE DEF whole
<1>6. At(frame, at, head)
  <2>1. At(whole, at, head)
    <3> HIDE DEF sub, at, head
    <3>1. QED
      BY <1>2, <1>3, <1>4, AtParts
  <2>2. at + Len(head) <= Len(frame)
    BY <1>3 DEF Fits
  <2> HIDE DEF at, head
  <2>3. QED
    BY <1>2, <1>3, <1>4, <1>5, <2>1, <2>2, AtBegins
<1>7. /\ ReadBE16(frame, at + 12) = 16 + m.length
      /\ Read(frame, at, 6) = Address(m.dst) /\ Read(frame, at + 6, 6) = Address(m.src)
  <2> HIDE DEF at, m
  <2>1. QED
    BY <1>1, <1>2, <1>5, <1>6, SubHeadRead DEF head
<1>8. SubframeEnd(frame, at) = at + 30 + m.length
  <2>1. SubframeEnd(frame, at) = at + 14 + (16 + m.length)
    BY <1>7, Zenon DEF SubframeEnd
  <2> DEFINE n == m.length
             end == SubframeEnd(frame, at)
  <2>2. n \in Nat /\ end = at + 14 + (16 + n)
    BY <1>3, <2>1
  <2> HIDE DEF at, n, end
  <2>3. end = at + 30 + n
    BY <1>2, <2>2
  <2>4. QED
    BY <2>3 DEF n, end
<1>9. ASSUME SubframeEnd(frame, at) <= Len(frame)
      PROVE  Brought(SubframeData(frame, at), m)
  <2>1. At(frame, at, sub)
    <3>1. at + Len(sub) <= Len(frame)
      <4> HIDE DEF at, sub, m
      <4>1. QED
        BY <1>2, <1>3, <1>8, <1>9
    <3> HIDE DEF at, sub
    <3>2. QED
      BY <1>2, <1>3, <1>4, <1>5, <3>1, AtBegins
  <2>2. Read(frame, at + 14, 16 + m.length) = DataBody(m)
    <3> HIDE DEF at, m
    <3>1. QED
      BY <1>1, <1>2, <1>5, <2>1, SubframeSeen DEF sub
  <2>3. SubframeData(frame, at) = RxData(DataBody(m), Address(m.src), Address(m.dst))
    BY <1>7, <2>2, Zenon DEF SubframeData
  <2> HIDE DEF m, at
  <2>4. QED
    BY <1>1, <2>3, DataSeen
<1>10. QED
  BY <1>7, <1>8, <1>9

(* What is near the end brings nothing.                                    *)
LEMMA NothingBehind ==
  ASSUME NEW frame \in Buffer, NEW from, Reads(from, frame),
         NEW at \in 0 .. Len(frame), Len(frame) - at < 14
  PROVE  from[at].out = << >> /\ (at = Len(frame) => from[at] = Outcome(RxOk))
<1>1. Len(frame) \in Nat
  BY DEF Buffer
<1>2. ~Fits(frame, at, 14)
  BY <1>1 DEF Fits
<1>3. from[at] = SubframeLast(frame, at)
  BY <1>2 DEF Reads, SubframeRead
<1>4. from[at] = IF at = Len(frame) THEN Outcome(RxOk) ELSE Outcome(RxTooShort)
  BY <1>2, <1>3, Zenon DEF SubframeLast
<1>5. \A r : Outcome(r).out = << >>
  BY DEF Outcome
<1>6. QED
  BY <1>4, <1>5

SameNumber(joined, done, out, more) == Len(joined) + Len(done) = Len(out) + Len(more)

LEMMA FollowJoined ==
  ASSUME NEW ms \in Seq(Messages), NEW upTo, Selects(upTo, ms, entry.known),
         NEW k \in 0 .. Len(ms) - 1,
         NEW s, Brought(s, ms[k + 1]), ~(s.result < 0),
         NEW out \in Seq(Block(EtherMaxLen))
  PROVE  /\ SameNumber(s.out \o out, upTo[k], out, upTo[k + 1])
         /\ Follow(out, upTo[k + 1], upTo[Len(ms)])
              => Follow(s.out \o out, upTo[k], upTo[Len(ms)])
         /\ Wanted(ms[k + 1], entry.known) => ms[k + 1].llc
<1> DEFINE m == ms[k + 1]
           done == upTo[k]
           more == upTo[k + 1]
           all == upTo[Len(ms)]
<1>1. /\ Len(done) \in Nat /\ Len(more) \in Nat /\ Len(all) \in Nat /\ Len(more) <= Len(all)
      /\ Len(done) <= Len(all)
  <2>1. Len(ms) \in Nat
    OBVIOUS
  <2>2. k \in 0 .. Len(ms) /\ k + 1 \in 0 .. Len(ms)
    BY <2>1
  <2>3. /\ done \in Seq(Messages) /\ more \in Seq(Messages) /\ all \in Seq(Messages)
        /\ Len(more) <= Len(all) /\ Len(done) <= Len(all)
    BY <2>2, SelectedBefore
  <2> HIDE DEF done, more, all
  <2>4. QED
    BY <2>3
<1>2. IF Wanted(m, entry.known) THEN Len(more) = Len(done) + 1 /\ all[Len(done) + 1] = m
                                ELSE Len(more) = Len(done)
  BY SelectedNext
<1>3. RxUnexpectedFormat < 0
  BY DEF RxUnexpectedFormat
<1>4. \A r : Outcome(r).out = << >> /\ Outcome(r).result = r
  BY DEF Outcome
<1> HIDE DEF m, done, more, all
<1>5. CASE ~Wanted(m, entry.known)
  <2>1. s.out = << >>
    BY <1>4, <1>5 DEF Brought, m
  <2>2. s.out \o out = out
    BY <2>1
  <2>3. Follow(out, more, all) => Follow(out, done, all)
    BY <1>2, <1>5 DEF Follow
  <2>4. SameNumber(out, done, out, more)
    BY <1>2, <1>5 DEF SameNumber
  <2>5. QED
    BY <1>5, <2>2, <2>3, <2>4 DEF m, done, more, all
<1>6. CASE Wanted(m, entry.known)
  <2>1. m.llc
    BY <1>3, <1>4, <1>6 DEF Brought, m
  <2>2. PICK d : IsPrefix(Ethernet(m), d) /\ s = [ Outcome(RxOk) EXCEPT !.out = << d >> ]
    BY <1>6, <2>1, Zenon DEF Brought, m
  <2>3. s.out = << d >>
    BY <2>2 DEF Outcome
  <2> DEFINE both == << d >> \o out
  <2>4. /\ Len(both) = Len(out) + 1 /\ Len(out) \in Nat /\ both[1] = d
        /\ \A i \in 1 .. Len(out) : both[i + 1] = out[i]
    OBVIOUS
  <2> HIDE DEF both
  <2>5. SameNumber(both, done, out, more)
    BY <1>1, <1>2, <1>6, <2>4 DEF SameNumber
  <2>6. ASSUME Follow(out, more, all), NEW i \in 1 .. Len(both)
        PROVE  Len(done) + i <= Len(all) /\ IsPrefix(Ethernet(all[Len(done) + i]), both[i])
    <3>1. CASE i = 1
      <4>1. Len(done) + i <= Len(all)
        BY <1>1, <1>2, <1>6, <3>1
      <4>2. all[Len(done) + i] = m /\ both[i] = d
        BY <1>2, <1>6, <2>4, <3>1
      <4>3. QED
        BY <2>2, <4>1, <4>2
    <3>2. CASE i # 1
      <4> DEFINE j == i - 1
      <4>1. j \in 1 .. Len(out) /\ i = j + 1 /\ Len(more) + j = Len(done) + i
        <5>1. i \in 1 .. Len(both) /\ Len(both) = Len(out) + 1 /\ Len(out) \in Nat
          BY <2>4
        <5>2. Len(more) = Len(done) + 1 /\ Len(done) \in Nat
          BY <1>1, <1>2, <1>6
        <5> DEFINE p == Len(both)
                   q == Len(out)
                   x == Len(more)
                   y == Len(done)
        <5>3. i \in 1 .. p /\ p = q + 1 /\ q \in Nat /\ x = y + 1 /\ y \in Nat
          BY <5>1, <5>2
        <5> HIDE DEF p, q, x, y
        <5>4. j \in 1 .. q /\ i = j + 1 /\ x + j = y + i
          BY <3>2, <5>3
        <5>5. QED
          BY <5>4 DEF q, x, y
      <4> HIDE DEF j
      <4>2. Len(more) + j <= Len(all) /\ IsPrefix(Ethernet(all[Len(more) + j]), out[j])
        BY <2>6, <4>1 DEF Follow
      <4>3. both[i] = out[j]
        BY <2>4, <4>1
      <4>4. QED
        BY <4>1, <4>2, <4>3
    <3>3. QED
      BY <3>1, <3>2
  <2>7. Follow(out, more, all) => Follow(both, done, all)
    BY <2>6 DEF Follow
  <2>8. s.out \o out = both
    BY <2>3 DEF both
  <2>9. QED
    BY <2>1, <2>5, <2>7, <2>8 DEF m, done, more, all
<1>7. QED
  BY <1>5, <1>6

(* Where the A-MSDU ends early, what has been read is right.               *)
LEMMA AmsduInOrder ==
  ASSUME NEW frame, NEW ms, NEW from, NEW upTo, NEW place,
         AmsduOf(frame, ms, from, upTo, place)
  PROVE  from[0].result = RxOk => Follow(from[0].out, upTo[0], upTo[Len(ms)])
<1> DEFINE N == Len(ms)
           all == upTo[N]
           X == 0 .. N
           measure == [ k \in X |-> N - k ]
           Good(k) == from[place[k]].result = RxOk => Follow(from[place[k]].out, upTo[k], all)
           P == { k \in X : place[k] <= Len(frame) => Good(k) }
<1>1. /\ Typed /\ frame \in Buffer /\ ms \in Seq(Fitting) /\ Reads(from, frame)
      /\ Selects(upTo, ms, entry.known) /\ Laid(place, ms)
      /\ Begins(frame, 0, Aggregate(ms) \o Fcs)
  BY DEF AmsduOf
<1>2. N \in Nat /\ ms \in Seq(Messages) /\ Len(frame) \in Nat
  BY <1>1, FittingMessages DEF Buffer
<1>3. /\ place \in [ X -> Nat ] /\ place[0] = 0
      /\ \A i \in 1 .. N : place[i] = place[i - 1] + 30 + ms[i].length + Gap(ms, i)
      /\ place[N] = Len(Aggregate(ms))
  BY <1>1 DEF Laid
<1>4. Len(frame) <= place[N] + 4
  <2>1. Aggregate(ms) \in Buffer
    BY <1>2, AggregateBytes
  <2> DEFINE w == Aggregate(ms) \o Fcs
  <2>2. Len(w) = Len(Aggregate(ms)) + 4
    <3> DEFINE whole == Aggregate(ms)
    <3>1. whole \in Buffer /\ Fcs \in Buffer /\ Len(Fcs) = 4
      BY <2>1, FcsBytes
    <3> HIDE DEF whole
    <3>2. Len(whole \o Fcs) = Len(whole) + Len(Fcs)
      BY <3>1, ConcatBytes
    <3>3. w = whole \o Fcs
      BY DEF whole
    <3> HIDE DEF w
    <3>4. QED
      BY <3>1, <3>2, <3>3 DEF whole
  <2> HIDE DEF w
  <2>3. Len(frame) - 0 <= Len(w)
    BY <1>1 DEF Begins, w
  <2>4. QED
    BY <1>2, <1>3, <2>2, <2>3
<1>5. \A at \in 0 .. Len(frame) : from[at] \in Kept
  BY <1>1, ReadsKept
<1>6. ASSUME NEW k \in X, \A j \in X : measure[j] < measure[k] => j \in P,
             place[k] <= Len(frame), from[place[k]].result = RxOk
      PROVE  Follow(from[place[k]].out, upTo[k], all)
  <2> DEFINE at == place[k]
             m == ms[k + 1]
             s == SubframeData(frame, at)
             next == SubframeNext(frame, at)
             end == SubframeEnd(frame, at)
  <2>1. at \in 0 .. Len(frame) /\ at \in Nat
    BY <1>2, <1>3, <1>6
  <2>2. CASE from[at].out = << >>
    <3>1. Len(from[at].out) = 0
      BY <2>2
    <3> HIDE DEF at
    <3>2. \A done : Follow(from[at].out, done, all)
      BY <3>1 DEF Follow
    <3>3. QED
      BY <3>2 DEF at
  <2>3. CASE from[at].out # << >>
    <3>1. SubframeRead(frame, at)
      <4>1. SUFFICES ASSUME ~SubframeRead(frame, at) PROVE FALSE
        OBVIOUS
      <4> HIDE DEF at
      <4>2. from[at] = SubframeLast(frame, at)
        BY <1>1, <2>1, <4>1 DEF Reads
      <4>3. \/ from[at] \in { Outcome(RxOk), Outcome(RxTooShort) }
            \/ from[at].result < 0
        BY <4>2 DEF SubframeLast
      <4>4. from[at].result = RxOk /\ ~(RxOk < 0)
        BY <1>6 DEF at, RxOk
      <4>5. \A r : Outcome(r).out = << >>
        BY DEF Outcome
      <4>6. QED
        BY <2>3, <4>3, <4>4, <4>5
    <3>2. /\ Fits(frame, at, 14) /\ end <= Len(frame) /\ ~(s.result < 0)
          /\ next <= Len(frame)
      BY <3>1 DEF SubframeRead
    <3>3. from[at] = Joined(frame, at, from[next])
      BY <1>1, <2>1, <3>1 DEF Reads
    <3>4. s \in Kept /\ next \in 0 .. Len(frame) /\ at < next
      <4> HIDE DEF at
      <4>1. QED
        BY <1>1, <2>1, <3>1, SubframeReadWithin
    <3>5. Len(frame) - at >= 14
      BY <1>2, <2>1, <3>2 DEF Fits
    <3>6. k # N
      <4>1. SUFFICES ASSUME k = N PROVE FALSE
        OBVIOUS
      <4>2. at = place[N]
        BY <4>1
      <4>3. QED
        BY <1>2, <1>4, <2>1, <3>5, <4>2
    <3>7. k \in 0 .. N - 1 /\ k + 1 \in X /\ k + 1 \in 1 .. N /\ measure[k + 1] < measure[k]
      BY <1>2, <3>6
    <3>8. /\ ReadBE16(frame, at + 12) = 16 + m.length
          /\ end = at + 30 + m.length /\ Brought(s, m)
      <4>1. k \in 0 .. Len(ms) - 1 /\ Fits(frame, place[k], 14)
            /\ SubframeEnd(frame, place[k]) <= Len(frame)
        BY <3>2, <3>7
      <4>2. QED
        BY <4>1, SubframeArrived
    <3>9. m.length \in Nat
      <4>1. m \in Messages
        BY <1>1, <3>7, FittingMessages
      <4>2. QED
        BY <4>1 DEF Messages
    <3> DEFINE r == from[next]
               more == upTo[k + 1]
    <3>10. r \in Kept
      BY <1>5, <3>4
    <3>11. r.out \in Seq(Block(EtherMaxLen))
      <4> HIDE DEF r
      <4>1. QED
        BY <3>10 DEF Kept, Outcomes
    <3>12. from[at] = [ r EXCEPT !.out = s.out \o @ ]
      BY <3>3 DEF Joined
    <3>13. from[at].out = s.out \o r.out /\ from[at].result = r.result
      <4> HIDE DEF r, s, at
      <4>1. QED
        BY <3>10, <3>12 DEF Kept, Outcomes
    <3>14. Follow(r.out, more, all)
      <4>1. CASE Len(frame) - next < 14
        <5>1. r.out = << >>
          <6> HIDE DEF next
          <6>1. QED
            BY <1>1, <3>4, <4>1, NothingBehind
        <5>2. Len(r.out) = 0
          BY <5>1
        <5> HIDE DEF r
        <5>3. QED
          BY <5>2 DEF Follow
      <4>2. CASE ~(Len(frame) - next < 14)
        <5>1. next = at + 30 + m.length + SubframePadding(16 + m.length)
          <6>1. next = IF end = Len(frame) THEN end ELSE end + SubframePadding(16 + m.length)
            BY <3>8, Zenon DEF SubframeNext
          <6> HIDE DEF next, end
          <6>2. next # Len(frame)
            BY <1>2, <3>4, <4>2
          <6>3. QED
            BY <3>8, <6>1, <6>2
        <5>2. SubframePadding(16 + m.length) = (-(30 + m.length)) % 4
              /\ SubframePadding(16 + m.length) \in Nat
          BY <3>9, PaddingAgrees
        <5>3. place[k + 1] = at + 30 + m.length + Gap(ms, k + 1)
          <6>1. (k + 1) - 1 = k
            BY <3>7
          <6>2. QED
            BY <1>3, <3>7, <6>1
        <5>4. k + 1 # N
          <6>1. SUFFICES ASSUME k + 1 = N PROVE FALSE
            OBVIOUS
          <6>2. Gap(ms, k + 1) = 0
            BY <6>1 DEF Gap
          <6>3. place[N] = at + 30 + m.length + 0
            BY <5>3, <6>1, <6>2
          <6> DEFINE padding == SubframePadding(16 + m.length)
                     length == m.length
                     last_place == place[N]
          <6>4. /\ next = at + 30 + length + padding /\ last_place = at + 30 + length + 0
                /\ at \in Nat /\ length \in Nat /\ padding \in Nat
            BY <2>1, <3>9, <5>1, <5>2, <6>3
          <6> HIDE DEF next, at, padding, length, last_place
          <6>5. next >= last_place /\ next \in Int /\ last_place \in Int
            BY <6>4
          <6>6. next >= place[N] /\ next \in Int /\ place[N] \in Int
            BY <6>5 DEF last_place
          <6>7. QED
            BY <1>2, <1>4, <4>2, <6>6
        <5>5. Gap(ms, k + 1) = (-(30 + m.length)) % 4
          BY <5>4 DEF Gap
        <5>6. place[k + 1] = next
          BY <5>1, <5>2, <5>3, <5>5
        <5>7. k + 1 \in P
          BY <1>6, <3>7
        <5>8. r.result = RxOk
          BY <1>6, <3>13
        <5>9. Good(k + 1)
          <6>1. place[k + 1] <= Len(frame)
            BY <3>2, <5>6
          <6> HIDE DEF Good
          <6>2. QED
            BY <5>7, <6>1
        <5>10. QED
          BY <5>6, <5>8, <5>9
      <4>3. QED
        BY <4>1, <4>2
    <3>15. Follow(s.out \o r.out, upTo[k], all)
      <4> HIDE DEF r, s, at
      <4>1. k \in 0 .. Len(ms) - 1 /\ Follow(r.out, upTo[k + 1], upTo[Len(ms)])
        BY <3>7, <3>14
      <4>2. QED
        BY <1>1, <1>2, <3>2, <3>8, <3>11, <4>1, FollowJoined
    <3>16. QED
      BY <3>13, <3>15
  <2>4. QED
    BY <2>2, <2>3
<1>7. ASSUME NEW k \in X, \A j \in X : measure[j] < measure[k] => j \in P
      PROVE  k \in P
  BY <1>6, <1>7
<1>8. measure \in [ X -> Nat ]
  BY <1>2
<1>9. X \subseteq P
  <2> HIDE DEF X, measure, P
  <2>1. QED
    BY <1>7, <1>8, MeasureInduction
<1>10. 0 \in X
  BY <1>2
<1>11. Good(0)
  <2>1. place[0] <= Len(frame)
    BY <1>2, <1>3
  <2> HIDE DEF Good
  <2>2. QED
    BY <1>9, <1>10, <2>1
<1>12. QED
  BY <1>3, <1>11

LEMMA CompleteJoined ==
  ASSUME NEW ms \in Seq(Messages), NEW upTo, Selects(upTo, ms, entry.known),
         NEW k \in 0 .. Len(ms) - 1,
         NEW s, Brought(s, ms[k + 1]), NEW r \in Kept,
         Complete(r, upTo[k + 1], upTo[Len(ms)])
  PROVE  Complete(IF s.result < 0 THEN s ELSE [ r EXCEPT !.out = s.out \o @ ],
                  upTo[k], upTo[Len(ms)])
<1> DEFINE m == ms[k + 1]
           done == upTo[k]
           more == upTo[k + 1]
           all == upTo[Len(ms)]
           joined == [ r EXCEPT !.out = s.out \o @ ]
<1>1. /\ Len(done) \in Nat /\ Len(more) \in Nat /\ Len(all) \in Nat /\ Len(more) <= Len(all)
      /\ Len(done) <= Len(all)
  <2>1. Len(ms) \in Nat
    OBVIOUS
  <2>2. k \in 0 .. Len(ms) /\ k + 1 \in 0 .. Len(ms)
    BY <2>1
  <2>3. /\ done \in Seq(Messages) /\ more \in Seq(Messages) /\ all \in Seq(Messages)
        /\ Len(more) <= Len(all) /\ Len(done) <= Len(all)
    BY <2>2, SelectedBefore
  <2> HIDE DEF done, more, all
  <2>4. QED
    BY <2>3
<1>2. IF Wanted(m, entry.known) THEN Len(more) = Len(done) + 1 /\ all[Len(done) + 1] = m
                                ELSE Len(more) = Len(done)
  BY SelectedNext
<1>3. Complete(r, more, all)
  OBVIOUS
<1>4. r.out \in Seq(Block(EtherMaxLen))
  BY DEF Kept, Outcomes
<1>5. joined.out = s.out \o r.out /\ joined.result = r.result
  BY DEF Kept, Outcomes
<1>6. CASE s.result < 0
  <2>1. s.result # RxOk
    BY <1>6 DEF RxOk
  <2>2. Wanted(m, entry.known) /\ ~m.llc
    <3>1. \A x : Outcome(x).result = x
      BY DEF Outcome
    <3>2. ~(RxIgnorePeer < 0) /\ ~(RxOk < 0)
      BY DEF RxIgnorePeer, RxOk
    <3>3. \A d : [ Outcome(RxOk) EXCEPT !.out = << d >> ].result = RxOk
      BY DEF Outcome
    <3>4. QED
      BY <1>6, <3>1, <3>2, <3>3 DEF Brought
  <2> HIDE DEF m, done, more, all
  <2>3. Len(done) + 1 \in Len(done) + 1 .. Len(all) /\ ~all[Len(done) + 1].llc
    BY <1>1, <1>2, <2>2
  <2>4. Complete(s, done, all)
    BY <2>1, <2>3 DEF Complete
  <2>5. QED
    BY <1>6, <2>4 DEF done, all
<1>7. CASE ~(s.result < 0)
  <2>1. /\ Len(s.out \o r.out) + Len(done) = Len(r.out) + Len(more)
        /\ Wanted(m, entry.known) => m.llc
    <3> DEFINE out == r.out
    <3>1. out \in Seq(Block(EtherMaxLen))
      BY <1>4
    <3> HIDE DEF out
    <3>2. SameNumber(s.out \o out, upTo[k], out, upTo[k + 1])
      BY <1>7, <3>1, FollowJoined
    <3>3. Wanted(ms[k + 1], entry.known) => ms[k + 1].llc
      BY <1>7, <3>1, FollowJoined
    <3>4. QED
      BY <3>2, <3>3 DEF out, SameNumber
  <2>2. Len(joined.out) + Len(done) = Len(r.out) + Len(more)
    BY <1>5, <2>1
  <2> HIDE DEF m, done, more, all, joined
  <2>3. (\A i \in Len(done) + 1 .. Len(all) : all[i].llc)
          <=> (\A i \in Len(more) + 1 .. Len(all) : all[i].llc)
    <3>1. CASE Wanted(m, entry.known)
      <4>1. all[Len(done) + 1].llc /\ Len(more) = Len(done) + 1
        BY <1>2, <2>1, <3>1
      <4>2. \A i \in Len(done) + 1 .. Len(all) :
              i = Len(done) + 1 \/ i \in Len(more) + 1 .. Len(all)
        BY <1>1, <4>1
      <4>3. \A i \in Len(more) + 1 .. Len(all) : i \in Len(done) + 1 .. Len(all)
        BY <1>1, <4>1
      <4>4. QED
        BY <4>1, <4>2, <4>3
    <3>2. CASE ~Wanted(m, entry.known)
      BY <1>2, <3>2
    <3>3. QED
      BY <3>1, <3>2
  <2>4. Complete(joined, done, all)
    BY <1>3, <1>5, <2>2, <2>3 DEF Complete
  <2>5. QED
    BY <1>7, <2>4 DEF done, all, joined
<1>8. QED
  BY <1>6, <1>7

LEMMA AmsduComplete ==
  ASSUME NEW frame, NEW ms, NEW from, NEW upTo, NEW place,
         AmsduOf(frame, ms, from, upTo, place), frame = Aggregate(ms)
  PROVE  Complete(from[0], upTo[0], upTo[Len(ms)])
<1> DEFINE N == Len(ms)
           all == upTo[N]
           X == 0 .. N
           measure == [ k \in X |-> N - k ]
           P == { k \in X : Complete(from[place[k]], upTo[k], all) }
<1>1. /\ Typed /\ frame \in Buffer /\ ms \in Seq(Fitting) /\ Reads(from, frame)
      /\ Selects(upTo, ms, entry.known) /\ Laid(place, ms)
  BY DEF AmsduOf
<1>2. N \in Nat /\ ms \in Seq(Messages) /\ Len(frame) \in Nat
  BY <1>1, FittingMessages DEF Buffer
<1>3. /\ place \in [ X -> Nat ] /\ place[0] = 0 /\ place[N] = Len(frame)
      /\ \A i \in 1 .. N : /\ place[i] = place[i - 1] + 30 + ms[i].length + Gap(ms, i)
                           /\ At(frame, place[i - 1], Subframe(ms[i]))
  BY <1>1 DEF Laid
<1>4. \A at \in 0 .. Len(frame) : from[at] \in Kept
  BY <1>1, ReadsKept
<1>5. ASSUME NEW k \in 0 .. N - 1
      PROVE  /\ k + 1 \in 1 .. N /\ (k + 1) - 1 = k /\ k \in X /\ k + 1 \in X
             /\ ms[k + 1] \in Messages /\ ms[k + 1].length \in Nat
             /\ place[k] \in Nat /\ place[k] + 30 + ms[k + 1].length <= Len(frame)
  <2> DEFINE m == ms[k + 1]
             sub == Subframe(m)
  <2>1. k + 1 \in 1 .. N /\ (k + 1) - 1 = k /\ k \in X /\ k + 1 \in X
    BY <1>2
  <2>2. m \in Messages
    BY <1>1, <2>1, FittingMessages
  <2>3. Len(sub) = 30 + m.length /\ m.length \in Nat
    BY <2>2, SubframeParts DEF Block
  <2>4. place[k] \in Nat /\ At(frame, place[k], sub)
    BY <1>3, <2>1
  <2> HIDE DEF sub, m
  <2>5. place[k] + Len(sub) <= Len(frame)
    BY <2>4 DEF At
  <2>6. QED
    BY <2>1, <2>2, <2>3, <2>4, <2>5 DEF m
<1>6. ASSUME NEW k \in 0 .. N - 1, Complete(from[place[k + 1]], upTo[k + 1], all)
      PROVE  Complete(from[place[k]], upTo[k], all)
  <2> DEFINE at == place[k]
             m == ms[k + 1]
             s == SubframeData(frame, at)
             next == SubframeNext(frame, at)
             end == SubframeEnd(frame, at)
  <2>1. /\ k + 1 \in 1 .. N /\ (k + 1) - 1 = k /\ k \in X /\ k + 1 \in X
        /\ m \in Messages /\ m.length \in Nat
        /\ at \in Nat /\ at + 30 + m.length <= Len(frame)
    BY <1>5
  <2>2. Fits(frame, at, 14)
    BY <1>2, <2>1 DEF Fits
  <2>3. /\ ReadBE16(frame, at + 12) = 16 + m.length
        /\ end = at + 30 + m.length /\ end <= Len(frame) /\ Brought(s, m)
    <3>1. k \in 0 .. Len(ms) - 1 /\ Fits(frame, place[k], 14)
      BY <2>2
    <3>2. /\ ReadBE16(frame, at + 12) = 16 + m.length
          /\ end = at + 30 + m.length /\ (end <= Len(frame) => Brought(s, m))
      BY <3>1, SubframeArrived
    <3> HIDE DEF at, m, end, s
    <3>3. QED
      BY <2>1, <3>2
  <2>4. place[k + 1] = end + Gap(ms, k + 1)
    BY <1>3, <2>1, <2>3
  <2>5. next = place[k + 1]
    <3>1. next = IF end = Len(frame) THEN end ELSE end + SubframePadding(16 + m.length)
      BY <2>3, Zenon DEF SubframeNext
    <3>2. CASE k + 1 = N
      <4>1. Gap(ms, k + 1) = 0
        BY <3>2 DEF Gap
      <4>2. place[k + 1] = end
        <5> HIDE DEF end
        <5>1. end \in Nat
          BY <2>1, <2>3
        <5>2. QED
          BY <2>4, <4>1, <5>1
      <4>3. end = Len(frame)
        BY <1>3, <3>2, <4>2
      <4>4. QED
        BY <3>1, <4>2, <4>3
    <3>3. CASE k + 1 # N
      <4> DEFINE j == k + 1
                 gap == Gap(ms, j)
      <4>1. j \in 0 .. N - 1
        BY <1>2, <2>1, <3>3
      <4>2. place[j] + 30 + ms[j + 1].length <= Len(frame) /\ ms[j + 1].length \in Nat
            /\ place[j] \in Nat
        BY <1>5, <4>1
      <4>3. gap = (-(30 + m.length)) % 4
        BY <3>3 DEF Gap
      <4>4. SubframePadding(16 + m.length) = gap /\ gap \in Nat
        BY <2>1, <4>3, PaddingAgrees
      <4>5. place[j] = end + gap
        BY <2>4
      <4> HIDE DEF j, gap, end, next, m
      <4>6. end # Len(frame)
        <5>1. end \in Nat
          BY <2>1, <2>3
        <5>2. QED
          BY <1>2, <4>2, <4>4, <4>5, <5>1
      <4>7. next = place[j]
        BY <3>1, <4>4, <4>5, <4>6
      <4>8. QED
        BY <4>7 DEF j
    <3>4. QED
      BY <3>2, <3>3
  <2> DEFINE r == from[next]
  <2>6. next \in 0 .. Len(frame) /\ at \in 0 .. Len(frame) /\ at # Len(frame)
    <3>1. place[k + 1] <= Len(frame)
      <4>1. CASE k + 1 = N
        BY <1>2, <1>3, <4>1
      <4>2. CASE k + 1 # N
        <5> DEFINE j == k + 1
        <5>1. j \in 0 .. N - 1
          BY <1>2, <2>1, <4>2
        <5>2. place[j] + 30 + ms[j + 1].length <= Len(frame) /\ ms[j + 1].length \in Nat
              /\ place[j] \in Nat
          BY <1>5, <5>1
        <5> HIDE DEF j
        <5>3. place[j] <= Len(frame)
          BY <1>2, <5>2
        <5>4. QED
          BY <5>3 DEF j
      <4>3. QED
        BY <4>1, <4>2
    <3>2. place[k + 1] \in Nat
      BY <1>3, <2>1
    <3> HIDE DEF next, at, m
    <3>3. QED
      BY <1>2, <2>1, <2>5, <3>1, <3>2
  <2>7. r \in Kept
    BY <1>4, <2>6
  <2>8. from[at] = IF s.result < 0 THEN s ELSE [ r EXCEPT !.out = s.out \o @ ]
    <3>1. from[at] = IF SubframeRead(frame, at) THEN Joined(frame, at, r)
                                               ELSE SubframeLast(frame, at)
      BY <1>1, <2>6 DEF Reads
    <3>2. ~(end > Len(frame)) /\ next <= Len(frame)
      <4>1. end \in Nat
        BY <2>1, <2>3
      <4> HIDE DEF end, next
      <4>2. QED
        BY <1>2, <2>3, <2>6, <4>1
    <3> HIDE DEF at
    <3>3. CASE s.result < 0
      <4>1. ~SubframeRead(frame, at)
        BY <3>3 DEF SubframeRead
      <4>2. SubframeLast(frame, at) = s
        BY <2>2, <2>6, <3>2, <3>3, Zenon DEF SubframeLast
      <4>3. QED
        BY <3>1, <3>3, <4>1, <4>2
    <3>4. CASE ~(s.result < 0)
      <4>1. SubframeRead(frame, at)
        BY <2>2, <2>3, <2>6, <3>2, <3>4 DEF SubframeRead
      <4>2. QED
        BY <3>1, <3>4, <4>1 DEF Joined
    <3>5. QED
      BY <3>3, <3>4
  <2>9. Complete(r, upTo[k + 1], upTo[Len(ms)]) /\ k \in 0 .. Len(ms) - 1
    BY <1>6, <2>5
  <2> HIDE DEF r, s, next, end
  <2>10. Complete(IF s.result < 0 THEN s ELSE [ r EXCEPT !.out = s.out \o @ ],
                  upTo[k], upTo[Len(ms)])
    BY <1>1, <1>2, <2>3, <2>7, <2>9, CompleteJoined
  <2>11. QED
    BY <2>8, <2>10
<1>7. Complete(from[place[N]], upTo[N], all)
  <2>1. Len(frame) \in 0 .. Len(frame) /\ Len(frame) - Len(frame) < 14
    BY <1>2
  <2>2. from[Len(frame)] = Outcome(RxOk)
    BY <1>1, <2>1, NothingBehind
  <2>3. Outcome(RxOk).result = RxOk /\ Outcome(RxOk).out = << >>
    BY DEF Outcome
  <2>4. Len(all) \in Nat
    <3>1. N \in 0 .. Len(ms)
      BY <1>2
    <3>2. all \in Seq(Messages)
      BY <1>1, <1>2, <3>1, SelectedBefore
    <3> HIDE DEF all
    <3>3. QED
      BY <3>2
  <2> DEFINE r == from[place[N]]
  <2>5. r.result = RxOk /\ Len(r.out) = 0
    BY <1>3, <2>2, <2>3
  <2> HIDE DEF r, all
  <2>6. Complete(r, all, all)
    <3>1. Len(all) + 1 .. Len(all) = { }
      BY <2>4
    <3>2. QED
      BY <2>4, <2>5, <3>1 DEF Complete
  <2>7. QED
    BY <2>6 DEF r, all
<1>8. ASSUME NEW k \in X, \A j \in X : measure[j] < measure[k] => j \in P
      PROVE  k \in P
  <2>1. CASE k = N
    BY <1>7, <2>1
  <2>2. CASE k # N
    <3>1. k \in 0 .. N - 1 /\ k + 1 \in X /\ measure[k + 1] < measure[k]
      BY <1>2, <2>2
    <3>2. k + 1 \in P
      BY <1>8, <3>1
    <3>3. QED
      BY <1>6, <3>1, <3>2
  <2>3. QED
    BY <2>1, <2>2
<1>9. measure \in [ X -> Nat ]
  BY <1>2
<1>10. X \subseteq P
  <2> HIDE DEF X, measure, P
  <2>1. QED
    BY <1>8, <1>9, MeasureInduction
<1>11. 0 \in X
  BY <1>2
<1>12. QED
  BY <1>3, <1>10, <1>11

LEMMA NothingHosted ==
  ASSUME NEW o, o.result # RxOk
  PROVE  Hosted(o) = << >> /\ \A all : InOrder(Hosted(o), all)
<1>1. Hosted(o) = << >>
  BY DEF Hosted
<1>2. Len(Hosted(o)) = 0
  BY <1>1
<1>3. \A all : InOrder(Hosted(o), all)
  BY <1>2 DEF InOrder
<1>4. QED
  BY <1>1, <1>3

LEMMA FromPeerTyped ==
  ASSUME NEW ms \in Seq(Messages), NEW known \in BOOLEAN
  PROVE  FromPeer(ms, known) \in Seq(Messages)
<1>1. PICK upTo : Selects(upTo, ms, known) /\ FromPeer(ms, known) = upTo[Len(ms)]
  BY FromPeerSelects
<1>2. Len(ms) \in 0 .. Len(ms)
  OBVIOUS
<1>3. QED
  BY <1>1, <1>2, SelectedBefore

LEMMA EntryKnown == Typed => entry.known \in BOOLEAN
BY KnownPeers DEF Typed

(* An A-MSDU, or the beginning of one.                                     *)
LEMMA AmsduDelivers ==
  ASSUME Typed, NEW frame \in Buffer, NEW ms \in Seq(Fitting),
         Begins(frame, 0, Aggregate(ms) \o Fcs)
  PROVE  LET all == FromPeer(ms, entry.known)
         IN  /\ InOrder(Hosted(RxAmsdu(frame)), all)
             /\ frame = Aggregate(ms) => AllOrNone(Hosted(RxAmsdu(frame)), all)
<1> DEFINE all == FromPeer(ms, entry.known)
           o == RxAmsdu(frame)
<1>1. ms \in Seq(Messages) /\ entry.known \in BOOLEAN
  BY FittingMessages, EntryKnown
<1>2. PICK from : Reads(from, frame) /\ o = from[0]
  BY RxAmsduReads
<1>3. PICK upTo : Selects(upTo, ms, entry.known) /\ all = upTo[Len(ms)]
  BY <1>1, FromPeerSelects
<1>4. PICK place : Laid(place, ms)
  BY <1>1, AggregateLayout
<1>5. AmsduOf(frame, ms, from, upTo, place)
  BY <1>2, <1>3, <1>4 DEF AmsduOf
<1>6. Len(upTo[0]) = 0
  BY <1>3 DEF Selects
<1>7. o.result = RxOk => Follow(o.out, upTo[0], all)
  BY <1>2, <1>3, <1>5, AmsduInOrder
<1>8. frame = Aggregate(ms) => Complete(o, upTo[0], all)
  BY <1>2, <1>3, <1>5, AmsduComplete
<1>9. all \in Seq(Messages) /\ o.out \in Seq(Block(EtherMaxLen))
  BY <1>1, FromPeerTyped, RxAmsduTyped DEF Kept, Outcomes
<1> DEFINE done == upTo[0]
<1>10. Len(done) = 0
  BY <1>6
<1> HIDE DEF all, o, done
<1>11. CASE o.result # RxOk
  <2>1. Hosted(o) = << >> /\ InOrder(Hosted(o), all)
    BY <1>11, NothingHosted
  <2>2. Len(Hosted(o)) = 0
    BY <2>1
  <2>3. ASSUME frame = Aggregate(ms) PROVE AllOrNone(Hosted(o), all)
    <3>1. Complete(o, done, all)
      BY <1>8, <2>3 DEF done
    <3>2. ~ \A i \in Len(done) + 1 .. Len(all) : all[i].llc
      BY <1>11, <3>1 DEF Complete
    <3>3. ~ \A i \in 1 .. Len(all) : all[i].llc
      BY <1>10, <3>2
    <3>4. QED
      BY <2>2, <3>3 DEF AllOrNone
  <2>4. QED
    BY <2>1, <2>3 DEF o, all
<1>12. CASE o.result = RxOk
  <2> DEFINE out == o.out
  <2>1. Hosted(o) = out /\ Follow(out, done, all) /\ Len(out) \in Nat /\ Len(all) \in Nat
    BY <1>7, <1>9, <1>12 DEF Hosted, done
  <2> HIDE DEF out
  <2>2. InOrder(out, all)
    <3>1. ASSUME NEW i \in 1 .. Len(out)
          PROVE  i <= Len(all) /\ IsPrefix(Ethernet(all[i]), out[i])
      <4>1. Len(done) + i <= Len(all) /\ IsPrefix(Ethernet(all[Len(done) + i]), out[i])
        BY <2>1 DEF Follow
      <4>2. Len(done) + i = i
        BY <1>10, <2>1
      <4>3. QED
        BY <4>1, <4>2
    <3>2. QED
      BY <3>1 DEF InOrder
  <2>3. ASSUME frame = Aggregate(ms) PROVE AllOrNone(out, all)
    <3>1. Complete(o, done, all)
      BY <1>8, <2>3 DEF done
    <3>2. /\ \A i \in Len(done) + 1 .. Len(all) : all[i].llc
          /\ Len(out) + Len(done) = Len(all)
      BY <1>12, <3>1 DEF Complete, out
    <3>3. (\A i \in 1 .. Len(all) : all[i].llc) /\ Len(out) = Len(all)
      BY <1>10, <2>1, <3>2
    <3>4. QED
      BY <3>3 DEF AllOrNone
  <2>4. QED
    BY <2>1, <2>2, <2>3 DEF o, all
<1>13. QED
  BY <1>11, <1>12

(* A data frame of one Ethernet frame.                                     *)
LEMMA SelectedOne ==
  ASSUME NEW ms \in Seq(Messages), Len(ms) = 1, NEW known \in BOOLEAN
  PROVE  IF Wanted(ms[1], known)
           THEN Len(FromPeer(ms, known)) = 1 /\ FromPeer(ms, known)[1] = ms[1]
           ELSE Len(FromPeer(ms, known)) = 0
<1> DEFINE m == ms[1]
           all == FromPeer(ms, known)
<1>1. PICK upTo : Selects(upTo, ms, known) /\ all = upTo[Len(ms)]
  BY FromPeerSelects
<1>2. 1 \in 1 .. Len(ms) /\ 1 - 1 = 0
  OBVIOUS
<1>3. upTo[1] = IF Wanted(m, known) THEN Append(upTo[0], m) ELSE upTo[0]
  BY <1>1, <1>2 DEF Selects
<1>4. upTo[0] = << >> /\ all = upTo[1]
  BY <1>1 DEF Selects
<1> HIDE DEF m, all
<1>5. all = IF Wanted(m, known) THEN << m >> ELSE << >>
  <2>1. Append(<< >>, m) = << m >>
    OBVIOUS
  <2>2. QED
    BY <1>3, <1>4, <2>1
<1>6. QED
  BY <1>5 DEF m, all

LEMMA DataDelivers ==
  ASSUME Typed, NEW ms \in Seq(Fitting), Len(ms) = 1
  PROVE  LET m == ms[1]
             all == FromPeer(ms, entry.known)
             o == RxData(DataBody(m), Address(m.src), Address(m.dst))
         IN  o \in Kept /\ InOrder(Hosted(o), all) /\ AllOrNone(Hosted(o), all)
<1> DEFINE m == ms[1]
           all == FromPeer(ms, entry.known)
           body == DataBody(m)
           from == Address(m.src)
           to == Address(m.dst)
           o == RxData(body, from, to)
<1>1. /\ ms \in Seq(Messages) /\ entry.known \in BOOLEAN /\ m \in Messages
      /\ 14 + m.length <= EtherMaxLen
  <2>1. 1 \in 1 .. Len(ms)
    OBVIOUS
  <2>2. QED
    BY <2>1, FittingMessages, EntryKnown
<1>2. IF Wanted(m, entry.known) THEN Len(all) = 1 /\ all[1] = m ELSE Len(all) = 0
  BY <1>1, SelectedOne
<1>3. Brought(o, m)
  <2> HIDE DEF m
  <2>1. QED
    BY <1>1, DataSeen
<1>4. body \in Buffer /\ from \in Block(6) /\ to \in Block(6)
  <2>1. m.src \in Nat /\ m.dst \in Nat /\ body \in Block(16 + m.length)
    BY <1>1, SubframeParts
  <2>2. body \in Buffer
    BY <2>1 DEF Block
  <2>3. QED
    BY <2>1, <2>2, AddressBlock
<1> HIDE DEF m, all, body, from, to
<1>5. o \in Kept
  BY <1>4, RxDataTyped
<1> HIDE DEF o
<1>6. \A r : Outcome(r).result = r /\ Outcome(r).out = << >>
  BY DEF Outcome
<1>7. CASE ~Wanted(m, entry.known)
  <2>1. o = Outcome(RxIgnorePeer)
    BY <1>3, <1>7 DEF Brought
  <2>2. o.result # RxOk
    BY <1>6, <2>1 DEF RxIgnorePeer, RxOk
  <2>3. InOrder(Hosted(o), all) /\ Hosted(o) = << >>
    BY <2>2, NothingHosted
  <2>4. Len(Hosted(o)) = 0 /\ Len(all) = 0
    BY <1>2, <1>7, <2>3
  <2>5. AllOrNone(Hosted(o), all)
    BY <2>4 DEF AllOrNone
  <2>6. QED
    BY <1>5, <2>3, <2>5 DEF o, m, all, body, from, to
<1>8. CASE Wanted(m, entry.known) /\ ~m.llc
  <2>1. o = Outcome(RxUnexpectedFormat)
    BY <1>3, <1>8 DEF Brought
  <2>2. o.result # RxOk
    BY <1>6, <2>1 DEF RxUnexpectedFormat, RxOk
  <2>3. InOrder(Hosted(o), all) /\ Hosted(o) = << >>
    BY <2>2, NothingHosted
  <2>4. Len(Hosted(o)) = 0 /\ 1 \in 1 .. Len(all) /\ ~all[1].llc
    BY <1>2, <1>8, <2>3
  <2>5. AllOrNone(Hosted(o), all)
    BY <2>4 DEF AllOrNone
  <2>6. QED
    BY <1>5, <2>3, <2>5 DEF o, m, all, body, from, to
<1>9. CASE Wanted(m, entry.known) /\ m.llc
  <2>1. PICK d : IsPrefix(Ethernet(m), d) /\ o = [ Outcome(RxOk) EXCEPT !.out = << d >> ]
    BY <1>3, <1>9, Zenon DEF Brought
  <2>2. o.result = RxOk /\ o.out = << d >>
    BY <2>1 DEF Outcome
  <2>3. Hosted(o) = << d >>
    BY <2>2 DEF Hosted
  <2>4. Len(Hosted(o)) = 1 /\ Hosted(o)[1] = d
    BY <2>3
  <2>5. Len(all) = 1 /\ all[1] = m
    BY <1>2, <1>9
  <2>6. \A i \in 1 .. Len(Hosted(o)) : i = 1
    BY <2>4
  <2>7. InOrder(Hosted(o), all)
    BY <2>1, <2>4, <2>5, <2>6 DEF InOrder
  <2>8. AllOrNone(Hosted(o), all)
    <3>1. \A i \in 1 .. Len(all) : all[i].llc
      BY <1>9, <2>5
    <3>2. QED
      BY <2>4, <2>5, <3>1 DEF AllOrNone
  <2>9. QED
    BY <1>5, <2>7, <2>8 DEF o, m, all, body, from, to
<1>10. QED
  BY <1>7, <1>8, <1>9

(* The flag of the QoS control field.                                      *)
LEMMA QosRead ==
  ASSUME NEW body \in Buffer, NEW aggregate \in BOOLEAN, At(body, 0, QosControl(aggregate))
  PROVE  Fits(body, 0, 2) /\ ((ReadLE16(body, 0) \div 128) % 2 = 1 <=> aggregate)
<1> DEFINE n == IF aggregate THEN 128 ELSE 0
           number == LE16(n)
<1>1. n \in Nat /\ n % 256 = n /\ n \div 256 = 0 /\ ((n \div 128) % 2 = 1 <=> aggregate)
  OBVIOUS
<1>2. QosControl(aggregate) = number
  BY DEF QosControl
<1> HIDE DEF n
<1>3. Len(number) = 2 /\ number[1] = Num(n) /\ number[2] = Num(0)
  BY <1>1, LE16Bytes
<1> HIDE DEF number
<1>4. Len(body) \in Nat /\ Len(body) >= 2 /\ body[1] = Num(n) /\ body[2] = Num(0)
  <2>1. 0 + 2 <= Len(body) /\ \A k \in 1 .. 2 : body[0 + k] = number[k]
    BY <1>2, <1>3 DEF At
  <2>2. body[0 + 1] = number[1] /\ body[0 + 2] = number[2]
    BY <2>1
  <2>3. Len(body) \in Nat
    BY DEF Buffer
  <2>4. QED
    BY <1>3, <2>1, <2>2, <2>3
<1>5. Num(n)[3] = n /\ Num(0)[3] = 0
  BY <1>1, NumByte
<1>6. ReadLE16(body, 0) = body[1][3] + 256 * body[2][3]
  BY DEF ReadLE16, ReadU8
<1>7. ReadLE16(body, 0) = n
  BY <1>1, <1>4, <1>5, <1>6
<1>8. QED
  BY <1>1, <1>4, <1>7 DEF Fits

(* The data frames, with their 802.11 header.                              *)
DataKinds == { "data", "qos", "amsdu" }
AmsduBytes(ms) == QosControl(TRUE) \o Aggregate(ms)

LEMMA PayloadsFit == Payloads \subseteq Seq(Fitting)
<1>1. ASSUME NEW ms \in Payloads PROVE ms \in Seq(Fitting)
  <2>1. ms \in Seq(Messages)
    BY ReceptionAssumption, Zenon DEF Messages
  <2>2. \A i \in 1 .. Len(ms) : ms[i] \in Messages /\ i \in DOMAIN ms
    BY <2>1
  <2>3. \A i \in 1 .. Len(ms) : 14 + ms[i].length <= EtherMaxLen
    BY <2>2, PayloadAssumption
  <2>4. \A i \in 1 .. Len(ms) : ms[i] \in Fitting
    BY <2>2, <2>3 DEF Fitting
  <2>5. QED
    BY <2>1, <2>4
<1>2. QED
  BY <1>1

LEMMA DataFrameBytes ==
  ASSUME NEW f \in SentFrames, f.kind \in DataKinds
  PROVE  /\ f.ms \in Seq(Fitting)
         /\ f.kind = "amsdu" =>
              Bytes[f] = Header(QosDataFrame, Peer, Self) \o AmsduBytes(f.ms)
         /\ f.kind # "amsdu" => Len(f.ms) = 1
         /\ f.kind = "qos" =>
              Bytes[f] = Header(QosDataFrame, f.ms[1].src, f.ms[1].dst)
                           \o (QosControl(FALSE) \o DataBody(f.ms[1]))
         /\ f.kind = "data" =>
              Bytes[f] = Header(DataFrame, f.ms[1].src, f.ms[1].dst) \o DataBody(f.ms[1])
<1>1. f \in { g \in DataFrames : g.kind = "amsdu" \/ Len(g.ms) = 1 }
  <2>1. CASE f \in Announcements
    <3>1. f.kind = "action"
      BY <2>1 DEF Announcements
    <3>2. QED
      BY <3>1 DEF DataKinds
  <2>2. CASE f \in Others
    <3>1. PICK k \in { "beacon", "block ack", "echo" } : f = [ kind |-> k ]
      BY <2>2 DEF Others
    <3>2. f.kind \in { "beacon", "block ack", "echo" }
      BY <3>1
    <3>3. QED
      BY <3>2 DEF DataKinds
  <2>3. QED
    BY <2>1, <2>2 DEF SentFrames
<1>2. f.ms \in Payloads
  <2>1. PICK k \in { "data", "qos", "amsdu" }, ms \in Payloads : f = [ kind |-> k, ms |-> ms ]
    BY <1>1 DEF DataFrames
  <2>2. QED
    BY <2>1
<1>3. f.ms \in Seq(Fitting) /\ f.ms \in Seq(Messages)
  BY <1>2, PayloadsFit, FittingMessages
<1>4. f.kind # "amsdu" => Len(f.ms) = 1
  BY <1>1
<1>5. \A x, y, z \in Buffer : (x \o y) \o z = x \o (y \o z)
  BY DEF Buffer
<1>6. QosControl(FALSE) \in Buffer /\ QosControl(TRUE) \in Buffer
  BY QosControlBytes DEF Block
<1>7. /\ DataFrame \in Nat /\ QosDataFrame \in Nat /\ Peer \in Nat /\ Self \in Nat
      /\ \A type, src, dst \in Nat : Header(type, src, dst) \in Buffer
  BY HeaderLayout DEF DataFrame, QosDataFrame, Peer, Self, Block
<1>8. CASE f.kind = "amsdu"
  <2> DEFINE head == Header(QosDataFrame, Peer, Self)
             control == QosControl(TRUE)
             body == Aggregate(f.ms)
  <2>1. Bytes[f] = head \o control \o body
    BY <1>8 DEF Bytes
  <2>2. head \in Buffer /\ control \in Buffer /\ body \in Buffer
    BY <1>3, <1>6, <1>7, AggregateBytes
  <2> HIDE DEF head, control, body
  <2>3. Bytes[f] = head \o (control \o body)
    BY <1>5, <2>1, <2>2
  <2>4. QED
    BY <1>3, <1>8, <2>3 DEF AmsduBytes, head, control, body
<1>9. CASE f.kind = "qos"
  <2> DEFINE m == f.ms[1]
             head == Header(QosDataFrame, m.src, m.dst)
             control == QosControl(FALSE)
             body == DataBody(m)
  <2>1. Bytes[f] = head \o control \o body
    BY <1>9 DEF Bytes
  <2>2. m \in Messages
    BY <1>3, <1>4, <1>9
  <2>3. m.src \in Nat /\ m.dst \in Nat /\ body \in Buffer
    BY <2>2, SubframeParts DEF Block
  <2>4. head \in Buffer /\ control \in Buffer
    BY <1>6, <1>7, <2>3
  <2> HIDE DEF head, control, body
  <2>5. Bytes[f] = head \o (control \o body)
    BY <1>5, <2>1, <2>3, <2>4
  <2>6. QED
    BY <1>3, <1>4, <1>9, <2>5 DEF head, control, body
<1>10. CASE f.kind = "data"
  <2>1. Bytes[f] = Header(DataFrame, f.ms[1].src, f.ms[1].dst) \o DataBody(f.ms[1])
    BY <1>10 DEF Bytes
  <2>2. QED
    BY <1>3, <1>4, <1>10, <2>1
<1>11. QED
  BY <1>8, <1>9, <1>10 DEF DataKinds

LEMMA QosFrame ==
  ASSUME NEW frame, ReadLE16(frame, 0) = QosDataFrame, NEW rssi, NEW memory
  PROVE  RxFrame(frame, rssi, memory) =
           RxQosData(Strip(frame, 24), Read(frame, 10, 6), Read(frame, 4, 6))
<1>1. QosDataFrame # ActionFrame /\ QosDataFrame # DataFrame
  BY DEF QosDataFrame, ActionFrame, DataFrame
<1>2. QED
  BY <1>1 DEF RxFrame

LEMMA AmsduFrame ==
  ASSUME Typed, NEW ms \in Seq(Fitting), NEW frame,
         frame = Header(QosDataFrame, Peer, Self) \o AmsduBytes(ms), NEW rssi
  PROVE  /\ frame \in Buffer /\ Fits(frame, 0, 24) /\ Read(frame, 10, 6) # Address(Self)
         /\ Delivers(RxFrame(frame, rssi, TRUE), FromPeer(ms, entry.known))
<1> DEFINE all == FromPeer(ms, entry.known)
           control == QosControl(TRUE)
           aggregate == Aggregate(ms)
           body == control \o aggregate
           src == Read(frame, 10, 6)
           dst == Read(frame, 4, 6)
<1>1. control \in Buffer /\ Len(control) = 2 /\ aggregate \in Buffer /\ body \in Buffer
  <2>1. control \in Block(2)
    BY QosControlBytes
  <2>2. control \in Buffer /\ Len(control) = 2
    BY <2>1 DEF Block
  <2>3. aggregate \in Buffer
    BY FittingMessages, AggregateBytes
  <2>4. QED
    BY <2>2, <2>3, ManyBytes
<1>2. At(body, 0, QosControl(TRUE)) /\ Strip(body, 2) = aggregate
  <2> HIDE DEF control, aggregate
  <2>1. At(body, 0, control)
    BY <1>1, AtItself, AtFront
  <2>2. Strip(body, Len(control)) = aggregate
    BY <1>1, StripFront
  <2>3. QED
    BY <1>1, <2>1, <2>2 DEF control
<1> HIDE DEF body, control, aggregate
<1>3. Fits(body, 0, 2) /\ (ReadLE16(body, 0) \div 128) % 2 = 1
  BY <1>1, <1>2, QosRead
<1>4. /\ frame \in Buffer /\ Fits(frame, 0, 24) /\ ReadLE16(frame, 0) = QosDataFrame
      /\ src = Address(Peer) /\ Strip(frame, 24) = body
  <2>1. QosDataFrame \in Nat /\ Peer \in Nat /\ Self \in Nat
    BY DEF QosDataFrame, Peer, Self
  <2>2. frame = Header(QosDataFrame, Peer, Self) \o body
    BY Zenon DEF AmsduBytes, body, control, aggregate
  <2>3. QED
    BY <1>1, <2>1, <2>2, FrameSeen
<1>5. src # Address(Self)
  BY <1>4, AddressesDiffer DEF Peer, Self
<1> HIDE DEF src, dst
<1>6. RxFrame(frame, rssi, TRUE) = RxAmsdu(aggregate)
  <2>1. RxFrame(frame, rssi, TRUE) = RxQosData(body, src, dst)
    BY <1>4, QosFrame, Zenon DEF src, dst
  <2>2. RxQosData(body, src, dst) = RxAmsdu(aggregate)
    BY <1>2, <1>3 DEF RxQosData
  <2>3. QED
    BY <2>1, <2>2
<1>7. Begins(aggregate, 0, aggregate \o Fcs)
  BY <1>1, FrameBegins
<1>8. InOrder(Hosted(RxAmsdu(aggregate)), all) /\ AllOrNone(Hosted(RxAmsdu(aggregate)), all)
  BY <1>1, <1>7, AmsduDelivers DEF aggregate
<1>9. RxAmsdu(aggregate) \in Kept
  BY <1>1, RxAmsduTyped
<1>10. Delivers(RxFrame(frame, rssi, TRUE), all)
  BY <1>6, <1>8, <1>9 DEF Delivers
<1>11. QED
  BY <1>4, <1>5, <1>10 DEF src

(* The frame of a node itself brings nothing, and is not to.               *)
LEMMA OwnFrame ==
  ASSUME Typed, NEW ms \in Seq(Messages), Len(ms) = 1, ms[1].src = Self
  PROVE  Delivers(Outcome(RxIgnoreFromSelf), FromPeer(ms, entry.known))
<1> DEFINE o == Outcome(RxIgnoreFromSelf)
           all == FromPeer(ms, entry.known)
<1>1. ~Wanted(ms[1], entry.known)
  BY DEF Wanted, Peer, Self
<1>2. Len(all) = 0
  BY <1>1, EntryKnown, SelectedOne
<1>3. o \in Kept /\ o.result # RxOk
  <2>1. RxIgnoreFromSelf \in Results /\ RxIgnoreFromSelf # RxOk
    BY DEF Results, RxIgnoreFromSelf, RxOk
  <2>2. o.result = RxIgnoreFromSelf
    BY DEF Outcome
  <2>3. QED
    BY <2>1, <2>2, OutcomeKept
<1> HIDE DEF o, all
<1>4. InOrder(Hosted(o), all) /\ Hosted(o) = << >>
  BY <1>3, NothingHosted
<1>5. Len(Hosted(o)) = 0
  BY <1>4
<1>6. AllOrNone(Hosted(o), all)
  BY <1>2, <1>5 DEF AllOrNone
<1>7. QED
  BY <1>3, <1>4, <1>6 DEF Delivers, o, all

(* A frame of the type, with a body of which RxData gets the data.         *)
LEMMA DataFrameSeen ==
  ASSUME Typed, NEW ms \in Seq(Fitting), Len(ms) = 1,
         NEW type \in { DataFrame, QosDataFrame }, NEW body \in Buffer, NEW frame,
         frame = Header(type, ms[1].src, ms[1].dst) \o body,
         type = DataFrame => body = DataBody(ms[1]),
         type = QosDataFrame => body = QosControl(FALSE) \o DataBody(ms[1]),
         NEW rssi
  PROVE  /\ frame \in Buffer /\ Fits(frame, 0, 24)
         /\ Delivers(IF Read(frame, 10, 6) = Address(Self) THEN Outcome(RxIgnoreFromSelf)
                     ELSE RxFrame(frame, rssi, TRUE),
                     FromPeer(ms, entry.known))
<1> DEFINE m == ms[1]
           all == FromPeer(ms, entry.known)
           data == DataBody(m)
           src == Read(frame, 10, 6)
           dst == Read(frame, 4, 6)
<1>1. /\ ms \in Seq(Messages) /\ m \in Messages /\ m.src \in Nat /\ m.dst \in Nat
      /\ data \in Buffer
  <2>1. 1 \in 1 .. Len(ms)
    OBVIOUS
  <2>2. ms \in Seq(Messages) /\ m \in Messages
    BY <2>1, FittingMessages
  <2>3. m.src \in Nat /\ m.dst \in Nat /\ data \in Buffer
    BY <2>2, SubframeParts DEF Block
  <2>4. QED
    BY <2>2, <2>3
<1>2. /\ type \in Nat /\ Self \in Nat /\ DataFrame # QosDataFrame
      /\ type # ActionFrame
  BY DEF DataFrame, QosDataFrame, ActionFrame, Self
<1>3. /\ frame \in Buffer /\ Fits(frame, 0, 24) /\ ReadLE16(frame, 0) = type
      /\ src = Address(m.src) /\ dst = Address(m.dst) /\ Strip(frame, 24) = body
  BY <1>1, <1>2, FrameSeen
<1> HIDE DEF m, data
<1>4. RxFrame(frame, rssi, TRUE) = RxData(data, src, dst)
  <2>1. CASE type = DataFrame
    <3>1. body = data
      BY <2>1 DEF data, m
    <3> HIDE DEF src, dst
    <3>2. RxFrame(frame, rssi, TRUE) = RxData(body, src, dst)
      BY <1>2, <1>3, <2>1 DEF RxFrame, src, dst
    <3>3. QED
      BY <3>1, <3>2
  <2>2. CASE type = QosDataFrame
    <3> DEFINE control == QosControl(FALSE)
    <3>1. body = control \o data /\ control \in Buffer /\ Len(control) = 2
      <4>1. control \in Block(2)
        BY QosControlBytes
      <4>2. QED
        BY <2>2, <4>1 DEF Block, data, m
    <3>2. At(body, 0, QosControl(FALSE)) /\ Strip(body, 2) = data
      <4> HIDE DEF control
      <4>1. At(control \o data, 0, control)
        BY <1>1, <3>1, AtItself, AtFront
      <4>2. Strip(control \o data, Len(control)) = data
        BY <1>1, <3>1, StripFront
      <4>3. QED
        BY <3>1, <4>1, <4>2 DEF control
    <3>3. Fits(body, 0, 2) /\ ~((ReadLE16(body, 0) \div 128) % 2 = 1)
      BY <3>2, QosRead
    <3> HIDE DEF src, dst
    <3>4. RxFrame(frame, rssi, TRUE) = RxQosData(body, src, dst)
      BY <1>2, <1>3, <2>2 DEF RxFrame, src, dst
    <3>5. RxQosData(body, src, dst) = RxData(data, src, dst)
      BY <3>2, <3>3 DEF RxQosData
    <3>6. QED
      BY <3>4, <3>5
  <2>3. QED
    BY <2>1, <2>2
<1>5. CASE src = Address(Self)
  <2>1. m.src = Self
    BY <1>1, <1>2, <1>3, <1>5, AddressesDiffer
  <2>2. Delivers(Outcome(RxIgnoreFromSelf), all)
    BY <1>1, <2>1, OwnFrame DEF m
  <2>3. QED
    BY <1>3, <1>5, <2>2
<1>6. CASE src # Address(Self)
  <2>1. Delivers(RxData(data, Address(m.src), Address(m.dst)), all)
    BY DataDelivers DEF Delivers, data, m
  <2>2. Delivers(RxFrame(frame, rssi, TRUE), all)
    BY <1>3, <1>4, <2>1
  <2>3. QED
    BY <1>3, <1>6, <2>2
<1>7. QED
  BY <1>5, <1>6

LEMMA WholeDelivers ==
  ASSUME Typed, NEW tap \in Buffer, NEW f \in SentFrames, f.kind \in DataKinds,
         NEW flags, ~IsSet(flags, FlagBadFcs), NEW rssi
  PROVE  Delivers(Heard(tap, f, flags, rssi), FromPeer(f.ms, entry.known))
<1> DEFINE frame == Bytes[f]
           o == IF Read(frame, 10, 6) = Address(Self) THEN Outcome(RxIgnoreFromSelf)
                ELSE RxFrame(frame, rssi, TRUE)
<1>1. /\ frame \in Buffer /\ Fits(frame, 0, 24)
      /\ Delivers(o, FromPeer(f.ms, entry.known))
  <2> HIDE DEF frame
  <2>1. f.ms \in Seq(Fitting)
    BY DataFrameBytes
  <2>2. CASE f.kind = "amsdu"
    <3>1. frame = Header(QosDataFrame, Peer, Self) \o AmsduBytes(f.ms)
      BY <2>2, DataFrameBytes DEF frame
    <3>2. /\ frame \in Buffer /\ Fits(frame, 0, 24) /\ Read(frame, 10, 6) # Address(Self)
          /\ Delivers(RxFrame(frame, rssi, TRUE), FromPeer(f.ms, entry.known))
      BY <2>1, <3>1, AmsduFrame
    <3>3. QED
      BY <3>2
  <2>3. CASE f.kind # "amsdu"
    <3> DEFINE m == f.ms[1]
    <3>1. Len(f.ms) = 1
      BY <2>3, DataFrameBytes
    <3>2. DataBody(m) \in Buffer /\ QosControl(FALSE) \o DataBody(m) \in Buffer
      <4>1. m \in Messages
        BY <2>1, <3>1, FittingMessages
      <4>2. DataBody(m) \in Buffer /\ QosControl(FALSE) \in Buffer
        BY <4>1, SubframeParts, QosControlBytes DEF Block
      <4>3. QED
        BY <4>2, ManyBytes
    <3>3. DataFrame # QosDataFrame
      BY DEF DataFrame, QosDataFrame
    <3>4. CASE f.kind = "data"
      <4>1. frame = Header(DataFrame, f.ms[1].src, f.ms[1].dst) \o DataBody(f.ms[1])
        BY <3>4, DataFrameBytes DEF frame
      <4>2. QED
        BY <2>1, <3>1, <3>2, <3>3, <4>1, DataFrameSeen
    <3>5. CASE f.kind = "qos"
      <4>1. frame = Header(QosDataFrame, f.ms[1].src, f.ms[1].dst)
                      \o (QosControl(FALSE) \o DataBody(f.ms[1]))
        BY <3>5, DataFrameBytes DEF frame
      <4>2. QED
        BY <2>1, <3>1, <3>2, <3>3, <4>1, DataFrameSeen
    <3>6. QED
      BY <2>3, <3>4, <3>5 DEF DataKinds
  <2>4. QED
    BY <2>2, <2>3
<1>2. Heard(tap, f, flags, rssi) = o
  BY <1>1, WholeFrame, Zenon
<1>3. QED
  BY <1>1, <1>2

LEMMA RefusedFollows ==
  ASSUME Typed, NEW r \in Results \ { RxOk }, NEW all
  PROVE  Follows(Outcome(r), all)
<1>1. Outcome(r) \in Kept
  BY OutcomeKept
<1>2. Outcome(r).result # RxOk
  BY DEF Outcome
<1>3. QED
  BY <1>1, <1>2, NothingHosted DEF Follows

LEMMA Refusals ==
  { RxUnexpectedFormat, RxIgnoreFailedCrc, RxTooShort } \subseteq Results \ { RxOk }
BY DEF Results, RxOk, RxUnexpectedFormat, RxIgnoreFailedCrc, RxTooShort

LEMMA AmsduBodyFollows ==
  ASSUME Typed, NEW ms \in Seq(Fitting), NEW body \in Buffer,
         Begins(body, 0, AmsduBytes(ms) \o Fcs), NEW src, NEW dst
  PROVE  Follows(RxQosData(body, src, dst), FromPeer(ms, entry.known))
<1> DEFINE all == FromPeer(ms, entry.known)
           control == QosControl(TRUE)
           aggregate == Aggregate(ms)
           inner == Strip(body, 2)
<1>1. control \in Buffer /\ Len(control) = 2 /\ aggregate \in Buffer
  <2>1. control \in Block(2)
    BY QosControlBytes
  <2>2. aggregate \in Buffer
    BY FittingMessages, AggregateBytes
  <2>3. QED
    BY <2>1, <2>2 DEF Block
<1>2. Begins(body, 0, (control \o aggregate) \o Fcs)
  BY Zenon DEF AmsduBytes
<1>3. CASE ~Fits(body, 0, 2)
  <2>1. RxQosData(body, src, dst) = Outcome(RxTooShort)
    BY <1>3 DEF RxQosData
  <2>2. QED
    BY <2>1, Refusals, RefusedFollows
<1>4. CASE Fits(body, 0, 2)
  <2>1. Len(body) \in Nat /\ Len(body) >= 2
    BY <1>4 DEF Fits, Buffer
  <2> HIDE DEF control, aggregate
  <2>2. At(body, 0, control)
    <3> DEFINE whole == (control \o aggregate) \o Fcs
    <3>1. whole \in Buffer /\ At(whole, 0, control)
      <4>1. control \o aggregate \in Buffer /\ At(control \o aggregate, 0, control)
        BY <1>1, AtItself, AtFront, ManyBytes
      <4>2. QED
        BY <1>1, <4>1, FcsBytes, AtFront, ManyBytes
    <3>2. Begins(body, 0, whole)
      BY <1>2
    <3> HIDE DEF whole
    <3>3. 0 + Len(control) <= Len(body) /\ 0 \in Nat
      BY <1>1, <2>1
    <3>4. QED
      BY <1>1, <3>1, <3>2, <3>3, AtBegins, Zenon
  <2>3. inner \in Buffer /\ Begins(inner, 0, aggregate \o Fcs)
    <3>1. Len(body) >= Len(control)
      BY <1>1, <2>1
    <3>2. /\ Strip(body, Len(control)) \in Buffer
          /\ Begins(Strip(body, Len(control)), 0, aggregate \o Fcs)
      BY <1>1, <1>2, <3>1, FcsBytes, StripBegins
    <3>3. QED
      BY <1>1, <3>2
  <2>4. (ReadLE16(body, 0) \div 128) % 2 = 1
    <3>1. At(body, 0, QosControl(TRUE))
      BY <2>2 DEF control
    <3>2. QED
      BY <3>1, QosRead
  <2>5. RxQosData(body, src, dst) = RxAmsdu(inner)
    BY <1>4, <2>4 DEF RxQosData
  <2>6. InOrder(Hosted(RxAmsdu(inner)), all)
    <3> HIDE DEF inner
    <3>1. QED
      BY <2>3, AmsduDelivers DEF aggregate
  <2>7. RxAmsdu(inner) \in Kept
    BY <2>3, RxAmsduTyped
  <2>8. QED
    BY <2>5, <2>6, <2>7 DEF Follows
<1>5. QED
  BY <1>3, <1>4

LEMMA AmsduArrives ==
  ASSUME Typed, NEW f \in SentFrames, f.kind = "amsdu", NEW buf, NEW told, NEW memory,
         Carries(buf, told, Bytes[f])
  PROVE  Follows(Rx(buf, told, memory), FromPeer(f.ms, entry.known))
<1> DEFINE bytes == Strip(buf, told.length)
           checksum == IsSet(told.flags, FlagFcs)
           failed == IsSet(told.flags, FlagBadFcs) \/ (checksum /\ Len(bytes) < 4)
           frame == IF checksum THEN Take(bytes, 4) ELSE bytes
           dst == Read(frame, 4, 6)
           src == Read(frame, 10, 6)
           body == Strip(frame, 24)
           out == Rx(buf, told, memory)
           all == FromPeer(f.ms, entry.known)
           whole == Bytes[f] \o Fcs
           b == AmsduBytes(f.ms)
<1>1. /\ f.ms \in Seq(Fitting) /\ Bytes[f] = Header(QosDataFrame, Peer, Self) \o b
      /\ b \in Buffer /\ QosDataFrame \in Nat /\ Peer \in Nat /\ Self \in Nat
      /\ Bytes[f] \in Buffer
  <2>1. f.ms \in Seq(Fitting) /\ Bytes[f] = Header(QosDataFrame, Peer, Self) \o b
    BY DataFrameBytes DEF DataKinds
  <2>2. Aggregate(f.ms) \in Buffer /\ QosControl(TRUE) \in Buffer
    BY <2>1, FittingMessages, AggregateBytes, QosControlBytes DEF Block
  <2>3. b \in Buffer
    BY <2>2, ManyBytes DEF AmsduBytes
  <2>4. QosDataFrame \in Nat /\ Peer \in Nat /\ Self \in Nat
    BY DEF QosDataFrame, Peer, Self
  <2> HIDE DEF b
  <2>5. Header(QosDataFrame, Peer, Self) \in Buffer
    BY <2>4, HeaderLayout DEF Block
  <2>6. QED
    BY <2>1, <2>3, <2>4, <2>5, ManyBytes
<1> HIDE DEF b
<1>2. CASE ~told.ok
  <2>1. out = Outcome(RxUnexpectedFormat)
    BY <1>2, Zenon DEF Rx
  <2>2. QED
    BY <2>1, Refusals, RefusedFollows
<1>3. CASE told.ok /\ failed
  <2>1. out = Outcome(RxIgnoreFailedCrc)
    BY <1>3, Zenon DEF Rx
  <2>2. QED
    BY <2>1, Refusals, RefusedFollows
<1>4. CASE told.ok /\ ~failed /\ ~Fits(frame, 0, 24)
  <2>1. out = Outcome(RxTooShort)
    BY <1>4, Zenon DEF Rx
  <2>2. QED
    BY <2>1, Refusals, RefusedFollows
<1>5. CASE told.ok /\ ~failed /\ Fits(frame, 0, 24)
  <2>1. bytes \in Buffer /\ Begins(bytes, 0, whole)
    <3>1. told.length \in 0 .. Len(buf) /\ buf \in Buffer /\ Begins(bytes, 0, whole)
      BY <1>5 DEF Carries, Measured
    <3>2. QED
      BY <3>1, StripBytes
  <2>2. checksum \in BOOLEAN /\ ~(checksum /\ Len(bytes) < 4)
    BY <1>5 DEF IsSet
  <2>3. whole \in Buffer
    BY <1>1, FcsBytes, ManyBytes
  <2> HIDE DEF bytes, checksum, whole
  <2>4. frame \in Buffer /\ Begins(frame, 0, whole)
    BY <2>1, <2>2, <2>3, FrameTaken
  <2> HIDE DEF frame
  <2>5. HeaderBegun(frame, QosDataFrame, Peer, Self, b)
    <3>1. Len(frame) >= 24
      BY <1>5, <2>4 DEF Fits, Buffer
    <3>2. Begins(frame, 0, (Header(QosDataFrame, Peer, Self) \o b) \o Fcs)
      BY <1>1, <2>4, Zenon DEF whole
    <3>3. QED
      BY <1>1, <2>4, <3>1, <3>2 DEF HeaderBegun
  <2>6. HeaderSeen(frame, QosDataFrame, Peer, b)
    BY <2>5, HeaderRead, Zenon
  <2>7. /\ ReadLE16(frame, 0) = QosDataFrame /\ src = Address(Peer)
        /\ body \in Buffer /\ Begins(body, 0, b \o Fcs)
    BY <2>6, Zenon DEF HeaderSeen
  <2>8. src # Address(Self)
    BY <2>7, AddressesDiffer DEF Peer, Self
  <2> HIDE DEF src, dst, body
  <2>9. QosDataFrame # ActionFrame
    BY DEF QosDataFrame, ActionFrame
  <2>10. out = CASE ReadLE16(frame, 0) = ActionFrame  -> RxAction(body, told.rssi, memory)
                 [] ReadLE16(frame, 0) = QosDataFrame -> RxQosData(body, src, dst)
                 [] ReadLE16(frame, 0) = DataFrame    -> RxData(body, src, dst)
                 [] OTHER -> Outcome(RxUnexpectedType)
    BY <1>5, <2>8, Zenon DEF Rx, bytes, checksum, frame, src, dst, body
  <2> HIDE DEF out
  <2>11. out = RxQosData(body, src, dst)
    <3>1. QosDataFrame # DataFrame
      BY DEF QosDataFrame, DataFrame
    <3>2. QED
      BY <2>7, <2>9, <2>10, <3>1
  <2>12. Follows(RxQosData(body, src, dst), all)
    BY <1>1, <2>7, AmsduBodyFollows DEF b
  <2>13. QED
    BY <2>11, <2>12 DEF out
<1>6. QED
  BY <1>2, <1>3, <1>4, <1>5

LEMMA ReceivedDelivers ==
  ASSUME IInv, NEW f \in SentFrames, NEW h, NEW buf, NEW told, NEW memory, NEW whole,
         Received(f, h, buf, told, memory, whole),
         memory /\ whole /\ f.kind \in DataKinds =>
           Delivers(Rx(buf, told, memory), FromPeer(f.ms, entry.known)),
         f.kind = "amsdu" => Follows(Rx(buf, told, memory), FromPeer(f.ms, entry.known))
  PROVE  DeliveredAsSent'
<1> DEFINE mark == [ frame |-> f, whole |-> whole, near |-> h[3] >= Limit ]
           o == Rx(buf, told, memory)
           all == FromPeer(f.ms, entry.known)
<1>1. /\ entry' = o.entry /\ host' = Hosted(o)
      /\ last' = IF memory /\ (whole \/ f.kind = "amsdu") THEN mark ELSE NoFrame
  BY Zenon DEF Received, Hosted
<1>2. /\ mark.frame = f /\ mark.whole = whole
  OBVIOUS
<1> HIDE DEF mark, o
<1>3. CASE last' = NoFrame
  BY <1>3 DEF DeliveredAsSent
<1>4. CASE f.kind \notin DataKinds
  <2>1. last' = NoFrame \/ last'.frame = f
    BY <1>1, <1>2
  <2>2. QED
    BY <1>4, <2>1 DEF DeliveredAsSent, DataKinds
<1>5. CASE f.kind \in DataKinds /\ last' # NoFrame
  <2>1. last' = mark /\ memory /\ (whole \/ f.kind = "amsdu")
    BY <1>1, <1>5
  <2>2. /\ whole => Delivers(o, all)
        /\ o \in Kept /\ InOrder(Hosted(o), all)
    BY <1>5, <2>1 DEF Delivers, Follows, o
  <2>3. entry' = entry
    BY <1>1, <2>2 DEF Kept
  <2>4. f.ms \in Seq(Messages) /\ entry.known \in BOOLEAN
    BY <1>5, DataFrameBytes, FittingMessages, EntryKnown DEF IInv
  <2>5. all \in Seq(Messages)
    BY <2>4, FromPeerTyped
  <2>6. host' \in Seq(Block(EtherMaxLen))
    BY <1>1, <2>2 DEF Hosted, Kept, Outcomes
  <2> DEFINE out == Hosted(o)
  <2> HIDE DEF all, out
  <2>7. DOMAIN all = 1 .. Len(all) /\ DOMAIN out = 1 .. Len(out)
    BY <1>1, <2>5, <2>6 DEF out
  <2>8. whole => Len(out) = IF \A i \in DOMAIN all : all[i].llc THEN Len(all) ELSE 0
    BY <2>2, <2>7 DEF Delivers, AllOrNone, out
  <2>9. \A i \in DOMAIN out : i <= Len(all) /\ IsPrefix(Ethernet(all[i]), out[i])
    BY <2>2, <2>7 DEF InOrder, out
  <2>10. /\ last'.frame = f /\ last'.whole = whole /\ host' = out
         /\ all = FromPeer(last'.frame.ms, entry'.known)
    BY <1>1, <1>2, <2>1, <2>3 DEF out, all
  <2>11. QED
    BY <2>8, <2>9, <2>10, Zenon DEF DeliveredAsSent
<1>6. QED
  BY <1>3, <1>4, <1>5

LEMMA ArriveDelivered ==
  ASSUME IInv, Arrive
  PROVE  DeliveredAsSent'
<1>1. PICK f \in InTheAir, h \in Headers, memory \in { entry.known, TRUE } :
      \E held \in HeldBefore(h) :
        LET bytes == IF IsSet(h[2], FlagFcs) THEN Bytes[f] \o Fcs ELSE Bytes[f]
        IN  Received(f, h, Tap[h] \o bytes, Told[h][held], memory,
                     h[1] # "bare" /\ ~IsSet(h[2], FlagBadFcs))
  BY Zenon DEF Arrive
<1>2. PICK held \in HeldBefore(h) :
        LET bytes == IF IsSet(h[2], FlagFcs) THEN Bytes[f] \o Fcs ELSE Bytes[f]
        IN  Received(f, h, Tap[h] \o bytes, Told[h][held], memory,
                     h[1] # "bare" /\ ~IsSet(h[2], FlagBadFcs))
  BY <1>1, Zenon
<1> DEFINE bytes == IF IsSet(h[2], FlagFcs) THEN Bytes[f] \o Fcs ELSE Bytes[f]
           buf == Tap[h] \o bytes
           told == Told[h][held]
           whole == h[1] # "bare" /\ ~IsSet(h[2], FlagBadFcs)
           all == FromPeer(f.ms, entry.known)
<1>3. Received(f, h, buf, told, memory, whole) /\ f \in SentFrames /\ Typed
  BY <1>2 DEF InTheAir, IInv
<1>4. held \in Held /\ told = RadiotapParse(Tap[h], held) /\ Tap[h] \in Taps
  BY TapTells, HeldTells
<1>5. ASSUME memory, whole, f.kind \in DataKinds
      PROVE  Delivers(Rx(buf, told, memory), all)
  <2>1. told = [ ok |-> TRUE, length |-> Len(Tap[h]), flags |-> h[2], rssi |-> h[3] ]
    <3>1. h[1] # "bare"
      BY <1>5
    <3>2. QED
      BY <1>4, <3>1, HeadersTell
  <2>2. memory = TRUE
    <3>1. entry.known \in BOOLEAN
      BY <1>3, EntryKnown
    <3>2. QED
      BY <1>5, <3>1
  <2>3. Rx(buf, told, memory) = Heard(Tap[h], f, h[2], h[3])
    BY <2>1, <2>2, Zenon DEF Heard
  <2>4. Tap[h] \in Buffer /\ ~IsSet(h[2], FlagBadFcs)
    BY <1>4, <1>5 DEF Taps
  <2>5. Delivers(Heard(Tap[h], f, h[2], h[3]), all)
    BY <1>3, <1>5, <2>4, WholeDelivers
  <2>6. QED
    BY <2>3, <2>5
<1>6. ASSUME f.kind = "amsdu"
      PROVE  Follows(Rx(buf, told, memory), all)
  <2>1. Bytes[f] \in Buffer
    BY <1>3, InTheAirHarmless DEF IInv
  <2>2. bytes \in Buffer /\ Begins(bytes, 0, Bytes[f] \o Fcs)
    BY <2>1, FrameBegins, Zenon
  <2> HIDE DEF bytes
  <2>3. Carries(buf, told, Bytes[f])
    BY <1>4, <2>1, <2>2, HeaderCarries
  <2> HIDE DEF buf, told, all
  <2>4. QED
    BY <1>3, <1>6, <2>3, AmsduArrives DEF all
<1> HIDE DEF buf, told, whole
<1>7. QED
  BY <1>3, <1>5, <1>6, ReceivedDelivers

LEMMA ArriveCutDelivered ==
  ASSUME IInv, ArriveCut
  PROVE  DeliveredAsSent'
<1>1. PICK f \in InTheAir, h \in Headers, cut \in Cuts :
      \E held \in HeldBefore(h) :
        /\ h[1] = "sent"
        /\ cut < Len(Bytes[f])
        /\ Received(f, h, Tap[h] \o SubSeq(Bytes[f], 1, cut), Told[h][held], TRUE, FALSE)
  BY Zenon DEF ArriveCut
<1>2. PICK held \in HeldBefore(h) :
        /\ cut < Len(Bytes[f])
        /\ Received(f, h, Tap[h] \o SubSeq(Bytes[f], 1, cut), Told[h][held], TRUE, FALSE)
  BY <1>1, Zenon
<1> DEFINE bytes == SubSeq(Bytes[f], 1, cut)
           buf == Tap[h] \o bytes
           told == Told[h][held]
<1>3. Received(f, h, buf, told, TRUE, FALSE) /\ f \in SentFrames /\ Typed
  BY <1>2 DEF InTheAir, IInv
<1>4. ASSUME f.kind = "amsdu"
      PROVE  Follows(Rx(buf, told, TRUE), FromPeer(f.ms, entry.known))
  <2>1. Bytes[f] \in Buffer /\ cut \in Nat
    BY <1>3, InTheAirHarmless, Widths DEF IInv
  <2>2. bytes \in Buffer /\ Begins(bytes, 0, Bytes[f] \o Fcs)
    BY <1>2, <2>1, FrameBegins
  <2> HIDE DEF bytes
  <2>3. Tap[h] \in Taps /\ told = RadiotapParse(Tap[h], held)
    BY TapTells, HeldTells
  <2>4. Carries(buf, told, Bytes[f])
    BY <2>1, <2>2, <2>3, HeaderCarries
  <2> HIDE DEF buf, told
  <2>5. QED
    BY <1>3, <1>4, <2>4, AmsduArrives
<1> HIDE DEF buf, told
<1>5. QED
  BY <1>3, <1>4, ReceivedDelivers

(* The host gets what was sent to it, and in its order: for any aggregate  *)
(* that the buffers have room for, with senders that are known and others, *)
(* and wherever it is cut, a subframe comes whole or not at all, none is   *)
(* left out or comes twice, and one that is no frame of this protocol keeps*)
(* them all back (rx.c:334, rx.c:372).                                     *)
THEOREM DeliveredInOrder == Spec => []DeliveredAsSent
<1> DEFINE I == IInv /\ DeliveredAsSent
<1>1. Init => I
  <2>1. Init => DeliveredAsSent
    BY DEF Init, DeliveredAsSent
  <2>2. QED
    BY <2>1, IInvInitially
<1>2. I /\ [Next]_vars => I'
  <2> SUFFICES ASSUME I, [Next]_vars PROVE DeliveredAsSent'
    BY IInvKept
  <2>1. CASE Arrive
    BY <2>1, ArriveDelivered
  <2>2. CASE ArriveCut
    BY <2>2, ArriveCutDelivered
  <2>3. CASE ArriveCutInHeader
    <3>1. PICK f \in Others :
            \E h, buf, told : Received(f, h, buf, told, TRUE, FALSE)
      BY <2>3, Zenon DEF ArriveCutInHeader
    <3>2. f.kind # "amsdu"
      <4>1. PICK k \in { "beacon", "block ack", "echo" } : f = [ kind |-> k ]
        BY DEF Others
      <4>2. QED
        BY <4>1
    <3>3. last' = NoFrame
      BY <3>1, <3>2 DEF Received
    <3>4. QED
      BY <3>3 DEF DeliveredAsSent
  <2>4. CASE Return
    BY <2>4 DEF Return, DeliveredAsSent
  <2>5. CASE Change
    BY <2>5 DEF Change, AtRest, DeliveredAsSent
  <2>6. CASE CleanPeers
    BY <2>6 DEF CleanPeers, AtRest, DeliveredAsSent
  <2>7. CASE UNCHANGED vars
    BY <2>7 DEF vars, DeliveredAsSent
  <2>8. QED
    BY <2>1, <2>2, <2>3, <2>4, <2>5, <2>6, <2>7 DEF Next
<1>3. I => DeliveredAsSent
  OBVIOUS
<1>4. QED
  BY <1>1, <1>2, <1>3, PTL DEF Spec
=============================================================================
