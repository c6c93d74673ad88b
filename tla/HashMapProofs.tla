--------------------------- MODULE HashMapProofs ---------------------------
(***************************************************************************)
(* The hash table keeps every entry where a search looks for it, counts    *)
(* them right and implements the map of its header, for every hash         *)
(* function, set of keys, initial size and length of the chains.           *)
(***************************************************************************)
EXTENDS HashMap, SequenceTheorems, FiniteSetTheorems, WellFoundedInduction, TLAPS

LEMMA Constants ==
  /\ Hash \in [ Key -> Nat ]
  /\ InitialSize \in Nat /\ InitialSize > 0 /\ MaxChain \in Nat /\ MaxChain > 0
  /\ MaxFailures \in Nat
BY HashMapAssumption

(* Every set of natural numbers that is not empty has a least element.     *)
LEMMA LeastNumber ==
  ASSUME NEW T \in SUBSET Nat, T # {}
  PROVE  \E n \in T : \A m \in T : n <= m
<1> DEFINE R == StrictSubsetOrdering(Nat)
           D == { 1 .. n : n \in T }
<1>1. IsWellFoundedOn(R, FiniteSubsetsOf(Nat))
  BY FS_StrictSubsetOrderingWellFounded
<1>2. D \subseteq FiniteSubsetsOf(Nat) /\ D # { }
  <2>1. \A n \in T : 1 .. n \in FiniteSubsetsOf(Nat)
    <3>1. ASSUME NEW n \in T PROVE IsFiniteSet(1 .. n) /\ 1 .. n \in SUBSET Nat
      BY FS_Interval
    <3>2. QED
      BY <3>1 DEF FiniteSubsetsOf
  <2>2. QED
    BY <2>1
<1>3. PICK d \in D : \A e \in D : ~(<< e, d >> \in R)
  BY <1>1, <1>2, WFMin
<1>4. PICK n \in T : d = 1 .. n
  OBVIOUS
<1>5. ASSUME NEW m \in T, m < n PROVE FALSE
  <2>1. 1 .. m \subseteq 1 .. n /\ n \in 1 .. n /\ n \notin 1 .. m
    BY <1>5
  <2>2. << 1 .. m, 1 .. n >> \in R
    BY <2>1 DEF StrictSubsetOrdering
  <2>3. QED
    BY <1>3, <1>4, <2>2
<1>6. QED
  BY <1>5

LEMMA FirstFacts ==
  ASSUME NEW S \in SUBSET Nat, S # {}
  PROVE  First(S) \in S /\ \A j \in S : First(S) <= j
<1>1. \E i \in S : \A j \in S : i <= j
  BY LeastNumber
<1>2. QED
  BY <1>1 DEF First

(* A finite set of places has an ascending sequence: by induction, on the  *)
(* least size of a table with a set of places that has none.               *)
IsAscending(f, S) ==
  /\ f \in [ 1 .. Cardinality(S) -> S ]
  /\ Range(f) = S
  /\ \A m, n \in DOMAIN f : m < n => f[m] < f[n]

LEMMA AscendingFacts ==
  ASSUME NEW top \in Nat, NEW places \in SUBSET (0 .. top - 1)
  PROVE  IsAscending(Ascending(places), places) /\ Cardinality(places) \in Nat
<1> DEFINE Bad == { n \in Nat : \E S \in SUBSET (0 .. n - 1) : ~ \E f : IsAscending(f, S) }
<1>1. Bad = {}
  <2>1. SUFFICES ASSUME Bad # {} PROVE FALSE
    OBVIOUS
  <2>2. PICK n \in Bad : \A m \in Bad : n <= m
    BY <2>1, LeastNumber
  <2>3. PICK S \in SUBSET (0 .. n - 1) : ~ \E f : IsAscending(f, S)
    BY <2>2
  <2>4. CASE n = 0
    <3>1. S = {}
      BY <2>3, <2>4
    <3>2. Cardinality(S) = 0
      BY <3>1, FS_EmptySet
    <3>3. IsAscending([ i \in {} |-> 0 ], S)
      BY <3>1, <3>2 DEF IsAscending, Range
    <3>4. QED
      BY <2>3, <3>3
  <2>5. CASE n > 0
    <3> DEFINE m == n - 1
    <3>1. m \in Nat /\ m \notin Bad
      BY <2>2, <2>5
    <3>2. \A R \in SUBSET (0 .. m - 1) : \E f : IsAscending(f, R)
      BY <3>1
    <3>3. S \ {m} \in SUBSET (0 .. m - 1)
      BY <2>2, <2>3, <3>1
    <3>4. CASE m \notin S
      BY <2>3, <3>2, <3>3, <3>4
    <3>5. CASE m \in S
      <4> DEFINE R == S \ {m}
                 c == Cardinality(R)
      <4>1. IsFiniteSet(S) /\ c \in Nat /\ Cardinality(S) = c + 1
        <5>1. IsFiniteSet(0 .. n - 1)
          BY <2>2, FS_Interval
        <5>2. IsFiniteSet(S)
          BY <2>3, <5>1, FS_Subset
        <5>3. Cardinality(R) = Cardinality(S) - 1 /\ IsFiniteSet(R)
          BY <3>5, <5>2, FS_RemoveElement
        <5>4. Cardinality(S) \in Nat /\ Cardinality(R) \in Nat
          BY <5>2, <5>3, FS_CardinalityType
        <5>5. QED
          BY <5>2, <5>3, <5>4
      <4>2. PICK f : IsAscending(f, R)
        BY <3>2, <3>3
      <4> DEFINE g == [ x \in 1 .. c + 1 |-> IF x = c + 1 THEN m ELSE f[x] ]
      <4>3. f \in [ 1 .. c -> R ] /\ Range(f) = R /\ \A a, b \in 1 .. c : a < b => f[a] < f[b]
        BY <4>2 DEF IsAscending
      <4> HIDE DEF c, R, m
      <4>4. \A x \in 1 .. c : x \in 1 .. c + 1 /\ g[x] = f[x] /\ g[x] \in R
        BY <4>1, <4>3
      <4>5. c + 1 \in 1 .. c + 1 /\ g[c + 1] = m /\ DOMAIN g = 1 .. c + 1
        BY <4>1
      <4>6. \A x \in 1 .. c + 1 : x = c + 1 \/ x \in 1 .. c
        BY <4>1
      <4>7. \A r \in R : r \in Nat /\ r < m
        BY <3>1, <3>3 DEF R, m
      <4> HIDE DEF g
      <4>8. g \in [ 1 .. Cardinality(S) -> S ]
        BY <3>5, <4>1, <4>4, <4>5, <4>6 DEF R, g
      <4>9. Range(g) = S
        <5>1. \A r \in R : \E x \in 1 .. c : f[x] = r
          BY <4>3 DEF Range
        <5>2. \A r \in R : r \in Range(g)
          BY <4>4, <4>5, <5>1 DEF Range
        <5>3. m \in Range(g)
          BY <4>5 DEF Range
        <5>4. Range(g) \subseteq S
          BY <4>1, <4>5, <4>8 DEF Range
        <5>5. QED
          BY <5>2, <5>3, <5>4 DEF R
      <4>10. ASSUME NEW a \in 1 .. c + 1, NEW b \in 1 .. c + 1, a < b PROVE g[a] < g[b]
        <5>1. a \in 1 .. c
          BY <4>1, <4>6, <4>10
        <5>2. CASE b = c + 1
          BY <4>4, <4>5, <4>7, <5>1, <5>2
        <5>3. CASE b \in 1 .. c
          BY <4>3, <4>4, <4>10, <5>1, <5>3
        <5>4. QED
          BY <4>6, <5>2, <5>3
      <4>11. IsAscending(g, S)
        BY <4>5, <4>8, <4>9, <4>10 DEF IsAscending
      <4>12. QED
        BY <2>3, <4>11
    <3>6. QED
      BY <3>4, <3>5
  <2>6. QED
    BY <2>2, <2>4, <2>5
<1>2. \E f : IsAscending(f, places)
  BY <1>1
<1>3. IsAscending(Ascending(places), places)
  BY <1>2 DEF IsAscending, Ascending
<1>4. IsFiniteSet(places)
  <2>1. IsFiniteSet(0 .. top - 1)
    BY FS_Interval
  <2>2. QED
    BY <2>1, FS_Subset
<1>5. Cardinality(places) \in Nat
  BY <1>4, FS_CardinalityType
<1>6. QED
  BY <1>3, <1>5
-----------------------------------------------------------------------------
(* The inductive invariant: with the properties, that no two entries of    *)
(* the table and of those on their way to it have the same key, and that   *)
(* no put is under way during an iteration.                                *)
DistinctKeys ==
  /\ \A i, j \in Occupied : KeyOf(slots[i]) = KeyOf(slots[j]) => i = j
  /\ \A m, n \in DOMAIN pending : KeyOf(pending[m]) = KeyOf(pending[n]) => m = n
  /\ \A i \in Occupied, n \in DOMAIN pending : KeyOf(slots[i]) # KeyOf(pending[n])

HashInv ==
  /\ TypeOK
  /\ it # NoIt => Idle
  /\ DistinctKeys
  /\ SizeIsCount
  /\ EveryEntryInChain

LEMMA EntryFacts ==
  \A e \in Entry : e # Free /\ KeyOf(e) \in Key /\ DataOf(e) \in Data
                   /\ e = << KeyOf(e), DataOf(e) >>
BY DEF Entry, Free, KeyOf, DataOf

LEMMA OccupiedFacts ==
  ASSUME TypeOK
  PROVE  /\ Occupied \subseteq 0 .. tableSize - 1
         /\ \A i \in 0 .. tableSize - 1 : i \in Occupied <=> slots[i] # Free
         /\ \A i \in Occupied : slots[i] \in Entry /\ KeyOf(slots[i]) \in Key
         /\ IsFiniteSet(Occupied) /\ Cardinality(Occupied) \in Nat
<1>1. tableSize \in Nat /\ slots \in [ 0 .. tableSize - 1 -> Entry \cup {Free} ]
  BY DEF TypeOK
<1>2. Occupied \subseteq 0 .. tableSize - 1
      /\ \A i \in 0 .. tableSize - 1 : i \in Occupied <=> slots[i] # Free
  BY <1>1 DEF Occupied
<1>3. \A i \in Occupied : slots[i] \in Entry /\ KeyOf(slots[i]) \in Key
  BY <1>1, <1>2, EntryFacts
<1>4. IsFiniteSet(Occupied)
  <2>1. IsFiniteSet(0 .. tableSize - 1)
    BY <1>1, FS_Interval
  <2>2. QED
    BY <1>2, <2>1, FS_Subset
<1>5. QED
  BY <1>2, <1>3, <1>4, FS_CardinalityType

LEMMA ChainFacts ==
  ASSUME TypeOK, NEW k \in Key, NEW i \in Nat
  PROVE  ChainAt(k, i) \in 0 .. tableSize - 1
<1>1. Hash[k] \in Nat /\ tableSize \in Nat /\ tableSize > 0
  BY Constants DEF TypeOK
<1>2. QED
  BY <1>1 DEF ChainAt

(* A search finds every entry.                                             *)
LEMMA FoundFacts ==
  ASSUME TypeOK, EveryEntryInChain, NEW k \in Key
  PROVE  LET i == ChainAt(k, First(Found(k)))
         IN  /\ Found(k) = {} <=> \A j \in Occupied : KeyOf(slots[j]) # k
             /\ Found(k) # {} => i \in Occupied /\ KeyOf(slots[i]) = k
<1>1. \A n \in Found(k) : /\ ChainAt(k, n) \in 0 .. tableSize - 1
                          /\ ChainAt(k, n) \in Occupied
                          /\ KeyOf(slots[ChainAt(k, n)]) = k
  <2>1. SUFFICES ASSUME NEW n \in Found(k)
                 PROVE  /\ ChainAt(k, n) \in 0 .. tableSize - 1
                        /\ ChainAt(k, n) \in Occupied
                        /\ KeyOf(slots[ChainAt(k, n)]) = k
    OBVIOUS
  <2>2. n \in Nat /\ Holds(ChainAt(k, n), k)
    BY <2>1, Constants DEF Found
  <2>3. ChainAt(k, n) \in 0 .. tableSize - 1
    BY <2>2, ChainFacts
  <2>4. QED
    BY <2>2, <2>3, OccupiedFacts DEF Holds
<1>2. Found(k) \in SUBSET Nat
  BY Constants DEF Found
<1>3. ASSUME NEW j \in Occupied, KeyOf(slots[j]) = k PROVE Found(k) # {}
  <2>1. PICK n \in 0 .. MaxChain - 1 : j = ChainAt(k, n)
    BY <1>3 DEF EveryEntryInChain
  <2>2. Holds(j, k)
    BY <1>3, OccupiedFacts DEF Holds
  <2>3. n \in Found(k)
    BY <2>1, <2>2 DEF Found
  <2>4. QED
    BY <2>3
<1>4. Found(k) # {} => First(Found(k)) \in Found(k)
  BY <1>2, FirstFacts
<1>5. QED
  BY <1>1, <1>3, <1>4

LEMMA HeadPending ==
  ASSUME HashInv, ~Idle
  PROVE  /\ Head(pending) \in Entry /\ KeyOf(Head(pending)) \in Key
         /\ Tail(pending) \in Seq(Entry)
         /\ Len(pending) > 0 /\ Len(Tail(pending)) = Len(pending) - 1
         /\ Head(pending) = pending[1]
         /\ \A n \in 1 .. Len(pending) - 1 : Tail(pending)[n] = pending[n + 1]
         /\ DOMAIN pending = 1 .. Len(pending)
         /\ DOMAIN Tail(pending) = 1 .. Len(pending) - 1
         /\ it = NoIt
<1>1. pending \in Seq(Entry) /\ pending # << >> /\ it = NoIt
  BY DEF HashInv, TypeOK, Idle
<1>2. /\ Head(pending) \in Entry /\ Tail(pending) \in Seq(Entry)
      /\ Len(pending) > 0 /\ Len(Tail(pending)) = Len(pending) - 1
      /\ Head(pending) = pending[1]
      /\ \A n \in 1 .. Len(pending) - 1 : Tail(pending)[n] = pending[n + 1]
      /\ DOMAIN pending = 1 .. Len(pending)
      /\ DOMAIN Tail(pending) = 1 .. Len(pending) - 1
  BY <1>1
<1>3. QED
  BY <1>1, <1>2, EntryFacts

(* The place that hashmap_hash finds is free: the key is not in the table. *)
LEMMA RoomFacts ==
  ASSUME HashInv, ~Idle, ~Full(KeyOf(Head(pending)))
  PROVE  LET k == KeyOf(Head(pending))
             i == ChainAt(k, First(Room(k)))
         IN  /\ i \in 0 .. tableSize - 1 /\ i \notin Occupied
             /\ \E j \in 0 .. MaxChain - 1 : i = ChainAt(k, j)
<1> DEFINE k == KeyOf(Head(pending))
           n == First(Room(k))
           i == ChainAt(k, n)
<1>1. TypeOK /\ k \in Key /\ \A j \in Occupied : KeyOf(slots[j]) # k
  BY HeadPending DEF HashInv, DistinctKeys
<1>2. Room(k) \in SUBSET Nat /\ Room(k) # {}
  BY Constants DEF Room, Full
<1>3. n \in Room(k)
  BY <1>2, FirstFacts
<1>4. n \in 0 .. MaxChain - 1 /\ (slots[i] = Free \/ Holds(i, k))
  BY <1>3 DEF Room
<1>5. i \in 0 .. tableSize - 1
  BY <1>1, <1>4, ChainFacts, Constants
<1> HIDE DEF k, n
<1>6. i \notin Occupied
  BY <1>1, <1>4, <1>5, OccupiedFacts DEF Holds
<1>7. QED
  BY <1>4, <1>5, <1>6 DEF k, n

LEMMA MovedFacts ==
  ASSUME TypeOK
  PROVE  /\ Moved \in Seq(Entry)
         /\ \A n \in DOMAIN Moved : \E i \in Occupied : Moved[n] = slots[i]
         /\ \A i \in Occupied : \E n \in DOMAIN Moved : Moved[n] = slots[i]
         /\ (\A i, j \in Occupied : KeyOf(slots[i]) = KeyOf(slots[j]) => i = j)
              => \A m, n \in DOMAIN Moved : KeyOf(Moved[m]) = KeyOf(Moved[n]) => m = n
<1> DEFINE f == Ascending(Occupied)
           c == Cardinality(Occupied)
<1>1. /\ f \in [ 1 .. c -> Occupied ] /\ Range(f) = Occupied
      /\ \A m, n \in DOMAIN f : m < n => f[m] < f[n]
      /\ c \in Nat
  BY OccupiedFacts, AscendingFacts DEF TypeOK, IsAscending
<1>2. Occupied \subseteq Int /\ \A i \in Occupied : slots[i] \in Entry
  BY OccupiedFacts DEF TypeOK
<1>3. Moved = [ n \in DOMAIN f |-> slots[f[n]] ]
  BY DEF Moved
<1> HIDE DEF f, c
<1>4. DOMAIN f = 1 .. c /\ DOMAIN Moved = 1 .. c
      /\ \A n \in 1 .. c : f[n] \in Occupied /\ Moved[n] = slots[f[n]] /\ Moved[n] \in Entry
  BY <1>1, <1>2, <1>3
<1>5. Moved \in Seq(Entry)
  BY <1>1, <1>3, <1>4
<1>6. \A i \in Occupied : \E n \in DOMAIN Moved : Moved[n] = slots[i]
  BY <1>1, <1>4 DEF Range
<1>7. ASSUME NEW m \in 1 .. c, NEW n \in 1 .. c, f[m] = f[n] PROVE m = n
  <2>1. f[m] \in Int /\ f[n] \in Int /\ m \in Int /\ n \in Int
    <3>1. f[m] \in Occupied /\ f[n] \in Occupied
      BY <1>4
    <3>2. c \in Int
      BY <1>1
    <3>3. m \in Int /\ n \in Int
      BY <3>2
    <3>4. QED
      BY <1>2, <3>1, <3>3
  <2>2. ~(m < n) /\ ~(n < m)
    BY <1>1, <1>4, <1>7, <2>1
  <2>3. QED
    BY <2>1, <2>2
<1>8. QED
  BY <1>4, <1>5, <1>6, <1>7

LEMMA GrowFacts ==
  ASSUME HashInv, Grow
  PROVE  /\ HashInv'
         /\ Occupied' = {} /\ pending' = Moved \o pending
         /\ UNCHANGED << it, ret >> /\ ~Idle /\ ~Idle'
<1>1. /\ ~Idle /\ tableSize' = 2 * tableSize
      /\ slots' = [ i \in 0 .. 2 * tableSize - 1 |-> Free ]
      /\ size' = 0 /\ pending' = Moved \o pending
      /\ UNCHANGED << it, ret, failures >>
  BY DEF Grow
<1>2. TypeOK /\ DistinctKeys /\ it = NoIt
  BY <1>1 DEF HashInv
<1>3. Occupied' = {}
  BY <1>1 DEF Occupied
<1>4. /\ Moved \in Seq(Entry)
      /\ \A n \in DOMAIN Moved : \E i \in Occupied : Moved[n] = slots[i]
      /\ \A m, n \in DOMAIN Moved : KeyOf(Moved[m]) = KeyOf(Moved[n]) => m = n
  BY <1>2, MovedFacts DEF DistinctKeys
<1>5. pending \in Seq(Entry) /\ pending # << >>
  BY <1>1, <1>2 DEF TypeOK, Idle
<1> DEFINE a == Moved
           b == pending
<1> HIDE DEF a, b
<1>6. /\ a \o b \in Seq(Entry) /\ Len(a \o b) = Len(a) + Len(b)
      /\ \A n \in 1 .. Len(a) : (a \o b)[n] = a[n]
      /\ \A n \in Len(a) + 1 .. Len(a) + Len(b) : (a \o b)[n] = b[n - Len(a)]
      /\ DOMAIN a = 1 .. Len(a) /\ DOMAIN b = 1 .. Len(b) /\ Len(a) \in Nat /\ Len(b) \in Nat
      /\ DOMAIN (a \o b) = 1 .. Len(a) + Len(b) /\ Len(b) > 0
  BY <1>4, <1>5 DEF a, b
<1>7. TypeOK'
  <2>1. tableSize' \in Nat \ {0} /\ slots' \in [ 0 .. tableSize' - 1 -> Entry \cup {Free} ]
    BY <1>1, <1>2 DEF TypeOK
  <2>2. pending' \in Seq(Entry)
    BY <1>1, <1>6 DEF a, b
  <2>3. QED
    BY <1>1, <1>2, <2>1, <2>2 DEF TypeOK
<1>8. ~Idle'
  BY <1>1, <1>6 DEF Idle, a, b
<1>9. DistinctKeys'
  <2> DEFINE p == a \o b
  <2>1. \A m, n \in DOMAIN p : KeyOf(p[m]) = KeyOf(p[n]) => m = n
    <3>1. SUFFICES ASSUME NEW m \in DOMAIN p, NEW n \in DOMAIN p, KeyOf(p[m]) = KeyOf(p[n])
                   PROVE  m = n
      OBVIOUS
    <3>2. \A x \in 1 .. Len(a), y \in 1 .. Len(b) : KeyOf(a[x]) # KeyOf(b[y])
      BY <1>2, <1>4, <1>6 DEF DistinctKeys, a, b
    <3>3. \A x, y \in 1 .. Len(a) : KeyOf(a[x]) = KeyOf(a[y]) => x = y
      BY <1>4, <1>6 DEF a
    <3>4. \A x, y \in 1 .. Len(b) : KeyOf(b[x]) = KeyOf(b[y]) => x = y
      BY <1>2, <1>6 DEF DistinctKeys, b
    <3>5. \A x \in DOMAIN p : \/ x \in 1 .. Len(a) /\ p[x] = a[x]
                              \/ x - Len(a) \in 1 .. Len(b) /\ p[x] = b[x - Len(a)]
      <4>1. SUFFICES ASSUME NEW x \in DOMAIN p
                     PROVE  \/ x \in 1 .. Len(a) /\ p[x] = a[x]
                            \/ x - Len(a) \in 1 .. Len(b) /\ p[x] = b[x - Len(a)]
        OBVIOUS
      <4>2. x \in 1 .. Len(a) \/ x \in Len(a) + 1 .. Len(a) + Len(b)
        BY <1>6
      <4>3. x \in Len(a) + 1 .. Len(a) + Len(b) => x - Len(a) \in 1 .. Len(b)
        BY <1>6
      <4>4. QED
        BY <1>6, <4>2, <4>3
    <3>6. DOMAIN p \subseteq Int
      BY <1>6
    <3> HIDE DEF p
    <3>7. CASE m \in 1 .. Len(a) /\ p[m] = a[m]
      BY <3>1, <3>2, <3>3, <3>5, <3>7
    <3>8. CASE m - Len(a) \in 1 .. Len(b) /\ p[m] = b[m - Len(a)]
      <4>1. n - Len(a) \in 1 .. Len(b) /\ p[n] = b[n - Len(a)]
        BY <3>1, <3>2, <3>5, <3>8
      <4>2. m - Len(a) = n - Len(a)
        BY <3>1, <3>4, <3>8, <4>1
      <4>3. m \in Int /\ n \in Int /\ Len(a) \in Int
        BY <1>6, <3>1, <3>6
      <4>4. QED
        BY <4>2, <4>3
    <3>9. QED
      BY <3>1, <3>5, <3>7, <3>8
  <2>2. pending' = p
    BY <1>1 DEF a, b
  <2> HIDE DEF p
  <2>3. QED
    BY <1>3, <2>1, <2>2 DEF DistinctKeys
<1>10. SizeIsCount' /\ EveryEntryInChain'
  BY <1>1, <1>3, FS_EmptySet DEF SizeIsCount, EveryEntryInChain
<1>11. QED
  BY <1>1, <1>2, <1>3, <1>7, <1>8, <1>9, <1>10 DEF HashInv

(* The first entry of those to be put takes a free place of its chain.     *)
LEMMA PlaceFacts ==
  ASSUME HashInv, Place
  PROVE  /\ HashInv'
         /\ ~Idle /\ pending' = Tail(pending) /\ it = NoIt /\ it' = it
         /\ ret' = IF Tail(pending) = << >> THEN Ok(DataOf(Head(pending))) ELSE ret
         /\ \E i : /\ i \notin Occupied /\ Occupied' = Occupied \cup {i}
                   /\ slots'[i] = Head(pending)
                   /\ \A j \in Occupied : slots'[j] = slots[j]
<1> DEFINE e == Head(pending)
           k == KeyOf(e)
           i == ChainAt(k, First(Room(k)))
<1>1. /\ ~Idle /\ ~Full(k) /\ slots' = [ slots EXCEPT ![i] = e ]
      /\ size' = size + 1 /\ pending' = Tail(pending)
      /\ UNCHANGED << tableSize, it, failures >>
  BY DEF Place
<1>2. /\ TypeOK /\ DistinctKeys /\ SizeIsCount /\ EveryEntryInChain
  BY DEF HashInv
<1>3. /\ e \in Entry /\ e # Free
      /\ Tail(pending) \in Seq(Entry) /\ it = NoIt
      /\ DOMAIN pending = 1 .. Len(pending) /\ Len(pending) \in Nat /\ Len(pending) > 0
      /\ DOMAIN Tail(pending) = 1 .. Len(pending) - 1
      /\ \A n \in 1 .. Len(pending) - 1 : Tail(pending)[n] = pending[n + 1]
      /\ e = pending[1]
  <2>1. pending \in Seq(Entry)
    BY <1>2 DEF TypeOK
  <2>2. Len(pending) \in Nat
    BY <2>1
  <2>3. QED
    BY <1>1, <2>2, HeadPending, EntryFacts
<1>4. i \in 0 .. tableSize - 1 /\ i \notin Occupied /\ \E j \in 0 .. MaxChain - 1 : i = ChainAt(k, j)
  BY <1>1, RoomFacts
<1>5. slots \in [ 0 .. tableSize - 1 -> Entry \cup {Free} ]
  BY <1>2 DEF TypeOK
<1> HIDE DEF e, i
<1>6. slots'[i] = e /\ \A j \in 0 .. tableSize - 1 : j # i => slots'[j] = slots[j]
  BY <1>1, <1>4, <1>5
<1>7. slots' \in [ 0 .. tableSize - 1 -> Entry \cup {Free} ]
  BY <1>1, <1>3, <1>4, <1>5
<1>8. Occupied' = Occupied \cup {i}
  BY <1>3, <1>4, <1>5, <1>6, <1>7 DEF Occupied
<1>9. \A j \in Occupied : j \in 0 .. tableSize - 1 /\ j # i /\ slots'[j] = slots[j]
  BY <1>2, <1>4, <1>6, OccupiedFacts
<1>10. TypeOK'
  BY <1>1, <1>2, <1>3, <1>7 DEF TypeOK
<1>11. DistinctKeys'
  <2> DEFINE t == Tail(pending)
  <2>1. /\ \A j \in Occupied : KeyOf(slots[j]) # k
        /\ \A n \in 1 .. Len(pending) - 1 : KeyOf(t[n]) # k
    BY <1>2, <1>3 DEF DistinctKeys, e
  <2>2. \A m, n \in 1 .. Len(pending) - 1 : KeyOf(t[m]) = KeyOf(t[n]) => m = n
    <3>1. SUFFICES ASSUME NEW m \in 1 .. Len(pending) - 1, NEW n \in 1 .. Len(pending) - 1,
                          KeyOf(t[m]) = KeyOf(t[n])
                   PROVE  m = n
      OBVIOUS
    <3>2. m + 1 = n + 1
      BY <1>2, <1>3, <3>1 DEF DistinctKeys
    <3>3. QED
      BY <1>3, <3>2
  <2>3. \A j \in Occupied, n \in 1 .. Len(pending) - 1 : KeyOf(slots[j]) # KeyOf(t[n])
    BY <1>2, <1>3 DEF DistinctKeys
  <2>4. \A j \in Occupied' : \/ j = i /\ slots'[j] = e
                             \/ j \in Occupied /\ slots'[j] = slots[j]
    BY <1>6, <1>8, <1>9
  <2>5. \A j, l \in Occupied : KeyOf(slots[j]) = KeyOf(slots[l]) => j = l
    BY <1>2 DEF DistinctKeys
  <2>6. pending' = t /\ DOMAIN t = 1 .. Len(pending) - 1
    BY <1>1, <1>3
  <2> HIDE DEF t
  <2>7. QED
    BY <2>1, <2>2, <2>3, <2>4, <2>5, <2>6 DEF DistinctKeys
<1>12. SizeIsCount'
  BY <1>1, <1>2, <1>4, <1>8, OccupiedFacts, FS_AddElement DEF SizeIsCount
<1>13. EveryEntryInChain'
  <2>1. SUFFICES ASSUME NEW j \in Occupied'
                 PROVE  \E n \in 0 .. MaxChain - 1 : j = ChainAt(KeyOf(slots'[j]), n)
    BY <1>1, Zenon DEF EveryEntryInChain, ChainAt
  <2>3. CASE j = i
    BY <1>4, <1>6, <2>3
  <2>4. CASE j \in Occupied
    <3>1. PICK n \in 0 .. MaxChain - 1 : j = ChainAt(KeyOf(slots[j]), n)
      BY <1>2, <2>4 DEF EveryEntryInChain
    <3>2. slots'[j] = slots[j]
      BY <1>9, <2>4
    <3>3. QED
      BY <3>1, <3>2
  <2>5. QED
    BY <1>8, <2>3, <2>4
<1>14. it' = NoIt
  BY <1>1, <1>3
<1>15. ret' = IF Tail(pending) = << >> THEN Ok(DataOf(Head(pending))) ELSE ret
  BY DEF Place
<1>16. QED
  BY <1>1, <1>3, <1>4, <1>6, <1>8, <1>9, <1>10, <1>11, <1>12, <1>13, <1>14, <1>15 DEF HashInv, e

(* Removal frees one place and leaves the others.                          *)
LEMMA ClearFacts ==
  ASSUME HashInv, NEW i \in Occupied, Clear(i), Idle,
         UNCHANGED << tableSize, pending, it, failures >>
  PROVE  /\ HashInv'
         /\ Occupied' = Occupied \ {i}
         /\ \A j \in Occupied' : slots'[j] = slots[j]
         /\ ret' = Ok(DataOf(slots[i]))
<1>1. /\ slots' = [ slots EXCEPT ![i] = Free ] /\ size' = size - 1
      /\ ret' = Ok(DataOf(slots[i]))
  BY DEF Clear
<1>2. /\ TypeOK /\ DistinctKeys /\ SizeIsCount /\ EveryEntryInChain
      /\ slots \in [ 0 .. tableSize - 1 -> Entry \cup {Free} ]
  BY DEF HashInv, TypeOK
<1>3. i \in 0 .. tableSize - 1
  BY <1>2, OccupiedFacts
<1>4. slots'[i] = Free /\ \A j \in 0 .. tableSize - 1 : j # i => slots'[j] = slots[j]
  BY <1>1, <1>2, <1>3
<1>5. slots' \in [ 0 .. tableSize - 1 -> Entry \cup {Free} ]
  BY <1>1, <1>2, <1>3
<1>6. Occupied' = Occupied \ {i}
  BY <1>2, <1>3, <1>4, <1>5 DEF Occupied
<1>7. \A j \in Occupied' : j \in Occupied /\ slots'[j] = slots[j]
  BY <1>2, <1>4, <1>6, OccupiedFacts
<1>8. TypeOK'
  BY <1>1, <1>2, <1>5 DEF TypeOK
<1>9. DistinctKeys'
  BY <1>2, <1>7 DEF DistinctKeys
<1>10. SizeIsCount'
  BY <1>1, <1>2, <1>6, OccupiedFacts, FS_RemoveElement DEF SizeIsCount
<1>11. EveryEntryInChain'
  <2>1. SUFFICES ASSUME NEW j \in Occupied'
                 PROVE  \E n \in 0 .. MaxChain - 1 : j = ChainAt(KeyOf(slots'[j]), n)
    BY Zenon DEF EveryEntryInChain, ChainAt
  <2>2. j \in Occupied /\ slots'[j] = slots[j]
    BY <1>7
  <2>3. QED
    BY <1>2, <2>2 DEF EveryEntryInChain
<1>12. Idle'
  BY DEF Idle
<1>13. QED
  BY <1>1, <1>6, <1>7, <1>8, <1>9, <1>10, <1>11, <1>12 DEF HashInv

(* What leaves the table alone keeps the invariant.                        *)
LEMMA TableUnchanged ==
  ASSUME HashInv, UNCHANGED << tableSize, slots, size, pending, failures >>,
         it' \in {NoIt} \cup -1 .. tableSize, it' # NoIt => Idle
  PROVE  HashInv' /\ Occupied' = Occupied
<1>1. Occupied' = Occupied
  BY DEF Occupied
<1>2. TypeOK' /\ (it' # NoIt => Idle')
  BY DEF HashInv, TypeOK, Idle
<1>3. DistinctKeys'
  BY <1>1 DEF HashInv, DistinctKeys
<1>4. SizeIsCount' /\ EveryEntryInChain'
  BY <1>1 DEF HashInv, SizeIsCount, EveryEntryInChain, ChainAt
<1>5. QED
  BY <1>1, <1>2, <1>3, <1>4 DEF HashInv

LEMMA PutFacts ==
  ASSUME HashInv, NEW k \in Key, NEW data \in Data, Put(k, data)
  PROVE  HashInv' /\ Occupied' = Occupied
<1>1. /\ Idle /\ it = NoIt /\ Found(k) = {}
      /\ pending' = << << k, data >> >>
      /\ UNCHANGED << tableSize, slots, size, it, ret, failures >>
  BY DEF Put
<1>2. TypeOK /\ DistinctKeys /\ SizeIsCount /\ EveryEntryInChain
  BY DEF HashInv
<1>3. \A j \in Occupied : KeyOf(slots[j]) # k
  BY <1>1, <1>2, FoundFacts
<1>4. << k, data >> \in Entry /\ KeyOf(<< k, data >>) = k
  BY DEF Entry, KeyOf
<1> DEFINE e == << k, data >>
<1> HIDE DEF e
<1>5. << e >> \in Seq(Entry) /\ DOMAIN << e >> = {1} /\ << e >>[1] = e
  BY <1>4 DEF e
<1>6. Occupied' = Occupied
  BY <1>1 DEF Occupied
<1>7. TypeOK'
  BY <1>1, <1>2, <1>5 DEF TypeOK, e
<1>8. pending' = << e >> /\ slots' = slots
  BY <1>1 DEF e
<1>9. KeyOf(e) = k
  BY <1>4 DEF e
<1>10. DistinctKeys'
  <2>1. \A m \in DOMAIN pending' : m = 1 /\ KeyOf(pending'[m]) = k
    BY <1>5, <1>8, <1>9
  <2>2. QED
    BY <1>2, <1>3, <1>6, <1>8, <2>1 DEF DistinctKeys
<1>11. SizeIsCount' /\ EveryEntryInChain'
  BY <1>1, <1>2, <1>6 DEF SizeIsCount, EveryEntryInChain, ChainAt
<1>12. QED
  BY <1>1, <1>6, <1>7, <1>10, <1>11 DEF HashInv

LEMMA GrowFailsFacts ==
  ASSUME HashInv, GrowFails
  PROVE  HashInv' /\ Occupied' = Occupied
<1>1. /\ ~Idle /\ failures < MaxFailures /\ failures' = failures + 1
      /\ pending' = << >>
      /\ UNCHANGED << tableSize, slots, size, it >>
  BY DEF GrowFails
<1>2. TypeOK /\ DistinctKeys /\ SizeIsCount /\ EveryEntryInChain
  BY DEF HashInv
<1>3. Occupied' = Occupied
  BY <1>1 DEF Occupied
<1>4. TypeOK'
  BY <1>1, <1>2, Constants DEF TypeOK
<1>5. DistinctKeys'
  BY <1>1, <1>2, <1>3 DEF DistinctKeys
<1>6. SizeIsCount' /\ EveryEntryInChain'
  BY <1>1, <1>2, <1>3 DEF SizeIsCount, EveryEntryInChain, ChainAt
<1>7. QED
  BY <1>1, <1>3, <1>4, <1>5, <1>6 DEF HashInv, Idle

(* The entries an iterator has still to pass, and the next one.            *)
LEMMA AheadFacts ==
  ASSUME HashInv, it # NoIt
  PROVE  /\ Ahead = {} \/ (First(Ahead) \in Ahead /\ \A i \in Ahead : First(Ahead) <= i)
         /\ Ahead \subseteq Occupied /\ Ahead \subseteq 0 .. tableSize - 1
         /\ it \in -1 .. tableSize
<1>1. TypeOK /\ tableSize \in Nat
  BY DEF HashInv, TypeOK
<1>2. Ahead \subseteq Occupied /\ Occupied \subseteq 0 .. tableSize - 1
  BY <1>1, OccupiedFacts DEF Ahead
<1>3. Ahead \in SUBSET Nat
  BY <1>1, <1>2
<1>4. Ahead = {} \/ (First(Ahead) \in Ahead /\ \A i \in Ahead : First(Ahead) <= i)
  BY <1>3, FirstFacts
<1>5. it \in -1 .. tableSize
  BY <1>1 DEF TypeOK
<1>6. QED
  BY <1>2, <1>4, <1>5

LEMMA InitInv == Init => HashInv
<1> SUFFICES ASSUME Init PROVE HashInv
  OBVIOUS
<1>1. /\ tableSize = InitialSize /\ slots = [ i \in 0 .. InitialSize - 1 |-> Free ]
      /\ size = 0 /\ pending = << >> /\ it = NoIt /\ failures = 0
  BY DEF Init
<1>2. Occupied = {}
  BY <1>1 DEF Occupied
<1>3. TypeOK
  BY <1>1, Constants DEF TypeOK
<1>4. QED
  BY <1>1, <1>2, <1>3, FS_EmptySet DEF HashInv, DistinctKeys, SizeIsCount, EveryEntryInChain

(* What the iterator does.                                                 *)
LEMMA ItNextFacts ==
  ASSUME HashInv, ItNext
  PROVE  HashInv' /\ Occupied' = Occupied
<1>1. /\ Idle /\ it # NoIt
      /\ it' = IF Ahead = {} THEN tableSize ELSE First(Ahead)
      /\ UNCHANGED << tableSize, slots, size, pending, failures >>
  BY DEF ItNext
<1>2. it' \in -1 .. tableSize
  <2>1. tableSize \in Nat
    BY DEF HashInv, TypeOK
  <2>2. QED
    BY <1>1, <2>1, AheadFacts
<1>3. QED
  BY <1>1, <1>2, TableUnchanged

LEMMA GetAndRemoveFacts ==
  ASSUME HashInv, NEW k \in Key, GetAndRemove(k)
  PROVE  HashInv'
<1>1. /\ Idle /\ it = NoIt /\ UNCHANGED << tableSize, pending, it, failures >>
  BY DEF GetAndRemove
<1>2. CASE Found(k) = {}
  <2>1. UNCHANGED << slots, size >>
    BY <1>2 DEF GetAndRemove
  <2>2. QED
    BY <1>1, <2>1, TableUnchanged
<1>3. CASE Found(k) # {}
  <2> DEFINE i == ChainAt(k, First(Found(k)))
  <2>1. i \in Occupied
    BY <1>3, FoundFacts DEF HashInv
  <2>2. Clear(i)
    BY <1>3 DEF GetAndRemove
  <2> HIDE DEF i
  <2>3. QED
    BY <1>1, <2>1, <2>2, ClearFacts
<1>4. QED
  BY <1>2, <1>3

LEMMA ItRemoveFacts ==
  ASSUME HashInv, ItRemove
  PROVE  HashInv'
<1>1. /\ Idle /\ it # NoIt /\ UNCHANGED << tableSize, pending, it, failures >>
  BY DEF ItRemove
<1>2. CASE it \notin Occupied
  <2>1. UNCHANGED << slots, size >>
    BY <1>2 DEF ItRemove
  <2>2. it' \in {NoIt} \cup -1 .. tableSize
    BY <1>1 DEF HashInv, TypeOK
  <2>3. QED
    BY <1>1, <2>1, <2>2, TableUnchanged
<1>3. CASE it \in Occupied
  <2>1. Clear(it)
    BY <1>3 DEF ItRemove
  <2>2. QED
    BY <1>1, <1>3, <2>1, ClearFacts
<1>4. QED
  BY <1>2, <1>3

LEMMA StepInv == HashInv /\ [Next]_vars => HashInv'
<1> SUFFICES ASSUME HashInv, [Next]_vars PROVE HashInv'
  OBVIOUS
<1> USE DEF NoIt
<1>1. it \in {NoIt} \cup -1 .. tableSize /\ tableSize \in Nat
  BY DEF HashInv, TypeOK
<1>2. ASSUME NEW k \in Key, Get(k) PROVE HashInv'
  BY <1>1, <1>2, TableUnchanged DEF Get
<1>3. ASSUME NEW k \in Key, GetAndRemove(k) PROVE HashInv'
  BY <1>3, GetAndRemoveFacts
<1>4. ASSUME NEW k \in Key, NEW data \in Data, Put(k, data) PROVE HashInv'
  BY <1>4, PutFacts
<1>5. CASE Grow
  BY <1>5, GrowFacts
<1>6. CASE GrowFails
  BY <1>6, GrowFailsFacts
<1>7. CASE Place
  BY <1>7, PlaceFacts
<1>8. CASE ItNew
  BY <1>1, <1>8, TableUnchanged DEF ItNew
<1>9. CASE ItNext
  BY <1>9, ItNextFacts
<1>10. CASE ItRemove
  BY <1>10, ItRemoveFacts
<1>11. CASE ItFree
  BY <1>1, <1>11, TableUnchanged DEF ItFree
<1>12. CASE UNCHANGED vars
  <2>1. it' \in {NoIt} \cup -1 .. tableSize /\ (it' # NoIt => Idle)
    BY <1>1, <1>12 DEF vars, HashInv
  <2>2. QED
    BY <1>12, <2>1, TableUnchanged DEF vars
<1>13. QED
  BY <1>2, <1>3, <1>4, <1>5, <1>6, <1>7, <1>8, <1>9, <1>10, <1>11, <1>12 DEF Next

(* The invariant: after every step of a call, keys are distinct in table   *)
(* and moves together, counted, and where a search looks for them.         *)
THEOREM HashInvariant == Spec => []HashInv
<1>1. QED
  BY InitInv, StepInv, PTL DEF Spec

(* The table has as many slots as its size says, holds nothing but entries *)
(* of known keys, and the iterator never runs past its end.                *)
THEOREM HashTypeCorrect == Spec => []TypeOK
<1>1. HashInv => TypeOK
  BY DEF HashInv
<1>2. QED
  BY <1>1, HashInvariant, PTL

(* No path through put, growth, removal or iteration counts an entry twice *)
(* or never, which would keep the table from growing in time.              *)
THEOREM CountedRight == Spec => []SizeIsCount
<1>1. HashInv => SizeIsCount
  BY DEF HashInv
<1>2. QED
  BY <1>1, HashInvariant, PTL

(* No removal and no growth puts an entry out of reach of a search.        *)
THEOREM AlwaysReachable == Spec => []EveryEntryInChain
<1>1. HashInv => EveryEntryInChain
  BY DEF HashInv
<1>2. QED
  BY <1>1, HashInvariant, PTL
-----------------------------------------------------------------------------
(* The table implements the map of hashmap.h.  MapOf(S) is the map that    *)
(* the entries S stand for, if no two of them have the same key.           *)
MapOf(S) == [ k \in { KeyOf(e) : e \in S } |-> DataOf(CHOOSE e \in S : KeyOf(e) = k) ]
Unlike(S) == \A d, e \in S : KeyOf(d) = KeyOf(e) => d = e

LEMMA MapOfFacts ==
  ASSUME NEW S, Unlike(S)
  PROVE  /\ DOMAIN MapOf(S) = { KeyOf(e) : e \in S }
         /\ \A e \in S : MapOf(S)[KeyOf(e)] = DataOf(e)
<1>1. DOMAIN MapOf(S) = { KeyOf(e) : e \in S }
  BY DEF MapOf
<1>2. ASSUME NEW e \in S PROVE MapOf(S)[KeyOf(e)] = DataOf(e)
  <2> DEFINE d == CHOOSE x \in S : KeyOf(x) = KeyOf(e)
  <2>1. d \in S /\ KeyOf(d) = KeyOf(e)
    OBVIOUS
  <2>2. d = e
    BY <2>1 DEF Unlike
  <2>3. MapOf(S)[KeyOf(e)] = DataOf(d)
    BY DEF MapOf
  <2>4. QED
    BY <2>2, <2>3
<1>3. QED
  BY <1>1, <1>2

(* With an entry more, and with some of the entries only.                  *)
With(f, e) == [ q \in DOMAIN f \cup {KeyOf(e)} |-> IF q = KeyOf(e) THEN DataOf(e) ELSE f[q] ]

LEMMA MapOfMore ==
  ASSUME NEW S, NEW e, Unlike(S), KeyOf(e) \notin DOMAIN MapOf(S)
  PROVE  MapOf(S \cup {e}) = With(MapOf(S), e)
<1> DEFINE T == S \cup {e}
           f == MapOf(T)
           g == [ q \in DOMAIN MapOf(S) \cup {KeyOf(e)} |->
                    IF q = KeyOf(e) THEN DataOf(e) ELSE MapOf(S)[q] ]
<1>1. Unlike(T)
  <2>1. \A d \in S : KeyOf(d) # KeyOf(e)
    BY DEF MapOf
  <2>2. QED
    BY <2>1 DEF Unlike
<1>2. /\ DOMAIN f = { KeyOf(d) : d \in T }
      /\ \A d \in T : f[KeyOf(d)] = DataOf(d)
  BY <1>1, MapOfFacts
<1>3. /\ DOMAIN MapOf(S) = { KeyOf(d) : d \in S }
      /\ \A d \in S : MapOf(S)[KeyOf(d)] = DataOf(d)
  BY MapOfFacts
<1>4. DOMAIN f = DOMAIN g
  BY <1>2, <1>3
<1>5. ASSUME NEW q \in DOMAIN f PROVE f[q] = g[q]
  <2>1. PICK d \in T : q = KeyOf(d)
    BY <1>2
  <2>2. CASE d = e
    BY <1>2, <2>1, <2>2
  <2>3. CASE d \in S
    BY <1>2, <1>3, <2>1, <2>3
  <2>4. QED
    BY <2>2, <2>3
<1>6. f = [ q \in DOMAIN f |-> f[q] ]
  BY DEF MapOf
<1> HIDE DEF f
<1>7. QED
  BY <1>4, <1>5, <1>6 DEF f, With

LEMMA MapOfSome ==
  ASSUME NEW S, NEW R \in SUBSET S, Unlike(S)
  PROVE  /\ MapOf(R) = [ q \in { KeyOf(d) : d \in R } |-> MapOf(S)[q] ]
         /\ { KeyOf(d) : d \in R } \subseteq DOMAIN MapOf(S)
<1>1. Unlike(R)
  BY DEF Unlike
<1>2. /\ DOMAIN MapOf(R) = { KeyOf(d) : d \in R }
      /\ \A d \in R : MapOf(R)[KeyOf(d)] = DataOf(d)
  BY <1>1, MapOfFacts
<1>3. /\ DOMAIN MapOf(S) = { KeyOf(d) : d \in S }
      /\ \A d \in S : MapOf(S)[KeyOf(d)] = DataOf(d)
  BY MapOfFacts
<1>4. \A q \in DOMAIN MapOf(R) : MapOf(R)[q] = MapOf(S)[q]
  BY <1>2, <1>3
<1>5. MapOf(R) = [ q \in DOMAIN MapOf(R) |-> MapOf(R)[q] ]
  BY DEF MapOf
<1>6. QED
  BY <1>2, <1>3, <1>4, <1>5

(* The entries of the map, in the table and among those to be put.         *)
LEMMA MapIsMapOf == Map = MapOf(Stored) /\ Map' = MapOf(Stored')
BY DEF Map, MapOf, EntryOf

LEMMA FrontFacts ==
  ASSUME NEW s \in Seq(Entry), s # << >>
  PROVE  Range(Front(s)) = { s[n] : n \in 1 .. Len(s) - 1 }
<1>1. Len(s) \in Nat /\ Len(s) > 0
  OBVIOUS
<1>2. /\ DOMAIN Front(s) = 1 .. Len(s) - 1
      /\ \A n \in 1 .. Len(s) - 1 : Front(s)[n] = s[n]
  BY <1>1 DEF Front
<1>3. QED
  BY <1>2 DEF Range

LEMMA StoredFacts ==
  ASSUME HashInv
  PROVE  /\ Unlike(Stored)
         /\ Idle => Stored = { slots[i] : i \in Occupied }
         /\ ~Idle => Stored = { slots[i] : i \in Occupied }
                                \cup { pending[n] : n \in 1 .. Len(pending) - 1 }
<1>1. pending \in Seq(Entry) /\ DistinctKeys
  BY DEF HashInv, TypeOK
<1>2. ASSUME Idle PROVE Stored = { slots[i] : i \in Occupied }
  BY <1>2 DEF Stored, Range
<1>3. ASSUME ~Idle PROVE Stored = { slots[i] : i \in Occupied }
                                \cup { pending[n] : n \in 1 .. Len(pending) - 1 }
  BY <1>1, <1>3, FrontFacts DEF Stored, Idle
<1>4. CASE Idle
  BY <1>1, <1>2, <1>4 DEF Unlike, DistinctKeys
<1>5. CASE ~Idle
  <2>1. 1 .. Len(pending) - 1 \subseteq DOMAIN pending
    BY <1>1
  <2>2. QED
    BY <1>1, <1>3, <1>5, <2>1 DEF Unlike, DistinctKeys
<1>6. QED
  BY <1>2, <1>3, <1>4, <1>5

StoredIs ==
  /\ Unlike(Stored)
  /\ Idle => Stored = { slots[i] : i \in Occupied }
  /\ ~Idle => Stored = { slots[i] : i \in Occupied }
                         \cup { pending[n] : n \in 1 .. Len(pending) - 1 }
  /\ Occupied \subseteq 0 .. tableSize - 1
  /\ it = NoIt => { KeyOf(slots[i]) : i \in Occupied \cap {it} } = {}

LEMMA StoredNow == HashInv => StoredIs
BY StoredFacts, OccupiedFacts DEF StoredIs, HashInv, NoIt

LEMMA StoredNext == HashInv' => StoredIs'
BY StoredNow, PTL

LEMMA PutStutters ==
  ASSUME HashInv, NEW k \in Key, NEW data \in Data, Put(k, data)
  PROVE  UNCHANGED Abstract!vars
<1>1. /\ Idle /\ it = NoIt /\ pending' = << << k, data >> >>
      /\ UNCHANGED << slots, it, ret >>
  BY DEF Put
<1>2. HashInv' /\ Occupied' = Occupied
  BY PutFacts
<1>3. ~Idle' /\ Len(pending') = 1 /\ 1 .. Len(pending') - 1 = {}
  BY <1>1 DEF Idle
<1>4. Stored' = Stored
  BY <1>1, <1>2, <1>3, StoredNow, StoredNext DEF StoredIs
<1>5. Map' = Map
  BY <1>4, MapIsMapOf
<1>6. QED
  BY <1>1, <1>2, <1>5 DEF Abstract!vars

LEMMA GrowStutters ==
  ASSUME HashInv, Grow
  PROVE  UNCHANGED Abstract!vars
<1>1. /\ HashInv' /\ Occupied' = {} /\ pending' = Moved \o pending
      /\ UNCHANGED << it, ret >> /\ ~Idle /\ ~Idle' /\ it = NoIt
  BY GrowFacts DEF HashInv
<1>2. /\ Moved \in Seq(Entry) /\ pending \in Seq(Entry) /\ pending # << >>
      /\ \A n \in DOMAIN Moved : \E i \in Occupied : Moved[n] = slots[i]
      /\ \A i \in Occupied : \E n \in DOMAIN Moved : Moved[n] = slots[i]
  BY <1>1, MovedFacts DEF HashInv, TypeOK, Idle
<1> DEFINE a == Moved
           b == pending
<1> HIDE DEF a, b
<1>3. /\ Len(a \o b) = Len(a) + Len(b)
      /\ \A n \in 1 .. Len(a) : (a \o b)[n] = a[n]
      /\ \A n \in Len(a) + 1 .. Len(a) + Len(b) : (a \o b)[n] = b[n - Len(a)]
      /\ DOMAIN a = 1 .. Len(a) /\ Len(a) \in Nat /\ Len(b) \in Nat /\ Len(b) > 0
  BY <1>2 DEF a, b
<1> DEFINE table == { slots[i] : i \in Occupied }
           rest == { b[n] : n \in 1 .. Len(b) - 1 }
           all == { (a \o b)[n] : n \in 1 .. Len(a) + Len(b) - 1 }
<1>4. Stored = table \cup rest
  BY <1>1, StoredNow DEF StoredIs, b
<1>5. Stored' = all
  BY <1>1, <1>3, StoredNext DEF StoredIs, a, b
<1>6. all \subseteq table \cup rest
  <2>1. SUFFICES ASSUME NEW n \in 1 .. Len(a) + Len(b) - 1
                 PROVE  (a \o b)[n] \in table \cup rest
    OBVIOUS
  <2>2. CASE n \in 1 .. Len(a)
    BY <1>2, <1>3, <2>2 DEF a
  <2>3. CASE n \notin 1 .. Len(a)
    <3>1. n - Len(a) \in 1 .. Len(b) - 1 /\ n \in Len(a) + 1 .. Len(a) + Len(b)
      BY <1>3, <2>3
    <3>2. QED
      BY <1>3, <3>1
  <2>4. QED
    BY <2>2, <2>3
<1>7. table \subseteq all
  <2>1. SUFFICES ASSUME NEW i \in Occupied PROVE slots[i] \in all
    OBVIOUS
  <2>2. PICK n \in 1 .. Len(a) : a[n] = slots[i]
    BY <1>2, <1>3 DEF a
  <2>3. n \in 1 .. Len(a) + Len(b) - 1
    BY <1>3
  <2>4. QED
    BY <1>3, <2>2, <2>3
<1>8. rest \subseteq all
  <2>1. SUFFICES ASSUME NEW n \in 1 .. Len(b) - 1 PROVE b[n] \in all
    OBVIOUS
  <2>2. /\ n + Len(a) \in 1 .. Len(a) + Len(b) - 1
        /\ n + Len(a) \in Len(a) + 1 .. Len(a) + Len(b) /\ n + Len(a) - Len(a) = n
    BY <1>3
  <2>3. QED
    BY <1>3, <2>2
<1>9. Stored' = Stored
  BY <1>4, <1>5, <1>6, <1>7, <1>8
<1>10. Map' = Map
  BY <1>9, MapIsMapOf
<1>11. UNCHANGED { KeyOf(slots[i]) : i \in Occupied \cap {it} }
  BY <1>1, StoredNow, StoredNext DEF StoredIs
<1>12. QED
  BY <1>1, <1>10, <1>11 DEF Abstract!vars

LEMMA PlaceIsPut ==
  ASSUME HashInv, Place
  PROVE  UNCHANGED Abstract!vars \/ \E k \in Key, data \in Data : Abstract!Put(k, data)
<1> DEFINE e == Head(pending)
           t == Tail(pending)
           table == { slots[j] : j \in Occupied }
<1>1. /\ HashInv' /\ ~Idle /\ pending' = t /\ it = NoIt /\ it' = it
      /\ ret' = IF t = << >> THEN Ok(DataOf(e)) ELSE ret
  BY PlaceFacts
<1>2. PICK i : /\ i \notin Occupied /\ Occupied' = Occupied \cup {i} /\ slots'[i] = e
               /\ \A j \in Occupied : slots'[j] = slots[j]
  BY PlaceFacts
<1>3. /\ e \in Entry /\ t \in Seq(Entry) /\ Len(pending) \in Nat /\ Len(pending) > 0
      /\ Len(t) = Len(pending) - 1 /\ e = pending[1]
      /\ \A n \in 1 .. Len(pending) - 1 : t[n] = pending[n + 1]
  <2>1. pending \in Seq(Entry)
    BY DEF HashInv, TypeOK
  <2>2. Len(pending) \in Nat
    BY <2>1
  <2>3. QED
    BY <1>1, <2>2, HeadPending
<1> HIDE DEF e, t
<1>4. { slots'[j] : j \in Occupied' } = table \cup {e}
  BY <1>2
<1>5. Stored = table \cup { pending[n] : n \in 1 .. Len(pending) - 1 }
  BY <1>1, StoredNow DEF StoredIs
<1>6. Unlike(Stored) /\ UNCHANGED { KeyOf(slots[j]) : j \in Occupied \cap {it} }
  BY <1>1, StoredNow, StoredNext DEF StoredIs
<1>7. CASE t = << >>
  <2>1. Len(pending) = 1 /\ Idle'
    BY <1>1, <1>3, <1>7 DEF Idle
  <2>2. 1 .. Len(pending) - 1 = {}
    BY <2>1
  <2>3. Stored = table /\ Stored' = table \cup {e}
    BY <1>1, <1>4, <1>5, <2>1, <2>2, StoredNext DEF StoredIs
  <2>4. \A d \in Stored : KeyOf(d) # KeyOf(e)
    <3>1. 1 \in DOMAIN pending
      BY <1>3, <2>1, HeadPending, <1>1
    <3>2. QED
      BY <1>3, <2>3, <3>1 DEF HashInv, DistinctKeys
  <2>5. KeyOf(e) \notin DOMAIN MapOf(Stored)
    <3>1. DOMAIN MapOf(Stored) = { KeyOf(d) : d \in Stored }
      BY <1>6, MapOfFacts, Zenon
    <3>2. QED
      BY <2>4, <3>1
  <2>6. MapOf(Stored') = With(MapOf(Stored), e)
    <3>1. MapOf(Stored \cup {e}) = With(MapOf(Stored), e)
      BY <1>6, <2>5, MapOfMore, Zenon
    <3>2. Stored' = Stored \cup {e}
      BY <2>3
    <3>3. QED
      BY <3>1, <3>2, Zenon
  <2>7. KeyOf(e) \in Key /\ DataOf(e) \in Data
    BY <1>3, EntryFacts
  <2>8. Abstract!Put(KeyOf(e), DataOf(e))
    BY <1>1, <1>6, <1>7, <2>5, <2>6, <2>7, MapIsMapOf
    DEF Abstract!Put, Abstract!NoIterator, Abstract!Ok, Ok, With
  <2>9. QED
    BY <2>7, <2>8
<1>8. CASE t # << >>
  <2>1. Len(t) > 0
    BY <1>3, <1>8
  <2>2. Len(pending) - 1 \in Nat /\ Len(pending) - 1 > 0 /\ ~Idle'
    BY <1>1, <1>3, <1>8, <2>1 DEF Idle
  <2>3. Stored' = table \cup {e} \cup { t[n] : n \in 1 .. Len(pending) - 2 }
    <3>1. Len(t) - 1 = Len(pending) - 2
      BY <1>3
    <3>2. QED
      BY <1>1, <1>4, <2>2, <3>1, StoredNext DEF StoredIs
  <2>4. { pending[n] : n \in 1 .. Len(pending) - 1 }
          = {e} \cup { t[n] : n \in 1 .. Len(pending) - 2 }
    <3>1. ASSUME NEW n \in 1 .. Len(pending) - 1
          PROVE  pending[n] \in {e} \cup { t[m] : m \in 1 .. Len(pending) - 2 }
      <4>1. CASE n = 1
        BY <1>3, <4>1
      <4>2. CASE n # 1
        <5>1. n - 1 \in 1 .. Len(pending) - 2 /\ n - 1 \in 1 .. Len(pending) - 1
              /\ n - 1 + 1 = n
          BY <1>3, <4>2
        <5>2. t[n - 1] = pending[n]
          BY <1>3, <5>1
        <5>3. QED
          BY <5>1, <5>2
      <4>3. QED
        BY <4>1, <4>2
    <3>2. ASSUME NEW n \in 1 .. Len(pending) - 2
          PROVE  t[n] \in { pending[m] : m \in 1 .. Len(pending) - 1 }
      <4>1. n \in 1 .. Len(pending) - 1 /\ n + 1 \in 1 .. Len(pending) - 1
        BY <1>3
      <4>2. QED
        BY <1>3, <4>1
    <3>3. e \in { pending[m] : m \in 1 .. Len(pending) - 1 }
      BY <1>3, <2>2
    <3>4. QED
      BY <3>1, <3>2, <3>3
  <2>5. Stored' = Stored
    BY <1>5, <2>3, <2>4
  <2>6. Map' = Map
    BY <2>5, MapIsMapOf
  <2>7. QED
    BY <1>1, <1>6, <1>8, <2>6 DEF Abstract!vars
<1>9. QED
  BY <1>7, <1>8

LEMMA GrowFailsIsPutFails ==
  ASSUME HashInv, GrowFails
  PROVE  Abstract!PutFails
<1>1. ~Idle /\ pending' = << >> /\ ret' = OutOfMemory /\ it' = it /\ slots' = slots
  BY DEF GrowFails
<1>2. HashInv' /\ Occupied' = Occupied /\ it = NoIt /\ Idle'
  BY <1>1, GrowFailsFacts DEF HashInv, Idle
<1>3. Stored' \subseteq Stored /\ Unlike(Stored)
  BY <1>1, <1>2, StoredNow, StoredNext DEF StoredIs
<1> DEFINE kept == { KeyOf(e) : e \in Stored' }
<1>4. MapOf(Stored') = [ q \in kept |-> MapOf(Stored)[q] ] /\ kept \subseteq DOMAIN MapOf(Stored)
  BY <1>3, MapOfSome
<1>5. UNCHANGED { KeyOf(slots[j]) : j \in Occupied \cap {it} }
  BY <1>1, <1>2
<1> HIDE DEF kept
<1>6. \E ks \in SUBSET DOMAIN Map : Map' = [ q \in ks |-> Map[q] ]
  BY <1>4, MapIsMapOf
<1>7. QED
  BY <1>1, <1>2, <1>5, <1>6
  DEF Abstract!PutFails, Abstract!NoIterator, Abstract!OutOfMemory, OutOfMemory

(* Without a put under way the map is what the table holds.                *)
LEMMA IdleMapFacts ==
  ASSUME HashInv, Idle
  PROVE  /\ DOMAIN Map = { KeyOf(slots[i]) : i \in Occupied }
         /\ \A i \in Occupied : Map[KeyOf(slots[i])] = DataOf(slots[i])
<1>1. Unlike(Stored) /\ Stored = { slots[i] : i \in Occupied }
  BY StoredNow DEF StoredIs
<1>2. /\ DOMAIN MapOf(Stored) = { KeyOf(e) : e \in Stored }
      /\ \A e \in Stored : MapOf(Stored)[KeyOf(e)] = DataOf(e)
  BY <1>1, MapOfFacts, Zenon
<1>3. QED
  BY <1>1, <1>2, MapIsMapOf

LEMMA SearchFacts ==
  ASSUME HashInv, Idle, NEW k \in Key
  PROVE  LET i == ChainAt(k, First(Found(k)))
         IN  /\ Found(k) = {} <=> k \notin DOMAIN Map
             /\ Found(k) # {} => /\ i \in Occupied /\ KeyOf(slots[i]) = k
                                 /\ Map[k] = DataOf(slots[i])
<1> DEFINE i == ChainAt(k, First(Found(k)))
<1>1. /\ Found(k) = {} <=> \A j \in Occupied : KeyOf(slots[j]) # k
      /\ Found(k) # {} => i \in Occupied /\ KeyOf(slots[i]) = k
  BY FoundFacts DEF HashInv
<1> HIDE DEF i
<1>2. QED
  BY <1>1, IdleMapFacts DEF i

LEMMA GetIsGet ==
  ASSUME HashInv, NEW k \in Key, Get(k)
  PROVE  Abstract!Get(k)
<1>1. /\ Idle /\ UNCHANGED << tableSize, slots, size, pending, it, failures >>
      /\ ret' = IF Found(k) = {} THEN Missing
                ELSE Ok(DataOf(slots[ChainAt(k, First(Found(k)))]))
  BY DEF Get
<1>2. ret' = IF k \in DOMAIN Map THEN Ok(Map[k]) ELSE Missing
  BY <1>1, SearchFacts
<1>3. Occupied' = Occupied /\ Stored' = Stored
  BY <1>1 DEF Occupied, Stored, Idle
<1>4. Map' = Map
  BY <1>3, MapIsMapOf
<1>5. Ahead' = Ahead
  BY <1>1, <1>3 DEF Ahead
<1>6. QED
  BY <1>1, <1>2, <1>3, <1>4, <1>5 DEF Abstract!Get, Abstract!Ok, Abstract!Missing, Ok, Missing

(* A removal takes one key from the map.                                   *)
LEMMA ClearRemoves ==
  ASSUME HashInv, NEW i \in Occupied, Clear(i), Idle,
         UNCHANGED << tableSize, pending, it, failures >>
  PROVE  /\ Map' = [ q \in DOMAIN Map \ {KeyOf(slots[i])} |-> Map[q] ]
         /\ Map[KeyOf(slots[i])] = DataOf(slots[i])
<1>1. /\ HashInv' /\ Occupied' = Occupied \ {i}
      /\ \A j \in Occupied' : slots'[j] = slots[j]
  BY ClearFacts
<1>2. Unlike(Stored) /\ Stored = { slots[j] : j \in Occupied }
  BY StoredNow DEF StoredIs
<1>3. Idle' /\ Stored' = { slots'[j] : j \in Occupied' }
  BY <1>1, StoredNext DEF StoredIs, Idle
<1>4. Stored' \subseteq Stored
  BY <1>1, <1>2, <1>3
<1> DEFINE kept == { KeyOf(e) : e \in Stored' }
<1>5. MapOf(Stored') = [ q \in kept |-> MapOf(Stored)[q] ] /\ kept \subseteq DOMAIN MapOf(Stored)
  <2>1. Unlike(Stored)
    BY <1>2
  <2>2. QED
    BY <1>4, <2>1, MapOfSome
<1>6. \A j, l \in Occupied : KeyOf(slots[j]) = KeyOf(slots[l]) => j = l
  BY DEF HashInv, DistinctKeys
<1>7. kept = DOMAIN Map \ {KeyOf(slots[i])}
  <2>1. kept = { KeyOf(slots[j]) : j \in Occupied \ {i} }
    BY <1>1, <1>3
  <2>2. QED
    BY <1>6, <2>1, IdleMapFacts
<1> HIDE DEF kept
<1>8. QED
  BY <1>5, <1>7, IdleMapFacts, MapIsMapOf

LEMMA GetAndRemoveIs ==
  ASSUME HashInv, NEW k \in Key, GetAndRemove(k)
  PROVE  Abstract!GetAndRemove(k)
<1> DEFINE i == ChainAt(k, First(Found(k)))
<1>1. /\ Idle /\ it = NoIt /\ UNCHANGED << tableSize, pending, it, failures >>
      /\ IF Found(k) = {} THEN ret' = Missing /\ UNCHANGED << slots, size >> ELSE Clear(i)
  BY DEF GetAndRemove
<1>2. /\ Found(k) = {} <=> k \notin DOMAIN Map
      /\ Found(k) # {} => i \in Occupied /\ KeyOf(slots[i]) = k /\ Map[k] = DataOf(slots[i])
  BY <1>1, SearchFacts
<1> HIDE DEF i
<1>3. HashInv'
  BY GetAndRemoveFacts
<1>4. UNCHANGED { KeyOf(slots[j]) : j \in Occupied \cap {it} }
  BY <1>1, <1>3, StoredNow, StoredNext DEF StoredIs
<1>5. CASE Found(k) = {}
  <2>1. Occupied' = Occupied /\ Stored' = Stored
    BY <1>1, <1>5 DEF Occupied, Stored, Idle
  <2>2. Map' = Map
    BY <2>1, MapIsMapOf
  <2>3. Map = [ q \in DOMAIN Map \ {k} |-> Map[q] ]
    <3>1. DOMAIN Map \ {k} = DOMAIN Map
      BY <1>2, <1>5
    <3>2. Map = [ q \in DOMAIN Map |-> Map[q] ]
      BY DEF Map
    <3>3. QED
      BY <3>1, <3>2
  <2>4. Map' = [ q \in DOMAIN Map \ {k} |-> Map[q] ]
    BY <2>2, <2>3
  <2>5. ret' = IF k \in DOMAIN Map THEN Ok(Map[k]) ELSE Missing
    BY <1>1, <1>2, <1>5
  <2>6. QED
    BY <1>1, <1>4, <2>4, <2>5
    DEF Abstract!GetAndRemove, Abstract!NoIterator, Abstract!Ok, Abstract!Missing,
        Abstract!Without, Ok, Missing
<1>6. CASE Found(k) # {}
  <2>1. Map' = [ q \in DOMAIN Map \ {k} |-> Map[q] ]
    BY <1>1, <1>2, <1>6, ClearRemoves
  <2>2. ret' = IF k \in DOMAIN Map THEN Ok(Map[k]) ELSE Missing
    BY <1>1, <1>2, <1>6 DEF Clear
  <2>3. QED
    BY <1>1, <1>4, <2>1, <2>2
    DEF Abstract!GetAndRemove, Abstract!NoIterator, Abstract!Ok, Abstract!Missing,
        Abstract!Without, Ok, Missing
<1>7. QED
  BY <1>5, <1>6

(* What the iterator has not passed stays what it was.                     *)
LeftKeys == IF it = NoIt THEN << >> ELSE << { KeyOf(slots[i]) : i \in Ahead } >>
AtKeys == { KeyOf(slots[i]) : i \in Occupied \cap {it} }

LEMMA ItNewIsItNew ==
  ASSUME HashInv, ItNew
  PROVE  Abstract!ItNew
<1>1. /\ Idle /\ it = NoIt /\ it' = -1
      /\ UNCHANGED << tableSize, slots, size, pending, ret, failures >>
  BY DEF ItNew
<1>2. Occupied' = Occupied /\ Stored' = Stored
  BY <1>1 DEF Occupied, Stored, Idle
<1>3. Map' = Map
  BY <1>2, MapIsMapOf
<1>4. \A i \in Occupied : i \in Int /\ i > -1
  BY OccupiedFacts DEF HashInv, TypeOK
<1>5. Ahead' = Occupied
  BY <1>1, <1>2, <1>4 DEF Ahead
<1>6. AtKeys = {} /\ AtKeys' = {}
  BY <1>1, <1>2, <1>4 DEF AtKeys, NoIt
<1>7. LeftKeys' = << DOMAIN Map >>
  BY <1>1, <1>5, IdleMapFacts DEF LeftKeys, NoIt
<1>8. QED
  BY <1>1, <1>3, <1>6, <1>7
  DEF Abstract!ItNew, Abstract!NoIterator, Abstract!Iterating, LeftKeys, AtKeys

LEMMA ItNextIsItNext ==
  ASSUME HashInv, ItNext
  PROVE  Abstract!ItNext
<1>1. /\ Idle /\ it # NoIt
      /\ it' = IF Ahead = {} THEN tableSize ELSE First(Ahead)
      /\ ret' = IF Ahead = {} THEN Missing ELSE Ok(DataOf(slots[First(Ahead)]))
      /\ UNCHANGED << tableSize, slots, size, pending, failures >>
  BY DEF ItNext
<1>2. Occupied' = Occupied /\ Stored' = Stored
  BY <1>1 DEF Occupied, Stored, Idle
<1>3. Map' = Map
  BY <1>2, MapIsMapOf
<1>4. /\ Ahead = {} \/ (First(Ahead) \in Ahead /\ \A i \in Ahead : First(Ahead) <= i)
      /\ \A i \in Occupied : i \in Int /\ i >= 0 /\ i < tableSize
      /\ it \in Int /\ tableSize \in Nat
  BY <1>1, AheadFacts, OccupiedFacts DEF HashInv, TypeOK
<1>5. Ahead' = { i \in Occupied : i > it' }
  BY <1>2 DEF Ahead
<1>6. CASE Ahead = {}
  <2>1. Ahead' = {} /\ AtKeys' = {} /\ it' # NoIt
    BY <1>1, <1>2, <1>4, <1>5, <1>6 DEF AtKeys, NoIt
  <2>2. LeftKeys = << {} >> /\ LeftKeys' = << {} >>
    BY <1>1, <1>6, <2>1 DEF LeftKeys
  <2>3. LeftKeys # << >> /\ LeftKeys[1] = {}
    BY <2>2
  <2>4. QED
    BY <1>1, <1>3, <1>6, <2>1, <2>2, <2>3
    DEF Abstract!ItNext, Abstract!NoIterator, Abstract!Missing, Missing, LeftKeys, AtKeys
<1>7. CASE Ahead # {}
  <2> DEFINE n == First(Ahead)
             k == KeyOf(slots[n])
             keys == { KeyOf(slots[i]) : i \in Ahead }
  <2>1. n \in Ahead /\ n \in Occupied /\ \A i \in Ahead : n <= i
    BY <1>4, <1>7 DEF Ahead
  <2>2. it' = n /\ ret' = Ok(DataOf(slots[n]))
    BY <1>1, <1>7
  <2> HIDE DEF n
  <2>3. Ahead' = Ahead \ {n}
    BY <1>4, <1>5, <2>1, <2>2 DEF Ahead
  <2>4. \A i, j \in Occupied : KeyOf(slots[i]) = KeyOf(slots[j]) => i = j
    BY DEF HashInv, DistinctKeys
  <2>5. AtKeys' = {k}
    BY <1>1, <1>2, <2>1, <2>2 DEF AtKeys
  <2>6. { KeyOf(slots[i]) : i \in Ahead' } = keys \ {k}
    BY <2>1, <2>3, <2>4 DEF Ahead
  <2>7. n # NoIt
    BY <1>4, <2>1 DEF NoIt
  <2>8. LeftKeys = << keys >> /\ LeftKeys' = << keys \ {k} >>
    BY <1>1, <2>2, <2>6, <2>7 DEF LeftKeys
  <2>9. k \in keys /\ Map[k] = DataOf(slots[n])
    BY <1>1, <2>1, IdleMapFacts
  <2> HIDE DEF k, keys
  <2>10. LeftKeys # << >> /\ LeftKeys[1] = keys
    BY <2>8
  <2>11. ret' = Ok(Map[k])
    BY <2>2, <2>9
  <2>12. QED
    BY <1>3, <2>5, <2>8, <2>9, <2>10, <2>11
    DEF Abstract!ItNext, Abstract!NoIterator, Abstract!Iterating, Abstract!Ok, Ok, LeftKeys, AtKeys
<1>8. QED
  BY <1>6, <1>7

LEMMA ItRemoveIsItRemove ==
  ASSUME HashInv, ItRemove
  PROVE  Abstract!ItRemove
<1>1. /\ Idle /\ it # NoIt /\ UNCHANGED << tableSize, pending, it, failures >>
      /\ IF it \in Occupied THEN Clear(it)
         ELSE ret' = Missing /\ UNCHANGED << slots, size >>
  BY DEF ItRemove
<1>2. \A i \in Occupied : i \in Int
  BY OccupiedFacts DEF HashInv, TypeOK
<1>3. it \in Int
  BY <1>1, AheadFacts DEF HashInv, TypeOK
<1>4. CASE it \notin Occupied
  <2>1. Occupied' = Occupied /\ Stored' = Stored
    BY <1>1, <1>4 DEF Occupied, Stored, Idle
  <2>2. Map' = Map
    BY <2>1, MapIsMapOf
  <2>3. AtKeys = {} /\ AtKeys' = {} /\ LeftKeys' = LeftKeys /\ LeftKeys # << >>
    BY <1>1, <1>4, <2>1 DEF AtKeys, LeftKeys, Ahead
  <2>4. QED
    BY <1>1, <1>4, <2>2, <2>3
    DEF Abstract!ItRemove, Abstract!NoIterator, Abstract!Missing, Missing, LeftKeys, AtKeys
<1>5. CASE it \in Occupied
  <2> DEFINE k == KeyOf(slots[it])
  <2>1. /\ Map' = [ q \in DOMAIN Map \ {k} |-> Map[q] ]
        /\ Map[k] = DataOf(slots[it])
    BY <1>1, <1>5, ClearRemoves
  <2>2. /\ Occupied' = Occupied \ {it} /\ ret' = Ok(DataOf(slots[it]))
        /\ \A j \in Occupied' : slots'[j] = slots[j]
    BY <1>1, <1>5, ClearFacts
  <2>3. AtKeys = {k} /\ AtKeys' = {}
    BY <1>1, <1>5, <2>2 DEF AtKeys
  <2>4. Ahead' = Ahead /\ \A j \in Ahead : slots'[j] = slots[j]
    BY <1>1, <1>2, <1>3, <2>2 DEF Ahead
  <2>5. LeftKeys' = LeftKeys /\ LeftKeys # << >>
    BY <1>1, <2>4 DEF LeftKeys
  <2>6. ret' = Ok(Map[k])
    BY <2>1, <2>2
  <2> HIDE DEF k
  <2>7. QED
    BY <2>1, <2>3, <2>5, <2>6
    DEF Abstract!ItRemove, Abstract!NoIterator, Abstract!Without, Abstract!Ok, Ok, LeftKeys, AtKeys
<1>6. QED
  BY <1>4, <1>5

LEMMA ItFreeIsItFree ==
  ASSUME HashInv, ItFree
  PROVE  Abstract!ItFree
<1>1. /\ Idle /\ it # NoIt /\ it' = NoIt
      /\ UNCHANGED << tableSize, slots, size, pending, ret, failures >>
  BY DEF ItFree
<1>2. Occupied' = Occupied /\ Stored' = Stored
  BY <1>1 DEF Occupied, Stored, Idle
<1>3. Map' = Map
  BY <1>2, MapIsMapOf
<1>4. \A i \in Occupied : i \in Int /\ i > -1
  BY OccupiedFacts DEF HashInv, TypeOK
<1>5. AtKeys' = {}
  BY <1>1, <1>2, <1>4 DEF AtKeys, NoIt
<1>6. LeftKeys # << >> /\ LeftKeys' = << >>
  BY <1>1 DEF LeftKeys
<1>7. QED
  BY <1>1, <1>3, <1>5, <1>6
  DEF Abstract!ItFree, Abstract!NoIterator, LeftKeys, AtKeys

LEMMA InitIsMapInit == Init => Abstract!Init
<1> SUFFICES ASSUME Init PROVE Abstract!Init
  OBVIOUS
<1>1. /\ slots = [ i \in 0 .. InitialSize - 1 |-> Free ]
      /\ pending = << >> /\ it = NoIt /\ ret = Missing
  BY DEF Init
<1>2. Occupied = {} /\ Stored = {}
  BY <1>1 DEF Occupied, Stored, Idle, Range
<1>3. DOMAIN Map = {} /\ Map = [ q \in DOMAIN Map |-> Map[q] ]
  BY <1>2 DEF Map
<1>4. Map = << >>
  BY <1>3
<1>5. AtKeys = {} /\ LeftKeys = << >>
  BY <1>1, <1>2 DEF AtKeys, LeftKeys
<1>6. QED
  BY <1>1, <1>4, <1>5 DEF Abstract!Init, Abstract!NoIterator, Abstract!Missing, Missing, AtKeys, LeftKeys

LEMMA StepIsMapStep == HashInv /\ [Next]_vars => [Abstract!Next]_(Abstract!vars)
<1> SUFFICES ASSUME HashInv, [Next]_vars PROVE [Abstract!Next]_(Abstract!vars)
  OBVIOUS
<1>1. ASSUME NEW k \in Key, Get(k) PROVE Abstract!Next
  BY <1>1, GetIsGet, Zenon DEF Abstract!Next
<1>2. ASSUME NEW k \in Key, GetAndRemove(k) PROVE Abstract!Next
  BY <1>2, GetAndRemoveIs, Zenon DEF Abstract!Next
<1>3. ASSUME NEW k \in Key, NEW data \in Data, Put(k, data) PROVE UNCHANGED Abstract!vars
  BY <1>3, PutStutters
<1>4. CASE Grow
  BY <1>4, GrowStutters
<1>5. CASE GrowFails
  BY <1>5, GrowFailsIsPutFails, Zenon DEF Abstract!Next
<1>6. CASE Place
  <2>1. CASE UNCHANGED Abstract!vars
    BY <2>1
  <2>2. ASSUME NEW k \in Key, NEW data \in Data, Abstract!Put(k, data) PROVE Abstract!Next
    BY <2>2, Zenon DEF Abstract!Next
  <2>3. QED
    BY <1>6, <2>1, <2>2, PlaceIsPut
<1>7. CASE ItNew
  BY <1>7, ItNewIsItNew, Zenon DEF Abstract!Next
<1>8. CASE ItNext
  BY <1>8, ItNextIsItNext, Zenon DEF Abstract!Next
<1>9. CASE ItRemove
  BY <1>9, ItRemoveIsItRemove, Zenon DEF Abstract!Next
<1>10. CASE ItFree
  BY <1>10, ItFreeIsItFree, Zenon DEF Abstract!Next
<1>11. CASE UNCHANGED vars
  <2>1. Occupied' = Occupied /\ Stored' = Stored
    BY <1>11 DEF vars, Occupied, Stored, Idle
  <2>2. Map' = Map
    BY <2>1, MapIsMapOf
  <2>3. AtKeys' = AtKeys /\ LeftKeys' = LeftKeys /\ ret' = ret
    BY <1>11, <2>1 DEF vars, AtKeys, LeftKeys, Ahead
  <2>4. QED
    BY <2>2, <2>3 DEF Abstract!vars, AtKeys, LeftKeys
<1>12. QED
  BY <1>1, <1>2, <1>3, <1>4, <1>5, <1>6, <1>7, <1>8, <1>9, <1>10, <1>11 DEF Next

(* The table with its probe chains, its holes and its moves is the map     *)
(* that hashmap.h promises: a get finds what was put and not removed, an   *)
(* iterator yields every entry once, and only a put that runs out of       *)
(* memory takes others with it.                                            *)
THEOREM TableIsMap == Spec => ImplementsMap
<1>1. QED
  BY InitIsMapInit, InitInv, StepInv, StepIsMapStep, PTL
  DEF Spec, ImplementsMap, Abstract!Spec
=============================================================================
