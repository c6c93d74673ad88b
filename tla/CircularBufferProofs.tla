------------------------ MODULE CircularBufferProofs ------------------------
(***************************************************************************)
(* The ring buffer implements the bounded queue, for every capacity and    *)
(* whatever is stored.                                                     *)
(***************************************************************************)
EXTENDS CircularBuffer, TLAPS

(* The flag is set only while the indices meet: without this a full buffer *)
(* could lose its oldest item and keep the wrong tail.                     *)
BufferInv ==
  /\ TypeOK
  /\ full => head = tail

(* The next index, without the modulo.                                     *)
LEMMA SuccIsCyclic ==
  ASSUME NEW i \in Index
  PROVE  Succ(i) = IF i + 1 = Capacity THEN 0 ELSE i + 1
BY BufferAssumption DEF Succ, Index

LEMMA IndexFacts ==
  /\ 0 \in Index
  /\ \A i \in Index : Succ(i) \in Index
BY SuccIsCyclic, BufferAssumption DEF Index

LEMMA InitBufferInv == Init => BufferInv
<1> SUFFICES ASSUME Init PROVE BufferInv
  OBVIOUS
<1>1. full \in BOOLEAN /\ head = tail
  BY DEF Init
<1>2. QED
  BY <1>1, IndexFacts DEF Init, BufferInv, TypeOK

LEMMA PutKeepsInv ==
  ASSUME BufferInv, NEW x \in Item, Put(x)
  PROVE  BufferInv'
<1>1. full' \in BOOLEAN /\ (full' => head' = tail')
  BY DEF Put, Advance
<1>2. head' \in Index /\ tail' \in Index
  BY IndexFacts DEF Put, Advance, BufferInv, TypeOK
<1>3. buffer' \in [ Index -> Item ] /\ ret' \in [ r : {0, -1}, data : Item \cup {NoItem} ]
  BY DEF Put, BufferInv, TypeOK
<1>4. QED
  BY <1>1, <1>2, <1>3 DEF BufferInv, TypeOK

LEMMA NextBufferInv == BufferInv /\ [Next]_vars => BufferInv'
<1> SUFFICES ASSUME BufferInv, [Next]_vars PROVE BufferInv'
  OBVIOUS
<1>1. ASSUME NEW x \in Item, Put(x) PROVE BufferInv'
  BY <1>1, PutKeepsInv
<1>2. ASSUME NEW x \in Item, Put2(x) PROVE BufferInv'
  <2>1. CASE full
    BY <1>2, <2>1 DEF Put2, BufferInv, TypeOK
  <2>2. CASE ~full
    BY <1>2, <2>2, PutKeepsInv DEF Put2
  <2>3. QED
    BY <2>1, <2>2
<1>3. ASSUME NEW peek \in BOOLEAN, Get(peek) PROVE BufferInv'
  <2>1. full' \in BOOLEAN /\ (full' => head' = tail')
    BY <1>3 DEF Get, Retreat, BufferInv, TypeOK
  <2>2. head' \in Index /\ tail' \in Index /\ buffer' = buffer
    BY <1>3, IndexFacts DEF Get, Retreat, BufferInv, TypeOK
  <2>3. ret' \in [ r : {0, -1}, data : Item \cup {NoItem} ]
    BY <1>3 DEF Get, BufferInv, TypeOK
  <2>4. QED
    BY <2>1, <2>2, <2>3 DEF BufferInv, TypeOK
<1>4. CASE Reset
  <2>1. full' \in BOOLEAN /\ head' = tail'
    BY <1>4 DEF Reset
  <2>2. QED
    BY <1>4, <2>1, IndexFacts DEF Reset, BufferInv, TypeOK
<1>5. CASE UNCHANGED vars
  BY <1>5 DEF vars, BufferInv, TypeOK
<1>6. QED
  BY <1>1, <1>2, <1>3, <1>4, <1>5 DEF Next

(* Every reachable buffer is well-formed. *)
THEOREM BufferTypeCorrect == Spec => []TypeOK
<1>1. BufferInv => TypeOK
  BY DEF BufferInv
<1>2. QED
  BY <1>1, InitBufferInv, NextBufferInv, PTL DEF Spec

-----------------------------------------------------------------------------
(* Where the stored items are, in integers. *)
LEMMA Geometry ==
  ASSUME BufferInv
  PROVE  /\ Size \in 0 .. Capacity
         /\ Size = Capacity <=> full
         /\ Size = 0 <=> Empty
         /\ \A i \in 1 .. Capacity : Position(i) \in Index
         /\ Size < Capacity => Position(Size + 1) = head
         /\ \A i \in 1 .. Size : Size < Capacity => Position(i) # head
         /\ \A i \in 1 .. Capacity : Position(i) = tail <=> i = 1
<1>1. /\ head \in Int /\ 0 <= head /\ head < Capacity
      /\ tail \in Int /\ 0 <= tail /\ tail < Capacity
      /\ Capacity \in Nat /\ Capacity > 0 /\ full \in BOOLEAN
      /\ full => head = tail
  BY BufferAssumption DEF BufferInv, TypeOK, Index
<1>2. Size \in 0 .. Capacity /\ (Size = Capacity <=> full)
  BY <1>1 DEF Size
<1>3. Size = 0 <=> Empty
  BY <1>1 DEF Size, Empty
<1>4. \A i \in 1 .. Capacity : /\ Position(i) \in Index
                               /\ Position(i) = tail <=> i = 1
  BY <1>1 DEF Position, Index
<1>5. Size < Capacity => Position(Size + 1) = head
  BY <1>1 DEF Position, Size
<1>6. \A i \in 1 .. Size : Size < Capacity => Position(i) # head
  BY <1>1 DEF Position, Size
<1>7. QED
  BY <1>2, <1>3, <1>4, <1>5, <1>6

LEMMA ContentsType ==
  ASSUME BufferInv
  PROVE  /\ Contents \in Seq(Item)
         /\ Len(Contents) = Size
         /\ \A i \in 1 .. Size : Contents[i] = buffer[Position(i)]
<1>1. \A i \in 1 .. Size : buffer[Position(i)] \in Item
  BY Geometry, BufferAssumption DEF BufferInv, TypeOK
<1>2. Contents \in [ 1 .. Size -> Item ]
  BY <1>1 DEF Contents
<1>3. Size \in Nat
  BY Geometry, BufferAssumption
<1>4. QED
  BY <1>2, <1>3 DEF Contents

(* The next state's contents are those of a sequence s if they have its    *)
(* length and its items.                                                   *)
LEMMA ContentsNext ==
  ASSUME NEW s \in Seq(Item),
         Size' = Len(s),
         \A i \in 1 .. Len(s) : buffer'[Position(i)'] = s[i]
  PROVE  Contents' = s
<1>1. Contents' = [ i \in 1 .. Len(s) |-> s[i] ]
  BY DEF Contents
<1>2. QED
  BY <1>1

(* A put into a buffer with room appends. *)
LEMMA PutAppends ==
  ASSUME BufferInv, NEW x \in Item, Put(x), ~full
  PROVE  Contents' = Append(Contents, x)
<1> DEFINE s == Append(Contents, x)
<1>1. /\ tail' = tail /\ head' = Succ(head) /\ (full' <=> head' = tail')
      /\ buffer' = [ buffer EXCEPT ![head] = x ]
  BY DEF Put, Advance
<1>2. /\ head \in Int /\ 0 <= head /\ head < Capacity
      /\ tail \in Int /\ 0 <= tail /\ tail < Capacity
      /\ Capacity \in Nat /\ Capacity > 0
      /\ head' = IF head + 1 = Capacity THEN 0 ELSE head + 1
  BY <1>1, SuccIsCyclic, BufferAssumption DEF BufferInv, TypeOK, Index
<1>3. Size' = Size + 1
  <2>1. CASE head' = tail
    BY <2>1, <1>1, <1>2 DEF Size
  <2>2. CASE head' # tail
    BY <2>2, <1>1, <1>2 DEF Size
  <2>3. QED
    BY <2>1, <2>2
<1>4. /\ Size \in Nat /\ Size < Capacity /\ Contents \in Seq(Item) /\ Len(Contents) = Size
      /\ \A i \in 1 .. Size : Contents[i] = buffer[Position(i)]
  BY Geometry, ContentsType, <1>2
<1>5. s \in Seq(Item) /\ Len(s) = Size + 1
  BY <1>4
<1>6. ASSUME NEW i \in 1 .. Len(s) PROVE buffer'[Position(i)'] = s[i]
  <2>1. Position(i)' = Position(i) /\ Position(i) \in Index
    <3>1. i \in 1 .. Capacity
      BY <1>2, <1>4, <1>5
    <3>2. QED
      BY <3>1, <1>1, Geometry DEF Position
  <2>2. CASE i = Size + 1
    BY <2>1, <2>2, <1>1, <1>4, Geometry DEF BufferInv, TypeOK
  <2>3. CASE i # Size + 1
    <3>1. i \in 1 .. Size /\ Position(i) # head
      BY <2>3, <1>4, <1>5, Geometry
    <3>2. buffer'[Position(i)] = buffer[Position(i)]
      BY <3>1, <2>1, <1>1 DEF BufferInv, TypeOK
    <3>3. s[i] = Contents[i]
      BY <3>1, <1>4
    <3>4. QED
      BY <3>1, <3>2, <3>3, <2>1, <1>4
  <2>4. QED
    BY <2>2, <2>3
<1>7. QED
  BY <1>3, <1>5, <1>6, ContentsNext

(* A put into a full buffer replaces the oldest item by the newest. *)
LEMMA PutOverwrites ==
  ASSUME BufferInv, NEW x \in Item, Put(x), full
  PROVE  Contents' = Append(Tail(Contents), x)
<1> DEFINE s == Append(Tail(Contents), x)
<1>1. /\ tail' = Succ(tail) /\ head' = Succ(head) /\ (full' <=> head' = tail')
      /\ buffer' = [ buffer EXCEPT ![head] = x ]
      /\ head = tail
  BY DEF Put, Advance, BufferInv
<1>2. /\ tail \in Int /\ 0 <= tail /\ tail < Capacity
      /\ Capacity \in Nat /\ Capacity > 0
      /\ tail' = IF tail + 1 = Capacity THEN 0 ELSE tail + 1
      /\ head' = tail' /\ full'
  <2>1. tail \in Index /\ head' = tail'
    BY <1>1 DEF BufferInv, TypeOK
  <2>2. QED
    BY <2>1, <1>1, SuccIsCyclic, BufferAssumption DEF Index
<1>3. Size' = Capacity /\ Size = Capacity
  BY <1>2 DEF Size
<1>4. /\ Contents \in Seq(Item) /\ Len(Contents) = Capacity
      /\ \A i \in 1 .. Capacity : Contents[i] = buffer[Position(i)]
  BY ContentsType, <1>3
<1>5. /\ Tail(Contents) \in Seq(Item) /\ Len(Tail(Contents)) = Capacity - 1
      /\ \A i \in 1 .. Capacity - 1 : Tail(Contents)[i] = Contents[i + 1]
  BY <1>2, <1>4
<1>6. s \in Seq(Item) /\ Len(s) = Capacity
  BY <1>2, <1>5
<1>7. ASSUME NEW i \in 1 .. Capacity PROVE buffer'[Position(i)'] = s[i]
  <2>1. CASE i = Capacity
    <3>1. Position(i)' = head
      BY <2>1, <1>1, <1>2 DEF Position
    <3>2. s[i] = x
      BY <2>1, <1>2, <1>5
    <3>3. QED
      BY <3>1, <3>2, <1>1 DEF BufferInv, TypeOK
  <2>2. CASE i # Capacity
    <3>1. i \in 1 .. Capacity - 1 /\ i + 1 \in 1 .. Capacity
      BY <2>2, <1>2
    <3>2. Position(i)' = Position(i + 1)
      BY <3>1, <1>2 DEF Position
    <3>3. Position(i + 1) # head /\ Position(i + 1) \in Index
      BY <3>1, <1>1, Geometry
    <3>4. buffer'[Position(i + 1)] = buffer[Position(i + 1)]
      BY <3>3, <1>1 DEF BufferInv, TypeOK
    <3>5. s[i] = Contents[i + 1]
      BY <3>1, <1>5
    <3>6. QED
      BY <3>1, <3>2, <3>4, <3>5, <1>4
  <2>3. QED
    BY <2>1, <2>2
<1>8. QED
  BY <1>3, <1>6, <1>7, ContentsNext

(* The oldest item, and the contents without it. *)
LEMMA HeadOfContents ==
  ASSUME BufferInv, ~Empty
  PROVE  Contents # << >> /\ Head(Contents) = buffer[tail]
<1>1. Size \in Nat /\ Size > 0 /\ Capacity \in Nat /\ Size <= Capacity
  BY Geometry, BufferAssumption
<1>2. Position(1) = tail
  BY <1>1, Geometry
<1>3. QED
  BY <1>1, <1>2, ContentsType

LEMMA RetreatPops ==
  ASSUME BufferInv, ~Empty, Retreat, buffer' = buffer
  PROVE  Contents' = Tail(Contents)
<1> DEFINE s == Tail(Contents)
<1>1. tail' = Succ(tail) /\ head' = head /\ full' = FALSE
  BY DEF Retreat
<1>2. /\ head \in Int /\ 0 <= head /\ head < Capacity
      /\ tail \in Int /\ 0 <= tail /\ tail < Capacity
      /\ Capacity \in Nat /\ Capacity > 0
      /\ tail' = IF tail + 1 = Capacity THEN 0 ELSE tail + 1
  BY <1>1, SuccIsCyclic, BufferAssumption DEF BufferInv, TypeOK, Index
<1>3. Size' = Size - 1
  <2>1. full => head = tail
    BY DEF BufferInv
  <2>2. QED
    BY <2>1, <1>1, <1>2 DEF Size, Empty
<1>4. Size \in 1 .. Capacity
  BY Geometry, <1>2
<1>5. /\ Contents \in Seq(Item) /\ Len(Contents) = Size
      /\ \A i \in 1 .. Size : Contents[i] = buffer[Position(i)]
  BY ContentsType
<1>6. /\ s \in Seq(Item) /\ Len(s) = Size - 1
      /\ \A i \in 1 .. Size - 1 : s[i] = Contents[i + 1]
  BY <1>2, <1>4, <1>5
<1>7. ASSUME NEW i \in 1 .. Len(s) PROVE buffer'[Position(i)'] = s[i]
  <2>1. i \in 1 .. Size - 1 /\ i + 1 \in 1 .. Size
    BY <1>2, <1>4, <1>6
  <2>2. Position(i)' = Position(i + 1)
    BY <2>1, <1>2, <1>4 DEF Position
  <2>3. QED
    BY <2>1, <2>2, <1>5, <1>6
<1>8. QED
  BY <1>3, <1>6, <1>7, ContentsNext

-----------------------------------------------------------------------------
LEMMA InitIsQueueInit == Init => Queue!Init
<1> SUFFICES ASSUME Init PROVE Queue!Init
  OBVIOUS
<1>1. BufferInv
  BY InitBufferInv
<1>2. Empty
  BY DEF Init, Empty
<1>3. Contents = << >>
  BY <1>1, <1>2, Geometry, ContentsType
<1>4. QED
  BY <1>3 DEF Init, Queue!Init, Queue!Ok

LEMMA PutIsQueuePut ==
  ASSUME BufferInv, NEW x \in Item, Put(x)
  PROVE  Queue!Put(x)
<1>1. Contents \in Seq(Item) /\ Len(Contents) = Size /\ (Size = Capacity <=> full)
  BY ContentsType, Geometry
<1>2. Contents' = Queue!Pushed(Contents, x)
  BY <1>1, PutAppends, PutOverwrites DEF Queue!Pushed, Queue!IsFull
<1>3. QED
  BY <1>2 DEF Put, Queue!Put, Queue!Ok

(* A call that changes neither the array nor the indices. *)
LEMMA ContentsUnchanged ==
  ASSUME UNCHANGED << buffer, head, tail, full >>
  PROVE  Contents' = Contents
BY DEF Contents, Size, Position

LEMMA NextIsQueueNext ==
  BufferInv /\ [Next]_vars => [Queue!Next]_<< Contents, ret >>
<1> SUFFICES ASSUME BufferInv, [Next]_vars
             PROVE  Queue!Next \/ UNCHANGED << Contents, ret >>
  OBVIOUS
<1>1. /\ Contents \in Seq(Item) /\ Len(Contents) = Size
      /\ (Size = Capacity <=> full)
      /\ (Size = 0 <=> Empty)
  BY ContentsType, Geometry
<1>2. ASSUME NEW x \in Item, Put(x) PROVE Queue!Next
  BY <1>2, PutIsQueuePut DEF Queue!Next
<1>3. ASSUME NEW x \in Item, Put2(x) PROVE Queue!Next
  <2>1. CASE full
    <3>1. Contents' = Contents /\ ret' = Queue!Failed /\ Queue!IsFull(Contents)
      BY <1>1, <1>3, <2>1, ContentsUnchanged DEF Put2, Queue!Failed, Queue!IsFull
    <3>2. QED
      BY <3>1 DEF Queue!Next, Queue!Put2
  <2>2. CASE ~full
    <3>1. Put(x)
      BY <1>3, <2>2 DEF Put2
    <3>2. Contents' = Append(Contents, x) /\ ret' = Queue!Ok(NoItem)
      BY <3>1, <2>2, PutAppends DEF Put, Queue!Ok
    <3>3. ~Queue!IsFull(Contents)
      BY <1>1, <2>2 DEF Queue!IsFull
    <3>4. QED
      BY <3>2, <3>3 DEF Queue!Next, Queue!Put2
  <2>3. QED
    BY <2>1, <2>2
<1>4. ASSUME NEW peek \in BOOLEAN, Get(peek) PROVE Queue!Next
  <2>1. CASE Empty
    <3>1. Contents = << >>
      BY <1>1, <2>1
    <3>2. Contents' = Contents /\ ret' = Queue!Failed
      BY <1>4, <2>1, ContentsUnchanged DEF Get, Queue!Failed
    <3>3. QED
      BY <3>1, <3>2 DEF Queue!Next, Queue!Get
  <2>2. CASE ~Empty
    <3>1. Contents # << >> /\ ret' = Queue!Ok(Head(Contents))
      BY <1>4, <2>2, HeadOfContents DEF Get, Queue!Ok
    <3>2. Contents' = IF peek THEN Contents ELSE Tail(Contents)
      BY <1>4, <2>2, ContentsUnchanged, RetreatPops DEF Get
    <3>3. QED
      BY <3>1, <3>2 DEF Queue!Next, Queue!Get
  <2>3. QED
    BY <2>1, <2>2
<1>5. CASE Reset
  <2>1. Size' = 0
    BY <1>5 DEF Reset, Size
  <2>2. /\ << >> \in Seq(Item) /\ Len(<< >>) = 0
        /\ \A i \in 1 .. 0 : buffer'[Position(i)'] = << >>[i]
    OBVIOUS
  <2>3. Contents' = << >>
    <3> DEFINE s == << >>
    <3>1. s \in Seq(Item) /\ Size' = Len(s)
      BY <2>1, <2>2
    <3>2. \A i \in 1 .. Len(s) : buffer'[Position(i)'] = s[i]
      BY <2>2
    <3> HIDE DEF s
    <3>3. Contents' = s
      BY <3>1, <3>2, ContentsNext
    <3>4. QED
      BY <3>3 DEF s
  <2>4. QED
    BY <1>5, <2>3 DEF Reset, Queue!Next, Queue!Reset, Queue!Ok
<1>6. CASE UNCHANGED vars
  BY <1>6, ContentsUnchanged DEF vars
<1>7. QED
  BY <1>2, <1>3, <1>4, <1>5, <1>6 DEF Next

(* Through any sequence of calls the ring buffer, of any capacity, returns *)
(* what a bounded first-in first-out queue would: no item is lost but by   *)
(* an overwriting put, none returned twice, none out of order.             *)
THEOREM BufferIsQueue == Spec => ImplementsQueue
<1>1. Init => Queue!Init
  BY InitIsQueueInit
<1>2. QED
  BY <1>1, InitBufferInv, NextBufferInv, NextIsQueueNext, PTL
     DEF Spec, ImplementsQueue, Queue!Spec
-----------------------------------------------------------------------------
(* PushedAll, by which TxPath queues the frames of one reading, is one     *)
(* overwriting put after the other.                                        *)
LEMMA PushedOneByOne ==
  ASSUME NEW S, NEW q \in Seq(S), Len(q) <= Capacity, NEW xs \in Seq(S), NEW x \in S
  PROVE  /\ Queue!PushedAll(q, << >>) = q
         /\ Queue!PushedAll(q, Append(xs, x)) = Queue!Pushed(Queue!PushedAll(q, xs), x)
<1> DEFINE all == q \o xs
           more == q \o Append(xs, x)
           n == Len(all)
           over == n - Capacity
<1>1. Capacity \in Nat /\ Capacity > 0
  BY BufferAssumption
<1>2. /\ all \in Seq(S) /\ more \in Seq(S) /\ n \in Nat /\ Len(more) = n + 1
      /\ \A i \in 1 .. n : more[i] = all[i]
      /\ more[n + 1] = x
  OBVIOUS
<1>3. Queue!PushedAll(q, << >>) = q
  <2>1. q \o << >> = q /\ Len(q) \in Nat
    OBVIOUS
  <2>2. QED
    BY <1>1, <2>1 DEF Queue!PushedAll
<1>4. /\ Queue!PushedAll(q, xs) = IF over > 0 THEN SubSeq(all, over + 1, n) ELSE all
      /\ Queue!PushedAll(q, Append(xs, x))
           = IF Len(more) - Capacity > 0
               THEN SubSeq(more, Len(more) - Capacity + 1, Len(more)) ELSE more
  BY DEF Queue!PushedAll
<1> HIDE DEF all, more
<1>5. CASE n < Capacity
  <2>1. Queue!PushedAll(q, xs) = all /\ Queue!PushedAll(q, Append(xs, x)) = more
    BY <1>1, <1>2, <1>4, <1>5
  <2>2. Queue!Pushed(all, x) = Append(all, x)
    BY <1>5 DEF Queue!Pushed, Queue!IsFull
  <2>3. /\ Append(all, x) \in Seq(S) /\ Len(Append(all, x)) = n + 1
        /\ \A i \in 1 .. n : Append(all, x)[i] = all[i]
        /\ Append(all, x)[n + 1] = x
    BY <1>2
  <2>4. more = Append(all, x)
    BY <1>2, <2>3
  <2>5. QED
    BY <1>3, <2>1, <2>2, <2>4
<1>6. CASE n >= Capacity
  <2> DEFINE w == Queue!PushedAll(q, xs)
             v == Append(Tail(w), x)
             u == SubSeq(more, over + 2, n + 1)
  <2>1. over \in Nat /\ n = Capacity + over
    BY <1>1, <1>2, <1>6
  <2>2. w \in Seq(S) /\ Len(w) = Capacity /\ \A i \in 1 .. Capacity : w[i] = all[over + i]
    <3>1. CASE over > 0
      <4>1. w = SubSeq(all, over + 1, n)
        BY <1>4, <3>1
      <4>2. QED
        BY <1>1, <1>2, <2>1, <4>1
    <3>2. CASE over = 0
      <4>1. w = all
        BY <1>4, <3>2
      <4>2. n = Capacity
        BY <1>1, <1>2, <3>2
      <4>3. \A i \in 1 .. Capacity : over + i = i
        BY <1>1, <3>2
      <4>4. QED
        BY <1>2, <4>1, <4>2, <4>3
    <3>3. QED
      BY <2>1, <3>1, <3>2
  <2>3. Queue!PushedAll(q, Append(xs, x)) = u
    BY <1>1, <1>2, <1>4, <2>1
  <2>4. Queue!Pushed(w, x) = v
    BY <2>2 DEF Queue!Pushed, Queue!IsFull
  <2> HIDE DEF w
  <2>5. /\ v \in Seq(S) /\ Len(v) = Capacity /\ v[Capacity] = x
        /\ \A i \in 1 .. Capacity - 1 : v[i] = w[i + 1]
    BY <1>1, <2>2
  <2>6. /\ u \in Seq(S) /\ Len(u) = Capacity
        /\ \A i \in 1 .. Capacity : u[i] = more[over + 1 + i]
    BY <1>1, <1>2, <2>1
  <2> HIDE DEF u, v
  <2>7. \A i \in 1 .. Capacity : u[i] = v[i]
    <3>1. ASSUME NEW i \in 1 .. Capacity - 1 PROVE u[i] = v[i]
      <4>1. u[i] = more[over + 1 + i] /\ v[i] = w[i + 1]
        BY <1>1, <2>5, <2>6
      <4>2. w[i + 1] = all[over + (i + 1)]
        BY <1>1, <2>2
      <4>3. over + 1 + i \in 1 .. n /\ over + (i + 1) = over + 1 + i
        BY <1>1, <2>1
      <4>4. QED
        BY <1>2, <4>1, <4>2, <4>3
    <3>2. u[Capacity] = v[Capacity]
      <4>1. over + 1 + Capacity = n + 1 /\ Capacity \in 1 .. Capacity
        BY <1>1, <2>1
      <4>2. QED
        BY <1>2, <2>5, <2>6, <4>1
    <3>3. QED
      BY <1>1, <3>1, <3>2
  <2>8. u = v
    BY <2>5, <2>6, <2>7
  <2>9. QED
    BY <1>3, <2>3, <2>4, <2>8 DEF w
<1>7. QED
  BY <1>1, <1>2, <1>5, <1>6
=============================================================================
