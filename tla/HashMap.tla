------------------------------ MODULE HashMap ------------------------------
(***************************************************************************)
(* The hash table of the peer table (hashmap.c): open addressing with      *)
(* probe chains of bounded length; the table doubles when it is half full  *)
(* or a chain has no room.                                                 *)
(*                                                                         *)
(* Putting a key, moving the entries of a table that grows and growing     *)
(* once more while they are moved call each other recursively.  As every   *)
(* level of that recursion does nothing but put one entry after another,   *)
(* it is a list of entries that are still to be put.                       *)
(***************************************************************************)
EXTENDS Integers, FiniteSets, SequencesExt

CONSTANTS
  Key,
  Data,          \* the pointers stored
  Hash,          \* the hash of a key, before it is reduced to an index
  InitialSize,   \* INITIAL_SIZE
  MaxChain,      \* MAX_CHAIN_LENGTH
  MaxFailures    \* bound: allocations that fail

ASSUME HashMapAssumption ==
  /\ Hash \in [ Key -> Nat ]
  /\ {InitialSize, MaxChain} \subseteq Nat \ {0}
  /\ MaxFailures \in Nat

VARIABLES
  tableSize,
  slots,     \* the table: slots[i] is an entry or Free, for i < tableSize
  size,      \* number of entries, as the code counts it
  pending,   \* the entries to be put, the last one by the caller; empty
             \* when no call is under way
  it,        \* index of the iterator, NoIt without one
  ret,       \* what the last call returned
  failures

vars == << tableSize, slots, size, pending, it, ret, failures >>

Free == << >>
Entry == Key \X Data
KeyOf(e) == e[1]
DataOf(e) == e[2]

NoIt == -2

Ok(data) == << "MAP_OK", data >>
Missing == << "MAP_MISSING" >>
OutOfMemory == << "MAP_OMEM" >>

(* The index a key hashes to, and the one i places further along. *)
ChainAt(k, i) == (Hash[k] + i) % tableSize

Occupied == { i \in DOMAIN slots : slots[i] # Free }
Holds(i, k) == slots[i] # Free /\ KeyOf(slots[i]) = k

(* Fault: the chain is one place longer when something is put. *)
RoomTooFar(k) ==
  { i \in 0 .. MaxChain :
      slots[ChainAt(k, i)] = Free \/ Holds(ChainAt(k, i), k) }

(* hashmap_hash: the places in the chain of k where it can be put.         *)
Room(k) ==
  { i \in 0 .. MaxChain - 1 :
      slots[ChainAt(k, i)] = Free \/ Holds(ChainAt(k, i), k) }

First(S) == CHOOSE i \in S : \A j \in S : i <= j
Full(k) == size >= tableSize \div 2 \/ Room(k) = {}

(* Fault: the search ends at the first free place. *)
FoundUpToHole(k) ==
  { i \in 0 .. MaxChain - 1 : /\ Holds(ChainAt(k, i), k)
                              /\ \A j \in 0 .. i : slots[ChainAt(k, j)] # Free }

(* hashmap_get: unlike hashmap_hash it does not stop at a free place, so   *)
(* that the holes removals leave in a chain do no harm.                    *)
Found(k) == { i \in 0 .. MaxChain - 1 : Holds(ChainAt(k, i), k) }

Idle == pending = << >>
-----------------------------------------------------------------------------
Init ==
  /\ tableSize = InitialSize
  /\ slots = [ i \in 0 .. InitialSize - 1 |-> Free ]
  /\ size = 0
  /\ pending = << >>
  /\ it = NoIt
  /\ ret = Missing
  /\ failures = 0

(* hashmap_put is called: peer_add does so only for a key that a get has   *)
(* not found.                                                              *)
Put(k, data) ==
  /\ Idle /\ it = NoIt
  /\ Found(k) = {}
  /\ pending' = << << k, data >> >>
  /\ UNCHANGED << tableSize, slots, size, it, ret, failures >>

Ascending(S) ==
  CHOOSE f \in [ 1 .. Cardinality(S) -> S ] :
    Range(f) = S /\ \A m, n \in DOMAIN f : m < n => f[m] < f[n]

(* The entries of the table in the order of their places.                  *)
Moved == LET places == Ascending(Occupied)
         IN  [ n \in DOMAIN places |-> slots[places[n]] ]

(* Fault: the entries that move are counted a second time. *)
GrowKeepingSize ==
  /\ ~Idle /\ Full(KeyOf(Head(pending)))
  /\ tableSize' = 2 * tableSize
  /\ slots' = [ i \in 0 .. 2 * tableSize - 1 |-> Free ]
  /\ pending' = Moved \o pending
  /\ UNCHANGED << size, it, ret, failures >>

(* Fault: the new size of the table is not noted. *)
GrowUnnoticed ==
  /\ ~Idle /\ Full(KeyOf(Head(pending)))
  /\ slots' = [ i \in 0 .. 2 * tableSize - 1 |-> Free ]
  /\ size' = 0
  /\ pending' = Moved \o pending
  /\ UNCHANGED << tableSize, it, ret, failures >>

(* hashmap_rehash: an empty table of twice the size, into which the old    *)
(* entries are put, in the order of their places, before the one that did  *)
(* not fit.                                                                *)
Grow ==
  /\ ~Idle /\ Full(KeyOf(Head(pending)))
  /\ tableSize' = 2 * tableSize
  /\ slots' = [ i \in 0 .. 2 * tableSize - 1 |-> Free ]
  /\ size' = 0
  /\ pending' = Moved \o pending
  /\ UNCHANGED << it, ret, failures >>

(* No memory for the larger table: every level of the recursion returns,   *)
(* and what was still to be moved is lost.                                 *)
GrowFails ==
  /\ ~Idle /\ Full(KeyOf(Head(pending)))
  /\ failures < MaxFailures
  /\ failures' = failures + 1
  /\ pending' = << >>
  /\ ret' = OutOfMemory
  /\ UNCHANGED << tableSize, slots, size, it >>

(* An entry finds its place; with the last one the put of the caller ends. *)
Place ==
  LET e == Head(pending)
      k == KeyOf(e)
  IN  /\ ~Idle /\ ~Full(k)
      /\ slots' = [ slots EXCEPT ![ChainAt(k, First(Room(k)))] = e ]
      /\ size' = size + 1
      /\ pending' = Tail(pending)
      /\ ret' = IF Tail(pending) = << >> THEN Ok(DataOf(e)) ELSE ret
      /\ UNCHANGED << tableSize, it, failures >>

Get(k) ==
  /\ Idle
  /\ ret' = IF Found(k) = {} THEN Missing
            ELSE Ok(DataOf(slots[ChainAt(k, First(Found(k)))]))
  /\ UNCHANGED << tableSize, slots, size, pending, it, failures >>

Clear(i) ==
  /\ slots' = [ slots EXCEPT ![i] = Free ]
  /\ size' = size - 1
  /\ ret' = Ok(DataOf(slots[i]))

(* hashmap_get with remove. *)
GetAndRemove(k) ==
  /\ Idle /\ it = NoIt
  /\ IF Found(k) = {} THEN ret' = Missing /\ UNCHANGED << slots, size >>
     ELSE Clear(ChainAt(k, First(Found(k))))
  /\ UNCHANGED << tableSize, pending, it, failures >>

ItNew ==
  /\ Idle /\ it = NoIt
  /\ it' = -1
  /\ UNCHANGED << tableSize, slots, size, pending, ret, failures >>

Ahead == { i \in Occupied : i > it }

ItNext ==
  /\ Idle /\ it # NoIt /\ it < tableSize
  /\ it' = IF Ahead = {} THEN tableSize ELSE First(Ahead)
  /\ ret' = IF Ahead = {} THEN Missing ELSE Ok(DataOf(slots[First(Ahead)]))
  /\ UNCHANGED << tableSize, slots, size, pending, failures >>

ItRemove ==
  /\ Idle /\ it # NoIt
  /\ IF it \in Occupied THEN Clear(it)
     ELSE ret' = Missing /\ UNCHANGED << slots, size >>
  /\ UNCHANGED << tableSize, pending, it, failures >>

ItFree ==
  /\ Idle /\ it # NoIt
  /\ it' = NoIt
  /\ UNCHANGED << tableSize, slots, size, pending, ret, failures >>

Next ==
  \/ \E k \in Key : Get(k) \/ GetAndRemove(k) \/ \E data \in Data : Put(k, data)
  \/ Grow \/ GrowFails \/ Place
  \/ ItNew \/ ItNext \/ ItRemove \/ ItFree

Spec == Init /\ [][Next]_vars

-----------------------------------------------------------------------------
TypeOK ==
  /\ tableSize \in Nat \ {0}
  /\ slots \in [ 0 .. tableSize - 1 -> Entry \cup {Free} ]
  /\ size \in Int
  /\ pending \in Seq(Entry)
  /\ it \in {NoIt} \cup -1 .. tableSize
  /\ failures \in 0 .. MaxFailures

(* The count that decides when to grow is the number of entries: no path   *)
(* through put, growth, removal or iteration counts one twice or never.    *)
SizeIsCount == size = Cardinality(Occupied)

(* Every entry is where a search for its key looks, whatever was removed   *)
(* in front of it and however often the table has grown.                   *)
EveryEntryInChain == \A i \in Occupied : \E j \in 0 .. MaxChain - 1 :
  i = ChainAt(KeyOf(slots[i]), j)

(* The table implements the map its header describes.  While a put is      *)
(* under way the map is what has been moved and what is still to be, and   *)
(* the new entry joins it with the last step.                              *)
Stored == { slots[i] : i \in Occupied } \cup Range(IF Idle THEN << >> ELSE Front(pending))
EntryOf(k) == CHOOSE e \in Stored : KeyOf(e) = k
Map == [ k \in { KeyOf(e) : e \in Stored } |-> DataOf(EntryOf(k)) ]

Abstract == INSTANCE FiniteMap WITH
  map <- Map,
  left <- IF it = NoIt THEN << >> ELSE << { KeyOf(slots[i]) : i \in Ahead } >>,
  at <- { KeyOf(slots[i]) : i \in Occupied \cap {it} }

ImplementsMap == Abstract!Spec
=============================================================================
