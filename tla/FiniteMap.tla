----------------------------- MODULE FiniteMap -----------------------------
(***************************************************************************)
(* What hashmap.h promises its users: a map from keys to pointers with an  *)
(* iterator, and a status for every call.                                  *)
(*                                                                         *)
(* The one thing the header is silent about is stated here as the code has *)
(* it: a put that runs out of memory may take other entries with it.       *)
(***************************************************************************)
EXTENDS Naturals

CONSTANTS Key, Data

VARIABLES
  map,    \* the entries: a function from a set of keys to pointers
  left,   \* the keys the iterator has not yielded yet, see Iterating
  at,     \* the key it is at, as a set: empty if that has been removed
  ret     \* what the last call returned

vars == << map, left, at, ret >>

NoIterator == << >>
Iterating(keys) == << keys >>
Ok(data) == << "MAP_OK", data >>
Missing == << "MAP_MISSING" >>
OutOfMemory == << "MAP_OMEM" >>

Without(k) == [ q \in DOMAIN map \ {k} |-> map[q] ]

Init == map = << >> /\ left = NoIterator /\ at = {} /\ ret = Missing

(* The callers put a key only after a get has not found it. *)
Put(k, data) ==
  /\ left = NoIterator /\ k \notin DOMAIN map
  /\ map' = [ q \in DOMAIN map \cup {k} |-> IF q = k THEN data ELSE map[q] ]
  /\ ret' = Ok(data)
  /\ UNCHANGED << left, at >>

PutFails ==
  /\ left = NoIterator
  /\ \E kept \in SUBSET DOMAIN map : map' = [ q \in kept |-> map[q] ]
  /\ ret' = OutOfMemory
  /\ UNCHANGED << left, at >>

Get(k) ==
  /\ ret' = IF k \in DOMAIN map THEN Ok(map[k]) ELSE Missing
  /\ UNCHANGED << map, left, at >>

GetAndRemove(k) ==
  /\ left = NoIterator
  /\ ret' = IF k \in DOMAIN map THEN Ok(map[k]) ELSE Missing
  /\ map' = Without(k)
  /\ UNCHANGED << left, at >>

ItNew ==
  /\ left = NoIterator
  /\ left' = Iterating(DOMAIN map)
  /\ UNCHANGED << map, at, ret >>

(* Every key once, in any order, and the end only after the last one.      *)
ItNext ==
  /\ left # NoIterator
  /\ \/ \E k \in left[1] :
          left' = Iterating(left[1] \ {k}) /\ at' = {k} /\ ret' = Ok(map[k])
     \/ left[1] = {} /\ at' = {} /\ ret' = Missing /\ UNCHANGED left
  /\ UNCHANGED map

(* The element the iterator is at is removed, once.                        *)
ItRemove ==
  /\ left # NoIterator
  /\ \/ \E k \in at : map' = Without(k) /\ ret' = Ok(map[k])
     \/ at = {} /\ ret' = Missing /\ UNCHANGED map
  /\ at' = {}
  /\ UNCHANGED left

ItFree ==
  /\ left # NoIterator
  /\ left' = NoIterator /\ at' = {}
  /\ UNCHANGED << map, ret >>

Next ==
  \/ \E k \in Key : Get(k) \/ GetAndRemove(k) \/ \E data \in Data : Put(k, data)
  \/ PutFails
  \/ ItNew \/ ItNext \/ ItRemove \/ ItFree

Spec == Init /\ [][Next]_vars
=============================================================================
