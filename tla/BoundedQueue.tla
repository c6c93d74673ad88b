---------------------------- MODULE BoundedQueue ----------------------------
(***************************************************************************)
(* What circular_buffer.h promises its users: a first-in first-out queue   *)
(* of at most Capacity items, with a put that overwrites the oldest item   *)
(* of a full queue and one that refuses.  CircularBuffer implements it;    *)
(* TxPath queues its multicast frames in it.                               *)
(***************************************************************************)
EXTENDS Integers, Sequences

CONSTANTS
  Item,      \* what is queued: pointers in the code
  Capacity,  \* circular_buf_capacity, at least 1
  NoItem     \* returned by a call that yields no item

VARIABLES
  queue,   \* oldest item first
  ret      \* what the last call returned

IsFull(q) == Len(q) = Capacity

(* The queue after a put that never fails. *)
Pushed(q, x) == Append(IF IsFull(q) THEN Tail(q) ELSE q, x)

(* The queue after one such put after the other: the last items of all.    *)
PushedAll(q, xs) ==
  LET all == q \o xs
      over == Len(all) - Capacity
  IN  IF over > 0 THEN SubSeq(all, over + 1, Len(all)) ELSE all

Ok(x) == [ r |-> 0, data |-> x ]
Failed == [ r |-> -1, data |-> NoItem ]

Init == queue = << >> /\ ret = Ok(NoItem)

Put(x) ==
  /\ queue' = Pushed(queue, x)
  /\ ret' = Ok(NoItem)

Put2(x) ==
  IF IsFull(queue)
    THEN ret' = Failed /\ UNCHANGED queue
    ELSE queue' = Append(queue, x) /\ ret' = Ok(NoItem)

Get(peek) ==
  IF queue = << >>
    THEN ret' = Failed /\ UNCHANGED queue
    ELSE /\ ret' = Ok(Head(queue))
         /\ queue' = IF peek THEN queue ELSE Tail(queue)

Reset == queue' = << >> /\ ret' = Ok(NoItem)

Next ==
  \/ \E x \in Item : Put(x) \/ Put2(x)
  \/ \E peek \in BOOLEAN : Get(peek)
  \/ Reset

Spec == Init /\ [][Next]_<< queue, ret >>
=============================================================================
