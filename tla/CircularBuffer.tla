--------------------------- MODULE CircularBuffer ---------------------------
(***************************************************************************)
(* The ring buffer of circular_buffer.c: an array, the index of the next   *)
(* write (head), the index of the oldest item (tail) and a flag that tells *)
(* the full buffer from the empty one when the two indices meet.           *)
(***************************************************************************)
EXTENDS Integers, Sequences

CONSTANTS
  Item,      \* what is stored: pointers in the code
  Capacity,  \* max
  NoItem     \* returned by a call that yields no item

ASSUME BufferAssumption ==
  /\ Capacity \in Nat \ {0}
  /\ NoItem \notin Item

VARIABLES
  buffer,   \* indexed from 0
  head,
  tail,
  full,
  ret       \* what the last call returned: r and, from a get, the item

vars == << buffer, head, tail, full, ret >>

Index == 0 .. Capacity - 1

(* Fault: the index runs off the end. *)
SuccUnwrapped(i) == i + 1

Succ(i) == (i + 1) % Capacity

Empty == ~full /\ head = tail

(* circular_buf_size *)
Size ==
  IF full THEN Capacity
  ELSE IF head >= tail THEN head - tail
  ELSE Capacity + head - tail

-----------------------------------------------------------------------------
(* The memory of a new buffer is whatever malloc returned. *)
Init ==
  /\ buffer \in [ Index -> Item ]
  /\ head = 0
  /\ tail = 0
  /\ full = FALSE
  /\ ret = [ r |-> 0, data |-> NoItem ]

(* Fault: the oldest item of a full buffer stays in place. *)
AdvanceKeepingTail ==
  /\ tail' = tail
  /\ head' = Succ(head)
  /\ full' = (head' = tail')

(* advance_pointer: a full buffer loses its oldest item. *)
Advance ==
  /\ tail' = IF full THEN Succ(tail) ELSE tail
  /\ head' = Succ(head)
  /\ full' = (head' = tail')

Retreat ==
  /\ full' = FALSE
  /\ tail' = Succ(tail)
  /\ UNCHANGED head

Put(x) ==
  /\ buffer' = [ buffer EXCEPT ![head] = x ]
  /\ Advance
  /\ ret' = [ r |-> 0, data |-> NoItem ]

Put2(x) ==
  IF ~full
    THEN Put(x)
    ELSE /\ ret' = [ r |-> -1, data |-> NoItem ]
         /\ UNCHANGED << buffer, head, tail, full >>

Get(peek) ==
  IF ~Empty
    THEN /\ ret' = [ r |-> 0, data |-> buffer[tail] ]
         /\ IF peek THEN UNCHANGED << head, tail, full >> ELSE Retreat
         /\ UNCHANGED buffer
    ELSE /\ ret' = [ r |-> -1, data |-> NoItem ]
         /\ UNCHANGED << buffer, head, tail, full >>

Reset ==
  /\ head' = 0
  /\ tail' = 0
  /\ full' = FALSE
  /\ ret' = [ r |-> 0, data |-> NoItem ]
  /\ UNCHANGED buffer

Next ==
  \/ \E x \in Item : Put(x) \/ Put2(x)
  \/ \E peek \in BOOLEAN : Get(peek)
  \/ Reset

Spec == Init /\ [][Next]_vars

-----------------------------------------------------------------------------
TypeOK ==
  /\ buffer \in [ Index -> Item ]
  /\ head \in Index
  /\ tail \in Index
  /\ full \in BOOLEAN
  /\ ret \in [ r : {0, -1}, data : Item \cup {NoItem} ]

(* The items in the order in which they leave, and as many as the buffer   *)
(* says it holds.                                                          *)
Position(i) == IF tail + i > Capacity THEN tail + i - 1 - Capacity
                                      ELSE tail + i - 1

Contents == [ i \in 1 .. Size |-> buffer[Position(i)] ]

Queue == INSTANCE BoundedQueue WITH queue <- Contents

(* Through any sequence of calls the buffer returns what a bounded first-  *)
(* in first-out queue would.                                               *)
ImplementsQueue == Queue!Spec
=============================================================================
