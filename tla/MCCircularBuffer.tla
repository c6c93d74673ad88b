-------------------------- MODULE MCCircularBuffer --------------------------
(* A buffer of three places, so that the indices wrap out of step. *)
EXTENDS CircularBuffer

CONSTANTS a, b, null
MCItem == {a, b}
=============================================================================
