------------------------------ MODULE MCStartup ------------------------------
(* Values for TLC. *)
EXTENDS Startup
=============================================================================
