------------------------------ MODULE MCClient ------------------------------
(* The client with named servers for TLC. *)
EXTENDS Client

CONSTANTS s1, s2
=============================================================================
