----------------------------- MODULE MCHandshake -----------------------------
(* One client and one server. *)
EXTENDS Handshake
=============================================================================
