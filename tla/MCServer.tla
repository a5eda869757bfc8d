------------------------------ MODULE MCServer ------------------------------
(* The server with clients that share addresses and guids, for TLC. *)
EXTENDS Server

CONSTANTS a1, a2, g1, g2, w1, w2

\* a client, the same client from a second address, and another at the first
MCClients == {[addr |-> a1, guid |-> g1], [addr |-> a2, guid |-> g1], [addr |-> a1, guid |-> g2]}
=============================================================================
