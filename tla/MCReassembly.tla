---------------------------- MODULE MCReassembly ----------------------------
(* Reassembly of whole and split messages, as many split as there are ids. *)
EXTENDS Reassembly, TLC

MCParts == 0 :> 2 @@ 1 :> 1 @@ 2 :> 3 @@ 3 :> 1 @@ 4 :> 2
=============================================================================
