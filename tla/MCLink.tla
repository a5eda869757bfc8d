------------------------------- MODULE MCLink -------------------------------
(* Link on frames that share sets: a and b fit in one; c with either is as *)
(* long as Capacity, and does not.                                         *)
EXTENDS Link

CONSTANTS a, b, c

MCFrame == {a, b, c}
MCLength == [f \in MCFrame |-> IF f = c THEN 3 ELSE 2]
MCSplit == {}
=============================================================================
