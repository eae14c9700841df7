------------------------------- MODULE MCBuddy -------------------------------
(***************************************************************************)
(* Instances of Buddy for TLC: a memory of 8 units, four levels.           *)
(***************************************************************************)
EXTENDS Buddy

CONSTANTS d1, d2, d3, d4

Direcciones4 == {d1, d2, d3, d4}

Potencias == [l \in 0 .. NIVELES |-> 2 ^ l]
=============================================================================
