--------------------------- MODULE MCParticiones ---------------------------
(***************************************************************************)
(* Instances of Particiones for TLC. Sizes are in units: only their order  *)
(* and their sums matter to the allocator.                                 *)
(***************************************************************************)
EXTENDS Particiones, TLC

CONSTANTS d1, d2, d3, d4, d5

Direcciones3 == {d1, d2, d3}
Direcciones4 == {d1, d2, d3, d4}
Direcciones5 == {d1, d2, d3, d4, d5}
Simetria == Permutations(DIRS)

SinFrecuencia == -1
=============================================================================
