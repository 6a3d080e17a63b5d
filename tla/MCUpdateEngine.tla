--------------------------- MODULE MCUpdateEngine ---------------------------
(* UpdateEngine on an application of two parts. *)
EXTENDS UpdateEngine, TLC

CONSTANTS exe, lib

TwoParts == {exe, lib}
Symmetry == Permutations(TwoParts)
=============================================================================
