-------------------------- MODULE MCOrderLifecycle --------------------------
(* OrderLifecycle on two or three decisions. *)
EXTENDS OrderLifecycle, TLC

CONSTANTS d1, d2, d3

TwoDecisions == {d1, d2}
ThreeDecisions == {d1, d2, d3}
Symmetry == Permutations(ThreeDecisions)
=============================================================================
