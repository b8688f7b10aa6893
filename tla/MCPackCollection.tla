-------------------------- MODULE MCPackCollection --------------------------
(* Instances of PackCollection for TLC. *)
EXTENDS PackCollection, TLC

CONSTANTS p1, p2, p3, r1, r2, r3

Symmetric == Permutations(Revs)
=============================================================================
