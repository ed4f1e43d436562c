--------------------------- MODULE MCModelRelease ---------------------------
(* A small instance of ModelRelease for TLC. *)
EXTENDS ModelRelease, TLC

CONSTANTS r1, r2, r3

Symmetry == Permutations(Releases)
=============================================================================
