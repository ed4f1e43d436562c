--------------------------- MODULE MCPublication ---------------------------
(* Small instances of Publication for TLC. *)
EXTENDS Publication, TLC

Symmetry == Permutations(Jobs) \cup Permutations(Workers) \cup Permutations(Contents)
            \cup Permutations(Clients)
=============================================================================
