----------------------------- MODULE MCJobStore -----------------------------
(* Small instances of JobStore for TLC. *)
EXTENDS JobStore, TLC

(* Jobs, tasks and agents are only compared for equality. *)
Symmetry == Permutations(Jobs) \cup Permutations(Workers) \cup Permutations(Agents)
=============================================================================
