-------------------------- MODULE MCSandboxLeases --------------------------
(* Small instances of SandboxLeases for TLC. *)
EXTENDS SandboxLeases, TLC

Symmetry == Permutations(Users) \cup Permutations(Requests)
=============================================================================
