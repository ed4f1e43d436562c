----------------------------- MODULE MCLoadTest -----------------------------
(* Small instances of LoadTest for TLC: the users u1, u2 and their test.   *)
EXTENDS LoadTest, TLC

CONSTANTS t1, u1, u2

OneTest == u1 :> t1
TwoUsers == u1 :> t1 @@ u2 :> t1
Symmetry == Permutations(Users)
=============================================================================
