--------------------------- MODULE MCSessionRoutes ---------------------------
(* A small instance of SessionRoutes for TLC. *)
EXTENDS SessionRoutes

CONSTANTS o1, o2, s1, s2, r1, r2
=============================================================================
