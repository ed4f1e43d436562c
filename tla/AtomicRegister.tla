--------------------------- MODULE AtomicRegister ---------------------------
(***************************************************************************)
(* What the model gateway promises about its configuration                 *)
(* (model_gateway/docs/README.md, "atomically persists ... and swaps it"): *)
(* the release it serves, and the one release a rollback returns to,       *)
(* change together and in one step, whatever crashes in between.           *)
(***************************************************************************)
CONSTANTS Releases, None

VARIABLES value, previous

Init == value = None /\ previous = None

Activate(r) == r # value /\ value' = r /\ previous' = value

(* One release back, once. *)
Rollback == previous # None /\ value' = previous /\ previous' = None

Next == Rollback \/ \E r \in Releases : Activate(r)

Spec == Init /\ [][Next]_<<value, previous>>
=============================================================================
