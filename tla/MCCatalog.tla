----------------------------- MODULE MCCatalog -----------------------------
(* Small instances of Catalog for TLC.  From an installation that serves   *)
(* one agent: a1 is published with the model m1, the gateway's second      *)
(* version, and its private resource s1.                                   *)
EXTENDS Catalog, TLC

CONSTANTS a1, m1, s1, c1

Published1 == [enabled |-> TRUE, allowed |-> {m1}, bindings |-> s1 :> 1]

Installed ==
  [EmptyDocument EXCEPT
     !.models = m1 :> "enabled",
     !.resources = s1 :> [NewResource(a1, c1) EXCEPT !.versions = <<c1>>],
     !.agents = a1 :> [NewAgent(Published1) EXCEPT
                         !.versions = <<[version |-> 1, config |-> Published1]>>, !.active = 1],
     !.gateway = [versions |-> <<m1 :> "disabled", m1 :> "enabled">>, active |-> 2]]

(* An installation whose gateway has no version yet: its agent is a draft  *)
(* on a model of the original deployment.                                  *)
Draft1 == [Published1 EXCEPT !.bindings = <<>>]

Migrated ==
  [EmptyDocument EXCEPT !.models = m1 :> "legacy", !.agents = a1 :> NewAgent(Draft1)]

(* The same with a gateway version without models, and the agent published *)
(* on the legacy model; one edit less is left.                             *)
Emptied ==
  [Migrated EXCEPT
     !.agents[a1].versions = <<[version |-> 1, config |-> Draft1]>>, !.agents[a1].active = 1,
     !.gateway = [versions |-> << <<>> >>, active |-> 1]]

MCInit ==
  /\ Idle
  /\ \/ revision = 0 /\ doc \in {Installed, Migrated}
     \/ revision = 1 /\ doc = Emptied
MCSpec == MCInit /\ [][Next]_vars

(* Before its first publication, with a shared resource. *)
MCInitDraft ==
  /\ revision = 0 /\ Idle
  /\ doc = [Installed EXCEPT !.resources = s1 :> [NewResource(Shared, c1) EXCEPT !.versions = <<c1>>],
                             !.agents = a1 :> NewAgent(Published1)]
MCSpecDraft == MCInitDraft /\ [][Next]_vars

Symmetry == Permutations(Releases)
=============================================================================
