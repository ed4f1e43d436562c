---------------------------- MODULE ModelRelease ----------------------------
(***************************************************************************)
(* Publishing the models to the gateway: the models.apply job of           *)
(* operations (main.py, Workflows.run and reconcile), the gateway's part   *)
(* of the catalog's document (catalog_service/main.py, prepare and commit) *)
(* and GatewayConfig.  The job holds the scope "*", so one is open at a    *)
(* time.  A call that changes state is sent first, executed later, and     *)
(* may be executed after operations stopped waiting for it (180 s), or     *)
(* never; one that only reads is one step.                                 *)
(***************************************************************************)
EXTENDS GatewayConfig, Naturals, Sequences

CONSTANTS MaxCrashes \* bound: restarts of operations and of the gateway

ASSUME CrashesAssumption == MaxCrashes \in Nat

VARIABLES
  job,      \* the newest models.apply job
  catalog,  \* gateway_versions, as the releases they were committed from, and gateway_active
  releases, \* the document's releases
  calls,    \* sent and not yet executed
  answer,   \* what the call the job waits for has answered
  blocked,  \* sandbox_manager holds back every agent
  stray,    \* some call was executed that nobody waited for, since a job last succeeded
  crashes   \* bound

vars == <<gateway, job, catalog, releases, calls, answer, blocked, stray, crashes>>

Commits == [action : {"commit"}, release : Releases]
Unprepared == [version |-> 0, old |-> 0, committed |-> FALSE]

Init ==
  /\ GatewayInit
  /\ job = [status |-> "none", stage |-> "ended", release |-> None]
  /\ catalog = [versions |-> <<>>, active |-> 0]
  /\ releases = [r \in Releases |-> Unprepared]
  /\ calls = {} /\ answer = "none"
  /\ blocked = FALSE /\ stray = FALSE /\ crashes = 0

----------------------------------------------------------------------------
(* Calls *)

Stage(stage) == job' = [job EXCEPT !.stage = stage]
End(status) == job' = [job EXCEPT !.status = status, !.stage = "ended"]

(* The job is at a stage named after the call it waits for. *)
Awaited(c) ==
  /\ c.release = job.release
  /\ c.action = job.stage \/ (c.action = "commit" /\ job.stage = "reconcile")

Send(action, stage) ==
  /\ calls' = calls \cup {[action |-> action, release |-> job.release]}
  /\ answer' = "none"
  /\ Stage(stage)

(* A call was executed: with this answer, for the job or for nobody. *)
Executed(c, result) ==
  /\ answer' = IF Awaited(c) THEN result ELSE answer
  /\ stray' = (stray \/ ~Awaited(c))

(* Refused, or lost on its way: nothing changes but what the job hears. *)
Unexecuted(c) == answer' = (IF Awaited(c) THEN "error" ELSE answer) /\ UNCHANGED stray

----------------------------------------------------------------------------
(* The gateway *)

GatewayOthers == <<job, catalog, releases, blocked>>

GatewayAccepts(c) ==
  /\ Accept(c) /\ c \in calls
  /\ calls' = calls \ {c}
  /\ UNCHANGED <<GatewayOthers, answer, stray, crashes>>

GatewayDeclines(c) ==
  /\ memory.up /\ op = NoOp /\ ~Admitted(c)
  /\ c \in calls /\ calls' = calls \ {c}
  /\ IF Unneeded(c) THEN Executed(c, "ok") ELSE Unexecuted(c)
  /\ UNCHANGED <<gateway, GatewayOthers, crashes>>

GatewayWorks ==
  /\ Persist \/ StoreRelease
  /\ UNCHANGED <<GatewayOthers, calls, answer, stray, crashes>>

GatewayDone ==
  /\ StoreRouter /\ Executed(op.call, "ok")
  /\ UNCHANGED <<GatewayOthers, calls, crashes>>

GatewayFails ==
  /\ Abandon /\ Unexecuted(op.call)
  /\ UNCHANGED <<GatewayOthers, calls, crashes>>

(* The calls the gateway holds are lost with it; the job is told that the  *)
(* connection broke.  A file already replaced stays replaced.              *)
GatewayCrashes ==
  /\ GatewayCrash
  /\ crashes < MaxCrashes /\ crashes' = crashes + 1
  /\ calls' = calls \cap Commits
  /\ stray' = (stray \/ (op # NoOp /\ ~Awaited(op.call)))
  /\ answer' = IF job.stage \in {"activate", "rollback"} /\ answer = "none" THEN "error" ELSE answer
  /\ UNCHANGED GatewayOthers

GatewayStarts ==
  /\ GatewayStart
  /\ UNCHANGED <<GatewayOthers, calls, answer, stray, crashes>>

----------------------------------------------------------------------------
(* The catalog *)

ActiveRelease == IF catalog.active = 0 THEN None ELSE catalog.versions[catalog.active]

Prepared(r) ==
  [version |-> Len(catalog.versions) + 1, old |-> catalog.active, committed |-> FALSE]

Committable(r) == ~releases[r].committed /\ catalog.active = releases[r].old

Commit(c) ==
  /\ Committable(c.release)
  /\ catalog' = [versions |-> Append(catalog.versions, c.release),
                 active |-> releases[c.release].version]
  /\ releases' = [releases EXCEPT ![c.release].committed = TRUE]
  /\ Executed(c, "ok")

(* Already committed, which is the same answer; or the version changed. *)
NotCommit(c) ==
  /\ ~Committable(c.release)
  /\ IF releases[c.release].committed THEN Executed(c, "ok") ELSE Unexecuted(c)
  /\ UNCHANGED <<catalog, releases>>

CatalogCommits(c) ==
  /\ c \in calls \cap Commits /\ calls' = calls \ {c}
  /\ Commit(c) \/ NotCommit(c)
  /\ UNCHANGED <<gateway, job, blocked, crashes>>

(* A call that never arrives, or whose service refuses it. *)
Lose(c) ==
  /\ c \in calls /\ calls' = calls \ {c}
  /\ Unexecuted(c)
  /\ UNCHANGED <<gateway, GatewayOthers, crashes>>

----------------------------------------------------------------------------
(* The job *)

JobOthers == <<gateway, catalog, stray, crashes>>

(* Nothing else runs beside a job of scope "*", nor beside one unresolved.  *)
(* (That a job's last call may overlap the next job is JobStore's matter.)  *)
Free == job.status \in {"none", "succeeded", "failed", "cancelled"}

Submit ==
  /\ Free /\ job.stage = "ended"
  /\ job' = [status |-> "running", stage |-> "prepare", release |-> None]
  /\ UNCHANGED <<JobOthers, releases, calls, answer, blocked>>

(* A bug: the checkpoint does not record the release. *)
PrepareUnrecorded ==
  /\ job.stage = "prepare"
  /\ \E r \in Releases :
       /\ releases[r] = Unprepared
       /\ releases' = [releases EXCEPT ![r] = Prepared(r)]
       /\ job' = [job EXCEPT !.stage = "validate"]
  /\ UNCHANGED <<JobOthers, calls, answer, blocked>>

Prepare ==
  /\ job.stage = "prepare"
  /\ \E r \in Releases :
       /\ releases[r] = Unprepared
       /\ releases' = [releases EXCEPT ![r] = Prepared(r)]
       /\ job' = [job EXCEPT !.stage = "validate", !.release = r]
  /\ UNCHANGED <<JobOthers, calls, answer, blocked>>

Validate ==
  /\ job.stage = "validate" /\ memory.up /\ Stage("quiesce")
  /\ UNCHANGED <<JobOthers, releases, calls, answer, blocked>>

(* Refused, or cancelled: no agent is held back yet. *)
NotBegun ==
  /\ job.stage \in {"prepare", "validate"}
  /\ \E status \in {"failed", "cancelled"} : End(status)
  /\ UNCHANGED <<JobOthers, releases, calls, answer, blocked>>

Quiesce ==
  /\ job.stage = "quiesce"
  /\ blocked' = TRUE
  /\ Send("activate", "activate")
  /\ UNCHANGED <<JobOthers, releases>>

(* The command may have been executed all the same: "finally" resumes. *)
NotQuiesced ==
  /\ job.stage = "quiesce"
  /\ blocked' \in BOOLEAN
  /\ \E status \in {"failed", "cancelled"} : job' = [job EXCEPT !.stage = "resume", !.status = status]
  /\ UNCHANGED <<JobOthers, releases, calls, answer>>

Activated ==
  /\ job.stage = "activate" /\ answer = "ok" /\ Stage("verify")
  /\ UNCHANGED <<JobOthers, releases, calls, answer, blocked>>

(* An activation nobody acknowledged is held for inspection. *)
ActivationUnknown ==
  /\ job.stage = "activate" /\ End("needs_recovery")
  /\ UNCHANGED <<JobOthers, releases, calls, answer, blocked>>

Verify ==
  /\ job.stage = "verify" /\ Serves(job.release)
  /\ Send("commit", "commit")
  /\ UNCHANGED <<JobOthers, releases, blocked>>

(* The wrong status, or none: nothing was committed yet. *)
NotVerified ==
  /\ job.stage = "verify"
  /\ Send("rollback", "rollback")
  /\ UNCHANGED <<JobOthers, releases, blocked>>

Committed ==
  /\ job.stage = "commit" /\ answer = "ok"
  /\ job' = [job EXCEPT !.status = "succeeded", !.stage = "resume"]
  /\ UNCHANGED <<JobOthers, releases, calls, answer, blocked>>

(* A bug: a commit that seems to fail is rolled back at once. *)
CommitRolledBack ==
  /\ job.stage = "commit"
  /\ Send("rollback", "rollback")
  /\ UNCHANGED <<JobOthers, releases, blocked>>

CommitUnknown ==
  /\ job.stage = "commit" /\ Stage("lookup")
  /\ UNCHANGED <<JobOthers, releases, calls, answer, blocked>>

(* The commit that seemed to fail is in the document; or it is not, which  *)
(* is taken for an answer although the call may still arrive.              *)
LookUp ==
  /\ job.stage = "lookup"
  /\ \/ /\ releases[job.release].committed
        /\ job' = [job EXCEPT !.status = "succeeded", !.stage = "resume"]
        /\ UNCHANGED <<calls, answer>>
     \/ /\ ~releases[job.release].committed
        /\ Send("rollback", "rollback")
  /\ UNCHANGED <<JobOthers, releases, blocked>>

(* No compensation without knowing whether the catalog committed. *)
LookUpFails ==
  /\ job.stage = "lookup" /\ End("needs_recovery")
  /\ UNCHANGED <<JobOthers, releases, calls, answer, blocked>>

RolledBack ==
  /\ job.stage = "rollback" /\ answer = "ok"
  /\ job' = [job EXCEPT !.status = "failed", !.stage = "resume"]
  /\ UNCHANGED <<JobOthers, releases, calls, answer, blocked>>

RollbackUnknown ==
  /\ job.stage = "rollback" /\ End("needs_recovery")
  /\ UNCHANGED <<JobOthers, releases, calls, answer, blocked>>

(* A release that succeeded is again the only one of its kind in flight. *)
Resume ==
  /\ job.stage = "resume"
  /\ blocked' = FALSE
  /\ Stage("ended")
  /\ stray' = (stray /\ job.status # "succeeded")
  /\ UNCHANGED <<gateway, catalog, releases, calls, answer, crashes>>

NotResumed ==
  /\ job.stage = "resume" /\ blocked' \in {FALSE, blocked}
  /\ End("needs_recovery")
  /\ UNCHANGED <<JobOthers, releases, calls, answer>>

(* What the restart finds unfinished is left to the operator. *)
OperationsCrash ==
  /\ job.stage # "ended"
  /\ crashes < MaxCrashes /\ crashes' = crashes + 1
  /\ End(IF job.status = "running" \/ job.stage = "reconcile" THEN "needs_recovery" ELSE job.status)
  /\ UNCHANGED <<gateway, catalog, releases, calls, answer, blocked, stray>>

----------------------------------------------------------------------------
(* reconcile() *)

Reconcilable == job.stage = "ended" /\ job.status \in {"needs_recovery", "failed"} /\ job.release # None

Reconcile ==
  /\ Reconcilable
  /\ ~releases[job.release].committed /\ Serves(job.release)
  /\ Send("commit", "reconcile")
  /\ UNCHANGED <<JobOthers, releases, blocked>>

ReconcileCommitted ==
  /\ Reconcilable /\ releases[job.release].committed
  /\ Stage("reconciled")
  /\ UNCHANGED <<JobOthers, releases, calls, answer, blocked>>

Recommitted ==
  /\ job.stage = "reconcile" /\ answer = "ok" /\ Stage("reconciled")
  /\ UNCHANGED <<JobOthers, releases, calls, answer, blocked>>

Reconciled ==
  /\ job.stage = "reconciled"
  /\ blocked' = FALSE
  /\ End("succeeded")
  /\ UNCHANGED <<JobOthers, releases, calls, answer>>

(* Any of its calls fails: the job keeps its status. *)
NotReconciled ==
  /\ job.stage \in {"reconcile", "reconciled"} /\ Stage("ended")
  /\ blocked' \in {blocked, blocked /\ job.stage = "reconcile"}
  /\ UNCHANGED <<JobOthers, releases, calls, answer>>

----------------------------------------------------------------------------
GatewaySteps ==
  \/ \E c \in Calls : GatewayAccepts(c) \/ GatewayDeclines(c)
  \/ GatewayWorks \/ GatewayDone \/ GatewayFails
  \/ GatewayCrashes \/ GatewayStarts

JobSteps ==
  \/ Submit \/ Prepare \/ Validate \/ NotBegun \/ Quiesce \/ NotQuiesced
  \/ Activated \/ ActivationUnknown \/ Verify \/ NotVerified
  \/ Committed \/ CommitUnknown \/ LookUp \/ LookUpFails
  \/ RolledBack \/ RollbackUnknown \/ Resume \/ NotResumed \/ OperationsCrash
  \/ Reconcile \/ ReconcileCommitted \/ Recommitted \/ Reconciled \/ NotReconciled

Next ==
  \/ GatewaySteps \/ JobSteps
  \/ \E c \in Commits : CatalogCommits(c)
  \/ \E c \in Calls \cup Commits : Lose(c)

Spec == Init /\ [][Next]_vars

----------------------------------------------------------------------------
Stages ==
  {"prepare", "validate", "quiesce", "activate", "verify", "commit", "lookup", "rollback", "resume",
   "reconcile", "reconciled", "ended"}

(* The variables have their types; one call at most holds the lock; a job   *)
(* that waits for a call or works on a release has one.                     *)
TypeOK ==
  LET OrNone == Releases \cup {None} IN
  /\ disk \in [active : OrNone, previous : OrNone]
  /\ memory \in [active : OrNone, previous : OrNone, router : OrNone, up : BOOLEAN]
  /\ op \in {NoOp} \cup [stage : {"building", "written", "storing"}, call : Calls]
  /\ job \in [status : {"none", "running", "succeeded", "failed", "cancelled", "needs_recovery"},
               stage : Stages, release : OrNone]
  /\ job.stage \notin {"prepare", "ended"} => job.release # None
  /\ catalog.versions \in Seq(Releases) /\ catalog.active \in 0..Len(catalog.versions)
  /\ releases \in [Releases -> [version : Nat, old : Nat, committed : BOOLEAN]]
  /\ calls \subseteq Calls \cup Commits
  /\ answer \in {"none", "ok", "error"}
  /\ blocked \in BOOLEAN /\ stray \in BOOLEAN /\ crashes \in 0..MaxCrashes

(* When no models job is open, the gateway serves the release of the        *)
(* catalog's active version: through every crash, error and time-out, as    *)
(* long as no call is executed after its caller gave it up (operations      *)
(* main.py, Workflows.run: the order activate, commit, look up, roll back,  *)
(* and what is never compensated).                                          *)
Agreement ==
  (/\ Free /\ job.stage = "ended"
   /\ memory.up /\ op = NoOp /\ ~stray) => memory.router = ActiveRelease

(* While an acknowledged release may still be rolled back, the gateway      *)
(* holds the release the catalog calls active as the one to return to       *)
(* (model_gateway state.py, rollback; operations main.py:418-429).          *)
ReturnKept ==
  (/\ job.stage \in {"verify", "commit", "lookup"} /\ ~releases[job.release].committed
   /\ memory.up /\ ~stray) => memory.active = job.release /\ memory.previous = ActiveRelease
=============================================================================
