------------------------------ MODULE JobStore ------------------------------
(***************************************************************************)
(* The job table of operations (operations/src/store.py), the asyncio      *)
(* workers that run one job each (Workflows.run in operations/main.py),    *)
(* the administrator's endpoints that write the table, and the restart of  *)
(* the service.  A worker is suspended at one remote call at a time: its   *)
(* "pc" names that call, and one action is the code between two awaits.    *)
(* The outcome of a remote call is nondeterministic here; Publication      *)
(* gives the calls of a publication their effect.                          *)
(***************************************************************************)
EXTENDS Naturals, FiniteSets

CONSTANTS
  Jobs,        \* request ids; the UNIQUE column makes one job of each
  Workers,     \* slots for asyncio tasks (Workflows.tasks)
  Agents,      \* agent ids, the scopes of every job but models.apply
  Kinds,       \* the kinds of job the administrators submit
  MaxRetries,  \* bound: confirmed retries of one job
  MaxRestarts, \* bound: stops and crashes of the service
  MaxTests     \* bound: load tests started

AllKinds == {"agent.apply", "models.apply", "sandbox.action",
             "agent.archive", "agent.restore", "agent.delete", "agent.delete-empty"}

ASSUME KindsAssumption == Kinds \subseteq AllKinds
ASSUME ScopeAssumption == "*" \notin Agents
ASSUME BoundsAssumption ==
  MaxRetries \in Nat /\ MaxRestarts \in Nat /\ MaxTests \in Nat

Every == "*"
Scopes == Agents \cup {Every}
NoJob == "none"
NoWorker == [job |-> NoJob, pc |-> "idle"]

ASSUME JobsAssumption == NoJob \notin Jobs

Executing == {"queued", "running", "waiting", "applying"}
Held == {"needs_recovery", "interrupted"}
Active == Executing \cup Held
Statuses == Active \cup {"none", "succeeded", "failed", "cancelled"}

ApplyKinds == {"agent.apply", "models.apply"}
DeleteKinds == {"agent.delete", "agent.delete-empty"}

(* The remote calls of run(), in the order each kind makes them.  "begin"  *)
(* is no call: it separates the two checkpoints a worker that prepares     *)
(* nothing writes back to back, between which the cancel endpoint (a       *)
(* threadpool function) may still write the row.                           *)
Quiet == {"start", "begin", "prepare", "validate"}
Effects == {"apply", "verify", "commit", "inspect", "act", "archive",
            "deleting", "delete", "files", "lifecycle"}
Body == Quiet \cup {"quiesce"} \cup Effects
Stages == Body \cup {"compensate", "recheck", "resume"}

NextStage(k, s) ==
  CASE s = "start"    -> IF k \in ApplyKinds THEN "prepare" ELSE "begin"
    [] s = "begin"    -> IF k = "sandbox.action" THEN "act" ELSE "quiesce"
    [] s = "prepare"  -> "validate"
    [] s = "validate" -> "quiesce"
    [] s = "quiesce"  -> CASE k \in ApplyKinds      -> "apply"
                           [] k = "agent.archive"   -> "archive"
                           [] k \in DeleteKinds     -> "deleting"
                           [] OTHER                 -> "lifecycle"
    [] s = "apply"    -> "verify"
    [] s = "verify"   -> "commit"
    [] s = "archive"  -> "lifecycle"
    [] s = "deleting" -> "delete"
    [] s = "delete"   -> "files"
    [] OTHER          -> "lifecycle"

LastStages == {"commit", "act", "lifecycle"}
(* Mutant: checkpoint() writes with update() instead of transition(). *)
UncheckedUpdate(s, t) == TRUE
(* Stages entered without reading the status (no checkpoint() call). *)
Unchecked(s, t) == t = "delete" \/ t = "files" \/ (t = "lifecycle" /\ s # "quiesce")

VARIABLES
  kind, scope,     \* columns of each request, fixed when it is written
  released,        \* jobs whose row has a release_id
  status,          \* the status column; "none" before the row exists
  retries,         \* length of the job's "attempts"
  worker,          \* the asyncio tasks: [job, pc]
  reconciling,     \* jobs with a reconcile() suspended at its evidence calls
  cancelling,      \* tasks whose cancellation has not been delivered yet
  pinned,          \* agents of the active load test
  phase,           \* "up", or "stopping" while the lifespan cancels the tasks
  restarts, tests, \* bounds
  touched,         \* history: an execution of this job began changing the target and
                   \* neither completed nor was compensated nor was reconciled
  accepted         \* history: a cancellation of this job was accepted

rows    == <<kind, scope, released, status, retries>>
control == <<reconciling, cancelling, phase, restarts>>
loads   == <<pinned, tests>>
history == <<touched, accepted>>
vars    == <<rows, worker, control, loads, history>>

----------------------------------------------------------------------------
(* store.py *)

Conflict(s, t) == s = Every \/ t \in {s, Every}

(* The test submit() makes of the whole table inside BEGIN IMMEDIATE.      *)
(* (TargetHeldExact, like every operator introduced as a mutant below, is  *)
(* a plausible slip that the properties are tested against.)               *)
TargetHeldExact(j) == \E k \in Jobs : status[k] \in Active /\ scope[j] = scope[k]
TargetHeld(j) == \E k \in Jobs : status[k] \in Active /\ Conflict(scope[j], scope[k])

LoadPinned(s) == IF s = Every THEN pinned # {} ELSE s \in pinned

Free == {w \in Workers : worker[w].pc = "idle"}
Spawn(w, j) == worker' = [worker EXCEPT ![w] = [job |-> j, pc |-> "start"]]
SetStatus(j, s) == status' = [status EXCEPT ![j] = s]

Init ==
  /\ \E request \in [Jobs -> {r \in Kinds \X Scopes :
                                (r[1] = "models.apply") <=> (r[2] = Every)}] :
       /\ kind = [j \in Jobs |-> request[j][1]]
       /\ scope = [j \in Jobs |-> request[j][2]]
  /\ status = [j \in Jobs |-> "none"]
  /\ released = {} /\ retries = [j \in Jobs |-> 0]
  /\ worker = [w \in Workers |-> NoWorker]
  /\ reconciling = {} /\ cancelling = {} /\ pinned = {}
  /\ phase = "up" /\ restarts = 0 /\ tests = 0
  /\ touched = [j \in Jobs |-> FALSE]
  /\ accepted = [j \in Jobs |-> FALSE]

(* The submit endpoint: one BEGIN IMMEDIATE transaction, then spawn. *)
Submit(j) ==
  /\ phase = "up" /\ status[j] = "none"
  /\ ~LoadPinned(scope[j])
  /\ ~TargetHeld(j)
  /\ SetStatus(j, "queued")
  /\ \E w \in Free : Spawn(w, j)
  /\ UNCHANGED <<kind, scope, released, retries, control, loads, history>>

(* retry_deletion(): another execution of an unfinished permanent deletion. *)
RetryDeletion(j) ==
  /\ phase = "up" /\ retries[j] < MaxRetries
  /\ kind[j] = "agent.delete"
  /\ status[j] \in {"failed"} \cup Held
  /\ ~\E k \in Jobs \ {j} : status[k] \in Active /\ scope[k] \in {scope[j], Every}
  /\ SetStatus(j, "queued")
  /\ retries' = [retries EXCEPT ![j] = @ + 1]
  /\ touched' = [touched EXCEPT ![j] = FALSE]
  /\ \E w \in Free : Spawn(w, j)
  /\ UNCHANGED <<kind, scope, released, accepted, control, loads>>

(* The cancel endpoint, one transition(). *)
Cancel(j) ==
  /\ phase = "up"
  /\ status[j] \in {"queued", "running", "waiting", "cancelled"}
  /\ kind[j] # "agent.delete"
  /\ SetStatus(j, "cancelled")
  /\ accepted' = [accepted EXCEPT ![j] = TRUE]
  /\ UNCHANGED <<kind, scope, released, retries, worker, control, loads, touched>>

----------------------------------------------------------------------------
(* Workflows.run *)

(* Mutant: the task ends but stays registered for its job. *)
FinishKeepsJob(w) == worker' = [worker EXCEPT ![w].pc = "idle"]
Finish(w) == worker' = [worker EXCEPT ![w] = NoWorker]
Goto(w, s) == worker' = [worker EXCEPT ![w].pc = s]

QuiesceStarted(s) == s \notin Quiet \cup {"act"}
(* Mutant: the flag is set when the first changing call has answered. *)
ApplyStartedLate(s) == s \in Effects \ {"apply", "act", "archive", "deleting"}
ApplyStarted(s)   == s \in Effects \cup {"compensate", "recheck"}

(* Mutant: only a job that succeeded resumes its target. *)
FinallySucceeded(w, s, final) ==
  IF QuiesceStarted(s) /\ final = "succeeded" THEN Goto(w, "resume") ELSE Finish(w)
(* The finally clause: resume the target unless its row needs recovery. *)
Finally(w, s, final) ==
  IF QuiesceStarted(s) /\ final # "needs_recovery" THEN Goto(w, "resume") ELSE Finish(w)

(* A worker ends its body with a status write and enters the finally clause. *)
End(w, s, final) ==
  /\ SetStatus(worker[w].job, final)
  /\ Finally(w, s, final)

(* Entering a stage: checkpoint() moves an executing row on, and the first *)
(* call that changes the target is preceded by status "applying".          *)
Entered(k, s, t, old) ==
  CASE s = "start"                        -> "running"
    [] t = "quiesce"                      -> "waiting"
    [] s = "quiesce" \/ t = "act"         -> "applying"
    [] OTHER                              -> old

(* The call the worker waits for answers, and the next checkpoint succeeds. *)
Advance(w) ==
  LET j == worker[w].job
      s == worker[w].pc
      t == NextStage(kind[j], s)
  IN /\ s \in Body \ (LastStages \cup {"inspect"})
     /\ Unchecked(s, t) \/ status[j] \in Executing
     /\ SetStatus(j, Entered(kind[j], s, t, status[j]))
     /\ Goto(w, t)
     /\ released' = IF s = "prepare" THEN released \cup {j} ELSE released
     /\ touched' = [touched EXCEPT ![j] = @ \/ t \in Effects]
     /\ UNCHANGED <<kind, scope, retries, accepted, control, loads>>

(* checkpoint() finds the row cancelled: the worker raises CancelledError *)
(* and its handler leaves the row as it is.                               *)
StopCancelled(w) ==
  LET j == worker[w].job
      s == worker[w].pc
  IN /\ s \in Body \ (LastStages \cup {"inspect"})
     /\ ~Unchecked(s, NextStage(kind[j], s))
     /\ status[j] = "cancelled"
     /\ Finally(w, s, "cancelled")
     /\ UNCHANGED <<rows, control, loads, history>>

(* The last call of the body, or the inspection after it, reports success. *)
Succeed(w) ==
  LET j == worker[w].job IN
  /\ worker[w].pc \in LastStages \cup {"inspect"}
  /\ End(w, worker[w].pc, "succeeded")
  /\ touched' = [touched EXCEPT ![j] = FALSE]
  /\ UNCHANGED <<kind, scope, released, retries, accepted, control, loads>>

(* A commit whose answer is an error is looked up before it is believed. *)
LookUp(w) ==
  /\ worker[w].pc = "commit"
  /\ Goto(w, "inspect")
  /\ UNCHANGED <<rows, control, loads, history>>

(* The Exception handler without a compensation. *)
Give(w) ==
  LET s == worker[w].pc IN
  /\ End(w, s, IF ApplyStarted(s) THEN "needs_recovery" ELSE "failed")
  /\ UNCHANGED <<kind, scope, released, retries, control, loads, history>>

(* An acknowledged application is compensated when the catalog is known    *)
(* not to have committed it; an agent without a previous bundle cannot be. *)
Compensate(w) ==
  /\ kind[worker[w].job] \in ApplyKinds
  /\ Goto(w, "compensate")
  /\ UNCHANGED <<rows, control, loads, history>>

(* The call the worker waits for fails. *)
FailCall(w) ==
  /\ worker[w].pc \in Body \ {"start", "begin", "commit"}
  /\ Give(w) \/ (worker[w].pc \in {"verify", "inspect"} /\ Compensate(w))

(* The call succeeds, but checkpoint() finds a row another writer moved.   *)
Refuse(w) ==
  LET j == worker[w].job
      s == worker[w].pc
  IN /\ s \in Body \ (LastStages \cup {"inspect"})
     /\ ~Unchecked(s, NextStage(kind[j], s))
     /\ status[j] \notin Executing \cup {"cancelled"}
     /\ Give(w) \/ (s \in {"apply", "verify"} /\ Compensate(w))

(* The compensating calls answer: an agent re-applies its previous bundle  *)
(* and verifies it, the model gateway rolls back.                          *)
Reapplied(w) ==
  /\ worker[w].pc = "compensate" /\ kind[worker[w].job] = "agent.apply"
  /\ Goto(w, "recheck")
  /\ UNCHANGED <<rows, control, loads, history>>

Compensated(w) ==
  LET j == worker[w].job
      s == worker[w].pc
  IN /\ s = "recheck" \/ (s = "compensate" /\ kind[j] = "models.apply")
     /\ End(w, s, "failed")
     /\ touched' = [touched EXCEPT ![j] = FALSE]
     /\ UNCHANGED <<kind, scope, released, retries, accepted, control, loads>>

NotCompensated(w) ==
  LET s == worker[w].pc IN
  /\ s \in {"compensate", "recheck"}
  /\ End(w, s, "needs_recovery")
  /\ UNCHANGED <<kind, scope, released, retries, control, loads, history>>

(* The resume of the finally clause answers; its failure is written to the *)
(* row whatever the row says by then.                                      *)
Resumed(w) ==
  /\ worker[w].pc = "resume"
  /\ Finish(w)
  /\ UNCHANGED <<rows, control, loads, history>>

NotResumed(w) ==
  /\ worker[w].pc = "resume"
  /\ Finish(w)
  /\ SetStatus(worker[w].job, "needs_recovery")
  /\ UNCHANGED <<kind, scope, released, retries, control, loads, history>>

(* A worker steps when its call has answered, or when it has failed.       *)
OnAnswer(w) ==
  \/ Advance(w) \/ StopCancelled(w) \/ Refuse(w) \/ Succeed(w)
  \/ Reapplied(w) \/ Compensated(w) \/ Resumed(w)
OnError(w) == FailCall(w) \/ LookUp(w) \/ NotCompensated(w) \/ NotResumed(w)

Step(w) == w \notin cancelling /\ (OnAnswer(w) \/ OnError(w))

----------------------------------------------------------------------------
(* Workflows.reconcile: reads the row, gathers evidence from the owners    *)
(* and writes "succeeded" without looking at the row again.                *)

ReconcileBegin(j) ==
  /\ phase = "up" /\ j \notin reconciling
  /\ status[j] \in {"failed"} \cup Held
  /\ j \in released \/ kind[j] \in {"sandbox.action", "agent.delete"}
  /\ reconciling' = reconciling \cup {j}
  /\ UNCHANGED <<rows, worker, cancelling, phase, restarts, loads, history>>

ReconcileDone(j) ==
  /\ j \in reconciling
  /\ reconciling' = reconciling \ {j}
  /\ SetStatus(j, "succeeded")
  /\ touched' = [touched EXCEPT ![j] = FALSE]
  /\ UNCHANGED <<kind, scope, released, retries, worker, cancelling, phase,
                 restarts, loads, accepted>>

ReconcileFailed(j) ==
  /\ j \in reconciling
  /\ reconciling' = reconciling \ {j}
  /\ UNCHANGED <<rows, worker, cancelling, phase, restarts, loads, history>>

----------------------------------------------------------------------------
(* The load tests the table is checked against (load_test_store.py).       *)

(* Mutant: a job on every target is not a job on a selected agent. *)
AgentsHeldExact(S) ==
  \E j \in Jobs : status[j] \in Executing \cup {"needs_recovery"} /\ scope[j] \in S
AgentsHeld(S) ==
  \E j \in Jobs : /\ status[j] \in Executing \cup {"needs_recovery"}
                  /\ scope[j] \in S \cup {Every}

LoadStart(S) ==
  /\ phase = "up" /\ tests < MaxTests
  /\ pinned = {} /\ S # {}
  /\ ~AgentsHeld(S)
  /\ pinned' = S /\ tests' = tests + 1
  /\ UNCHANGED <<rows, worker, control, history>>

LoadEnd ==
  /\ pinned # {} /\ pinned' = {}
  /\ UNCHANGED <<rows, worker, control, tests, history>>

----------------------------------------------------------------------------
(* Stop and restart of the service (lifespan in create_app).               *)

(* The lifespan ends once the open requests have: every task is cancelled. *)
(* It runs on the event loop, so no worker is between two checkpoints.     *)
Stop ==
  /\ phase = "up" /\ restarts < MaxRestarts /\ reconciling = {}
  /\ \A w \in Workers : worker[w].pc # "begin"
  /\ phase' = "stopping" /\ restarts' = restarts + 1
  /\ cancelling' = Workers \ Free
  /\ UNCHANGED <<rows, worker, reconciling, loads, history>>

(* CancelledError is raised at the call a task waits for.  A task that has *)
(* not run yet never does; one inside its compensation or its resume is    *)
(* past the handler, and the row stays as it is.                           *)
DeliverCancel(w) ==
  LET j == worker[w].job
      s == worker[w].pc
  IN /\ w \in cancelling
     /\ cancelling' = cancelling \ {w}
     /\ IF s \in {"start", "resume"} THEN Finish(w) /\ UNCHANGED status
        ELSE IF s \in {"compensate", "recheck"} \/ status[j] = "cancelled"
          THEN Finally(w, s, status[j]) /\ UNCHANGED status
          ELSE End(w, s, IF ApplyStarted(s) THEN "needs_recovery" ELSE "interrupted")
     /\ UNCHANGED <<kind, scope, released, retries, reconciling, phase, restarts,
                    loads, history>>

(* Mutant: a restart leaves the queued rows to their submitters. *)
RequeuedNone == {}
Requeued == {j \in Jobs : status[j] = "queued"}

(* Start: executing rows need recovery, queued ones get a task again, and  *)
(* active load tests end (load.store.recover).                             *)
Start ==
  LET queued == Requeued IN
  /\ \E task \in [queued -> Workers] :
       /\ \A i, j \in queued : task[i] = task[j] => i = j
       /\ worker' = [w \in Workers |->
            IF \E j \in queued : task[j] = w
              THEN [job |-> CHOOSE j \in queued : task[j] = w, pc |-> "start"]
              ELSE NoWorker]
  /\ status' = [j \in Jobs |-> IF status[j] \in Executing \ {"queued"}
                                THEN "needs_recovery" ELSE status[j]]
  /\ reconciling' = {} /\ cancelling' = {} /\ pinned' = {} /\ phase' = "up"
  /\ UNCHANGED <<kind, scope, released, retries, tests, history>>

Restart == phase = "stopping" /\ Free = Workers /\ Start /\ UNCHANGED restarts

(* A crash loses every task at once. *)
Crash == restarts < MaxRestarts /\ restarts' = restarts + 1 /\ Start

Next ==
  \/ \E j \in Jobs : \/ Submit(j) \/ RetryDeletion(j) \/ Cancel(j)
                     \/ ReconcileBegin(j) \/ ReconcileDone(j) \/ ReconcileFailed(j)
  \/ \E w \in Workers : Step(w) \/ DeliverCancel(w)
  \/ \E S \in SUBSET Agents : LoadStart(S)
  \/ LoadEnd \/ Stop \/ Restart \/ Crash

Spec == Init /\ [][Next]_vars

(* Every call of a worker ends within its timeout (180 s), tasks and       *)
(* cancellations are run by the event loop, and a stopped service is       *)
(* started again.  Nothing obliges a client or a test to act.              *)
Fairness ==
  /\ \A w \in Workers : WF_vars(Step(w)) /\ WF_vars(DeliverCancel(w))
  /\ WF_vars(Restart)

FairSpec == Spec /\ Fairness

----------------------------------------------------------------------------
(* Properties *)

(* Type correctness of the table, the tasks and the history variables.     *)
TypeOK ==
  /\ kind \in [Jobs -> Kinds] /\ scope \in [Jobs -> Scopes]
  /\ released \subseteq Jobs /\ status \in [Jobs -> Statuses]
  /\ retries \in [Jobs -> Nat]
  /\ worker \in [Workers -> [job : Jobs, pc : Stages] \cup {NoWorker}]
  /\ reconciling \subseteq Jobs /\ cancelling \subseteq Workers
  /\ pinned \subseteq Agents /\ phase \in {"up", "stopping"}
  /\ restarts \in Nat /\ tests \in Nat
  /\ touched \in [Jobs -> BOOLEAN] /\ accepted \in [Jobs -> BOOLEAN]

(* The target lease of store.py: two different jobs whose scopes overlap   *)
(* are never both queued or under way, whatever retries, cancellations,    *)
(* late workers and restarts did to the rows in between.                   *)
ExecutingExclusive ==
  \A i, j \in Jobs :
    i # j /\ status[i] \in Executing /\ status[j] \in Executing => ~Conflict(scope[i], scope[j])

(* Operations and load tests share one admission: an agent pinned by an    *)
(* active test has no job under way, except a retried permanent deletion   *)
(* (retry_deletion does not look at the tests).                            *)
LoadTestExclusive ==
  \A j \in Jobs :
    status[j] \in Executing /\ retries[j] = 0 => ~LoadPinned(scope[j])

(* No worker that began to change its target without completing it or      *)
(* undoing it leaves a row that releases the target: such a row is under   *)
(* way or needs recovery, through failures, lost answers, cancellations    *)
(* and restarts.  (agent.delete: see the double execution below.)          *)
UncertainHeld ==
  \A j \in Jobs :
    touched[j] /\ kind[j] # "agent.delete" => status[j] \in {"applying", "needs_recovery"}

(* An accepted cancellation is honoured: the job never starts changing its *)
(* target, wherever the cancel endpoint's write fell among the worker's.   *)
CancelHonoured == \A j \in Jobs : accepted[j] => ~touched[j]

(* A job that left the executing states never executes again, except a     *)
(* permanent deletion an administrator retried.                            *)
NoResurrection ==
  [][\A j \in Jobs : status[j] \notin Executing \cup {"none"} /\ status'[j] \in Executing
        => status'[j] = "queued" /\ retries'[j] = retries[j] + 1]_vars

(* A queued job is settled: no worker and no restart leaves it executing.  *)
JobSettles == \A j \in Jobs : status[j] \in Executing ~> status[j] \notin Executing

----------------------------------------------------------------------------
(* A sentence of the code that does not hold (README, Findings).           *)

(* "Only interrupted permanent deletion accepts a newly confirmed retry"   *)
(* (retry_deletion): when a retry is accepted, no worker is still inside   *)
(* the body of an earlier execution of that deletion.                      *)
RetryOnlyInterrupted ==
  [][\A j \in Jobs : retries'[j] > retries[j]
        => ~\E w \in Workers : worker[w].job = j /\ worker[w].pc \in Body]_vars
=============================================================================
