--------------------------- MODULE JobStoreProofs ---------------------------
(***************************************************************************)
(* Proofs about JobStore, for every set of jobs, tasks and agents and      *)
(* every bound: type correctness, the exclusion between executing jobs,    *)
(* the exclusion between jobs and load tests, the hold on targets left     *)
(* uncertain and the cancellations honoured.                               *)
(***************************************************************************)
EXTENDS JobStore, TLAPS

USE DEF rows, control, loads, history, vars

(* A stage that is not the last has a successor among the stages. *)
LEMMA NextStageType ==
  ASSUME NEW k, NEW s
  PROVE  NextStage(k, s) \in Body
BY DEF NextStage, Body, Quiet, Effects, ApplyKinds

(* The status a stage is entered with. *)
LEMMA EnteredType ==
  ASSUME NEW k, NEW s, NEW t, NEW old \in Statuses
  PROVE  Entered(k, s, t, old) \in Statuses
BY DEF Entered, Statuses, Active, Executing

(* A stage entered without a checkpoint leaves the status alone. *)
LEMMA UncheckedKeeps ==
  ASSUME NEW k, NEW s, NEW old, Unchecked(s, NextStage(k, s))
  PROVE  Entered(k, s, NextStage(k, s), old) = old
BY DEF Unchecked, NextStage, Entered, ApplyKinds

(* A stage entered through a checkpoint leaves an executing row executing. *)
LEMMA EnteredExecuting ==
  ASSUME NEW k, NEW s, NEW t, NEW old \in Executing
  PROVE  Entered(k, s, t, old) \in Executing
BY DEF Entered, Executing

LEMMA InitType == ASSUME Init PROVE TypeOK
<1>1. PICK request \in [Jobs -> {r \in Kinds \X Scopes :
                          (r[1] = "models.apply") <=> (r[2] = Every)}] :
         /\ kind = [j \in Jobs |-> request[j][1]]
         /\ scope = [j \in Jobs |-> request[j][2]]
  BY DEF Init
<1>2. kind \in [Jobs -> Kinds] /\ scope \in [Jobs -> Scopes]
  BY <1>1
<1> QED
  BY <1>2 DEF Init, TypeOK, Statuses, NoWorker, Scopes

(* What a worker in one of the stages is: a task of some job. *)
LEMMA WorkerJob ==
  ASSUME TypeOK, NEW w \in Workers, worker[w].pc \in Stages
  PROVE  worker[w] \in [job : Jobs, pc : Stages]
<1>1. "idle" \notin Stages
  BY DEF Stages, Body, Quiet, Effects
<1>2. worker[w] \in [job : Jobs, pc : Stages] \cup {NoWorker}
  BY DEF TypeOK
<1> QED
  BY <1>1, <1>2 DEF NoWorker

LEMMA SpawnType ==
  ASSUME TypeOK, NEW w \in Workers, NEW j \in Jobs, Spawn(w, j)
  PROVE  worker' \in [Workers -> [job : Jobs, pc : Stages] \cup {NoWorker}]
BY DEF TypeOK, Spawn, Stages, Body, Quiet

LEMMA GotoType ==
  ASSUME TypeOK, NEW w \in Workers, worker[w].pc \in Stages,
         NEW s \in Stages, Goto(w, s)
  PROVE  worker' \in [Workers -> [job : Jobs, pc : Stages] \cup {NoWorker}]
BY WorkerJob DEF TypeOK, Goto

LEMMA FinishType ==
  ASSUME TypeOK, NEW w \in Workers, Finish(w)
  PROVE  worker' \in [Workers -> [job : Jobs, pc : Stages] \cup {NoWorker}]
BY DEF TypeOK, Finish

LEMMA FinallyType ==
  ASSUME TypeOK, NEW w \in Workers, worker[w].pc \in Stages,
         NEW s, NEW f, Finally(w, s, f)
  PROVE  worker' \in [Workers -> [job : Jobs, pc : Stages] \cup {NoWorker}]
BY GotoType, FinishType DEF Finally, Stages

LEMMA StatusType ==
  ASSUME TypeOK, NEW j \in Jobs, NEW s \in Statuses, SetStatus(j, s)
  PROVE  status' \in [Jobs -> Statuses]
BY DEF TypeOK, SetStatus

LEMMA EndType ==
  ASSUME TypeOK, NEW w \in Workers, worker[w].pc \in Stages,
         NEW s, NEW f \in Statuses, End(w, s, f)
  PROVE  /\ worker' \in [Workers -> [job : Jobs, pc : Stages] \cup {NoWorker}]
         /\ status' \in [Jobs -> Statuses]
<1>1. worker[w].job \in Jobs
  BY WorkerJob
<1> QED
  BY <1>1, FinallyType, StatusType DEF End

(* The statuses the handlers of run() write. *)
LEMMA FinalStatuses ==
  {"queued", "succeeded", "failed", "cancelled", "needs_recovery", "interrupted"} \subseteq Statuses
BY DEF Statuses, Active, Held, Executing

LEMMA GiveType ==
  ASSUME TypeOK, NEW w \in Workers, worker[w].pc \in Stages, Give(w)
  PROVE  TypeOK'
<1>1. PICK f \in {"needs_recovery", "failed"} : End(w, worker[w].pc, f)
  BY DEF Give
<1>2. /\ worker' \in [Workers -> [job : Jobs, pc : Stages] \cup {NoWorker}]
      /\ status' \in [Jobs -> Statuses]
  BY <1>1, EndType, FinalStatuses
<1> QED
  BY <1>2 DEF Give, TypeOK

LEMMA CompensateType ==
  ASSUME TypeOK, NEW w \in Workers, worker[w].pc \in Stages, Compensate(w)
  PROVE  TypeOK'
<1>1. Goto(w, "compensate") /\ "compensate" \in Stages
  BY DEF Compensate, Stages
<1> QED
  BY <1>1, GotoType DEF Compensate, TypeOK

LEMMA AdvanceType ==
  ASSUME TypeOK, NEW w \in Workers, Advance(w)
  PROVE  TypeOK'
<1> DEFINE j == worker[w].job
           s == worker[w].pc
           t == NextStage(kind[j], s)
<1>1. s \in Stages /\ t \in Stages
  BY NextStageType DEF Advance, Stages
<1>2. j \in Jobs
  BY <1>1, WorkerJob
<1>3. status[j] \in Statuses
  BY <1>2 DEF TypeOK
<1>4. Entered(kind[j], s, t, status[j]) \in Statuses
  BY <1>3, EnteredType
<1>5. status' \in [Jobs -> Statuses]
  BY <1>2, <1>4, StatusType DEF Advance
<1>6. worker' \in [Workers -> [job : Jobs, pc : Stages] \cup {NoWorker}]
  BY <1>1, GotoType DEF Advance
<1>7. released' \subseteq Jobs
  BY <1>2 DEF Advance, TypeOK
<1>8. touched' \in [Jobs -> BOOLEAN]
  BY <1>1, <1>2 DEF Advance, TypeOK
<1> QED
  BY <1>5, <1>6, <1>7, <1>8 DEF Advance, TypeOK

LEMMA StepType ==
  ASSUME TypeOK, NEW w \in Workers, Step(w)
  PROVE  TypeOK'
<1> DEFINE Tasks == [Workers -> [job : Jobs, pc : Stages] \cup {NoWorker}]
<1>0. /\ Body \subseteq Stages /\ LastStages \cup {"inspect"} \subseteq Stages
      /\ {"commit", "compensate", "recheck", "resume", "inspect"} \subseteq Stages
  BY DEF Stages, Body, Effects, LastStages
<1>1. CASE Advance(w)
  BY <1>1, AdvanceType
<1>2. CASE StopCancelled(w)
  <2>1. worker' \in Tasks
    BY <1>0, <1>2, FinallyType DEF StopCancelled
  <2> QED
    BY <1>2, <2>1 DEF StopCancelled, TypeOK
<1>3. CASE Succeed(w)
  <2>1. worker' \in Tasks /\ status' \in [Jobs -> Statuses]
    BY <1>0, <1>3, EndType, FinalStatuses DEF Succeed
  <2>2. worker[w].job \in Jobs
    BY <1>0, <1>3, WorkerJob DEF Succeed
  <2> QED
    BY <1>3, <2>1, <2>2 DEF Succeed, TypeOK
<1>4. CASE LookUp(w)
  <2>1. worker' \in Tasks
    BY <1>0, <1>4, GotoType DEF LookUp
  <2> QED
    BY <1>4, <2>1 DEF LookUp, TypeOK
<1>5. CASE FailCall(w)
  BY <1>0, <1>5, GiveType, CompensateType DEF FailCall
<1>6. CASE Refuse(w)
  BY <1>0, <1>6, GiveType, CompensateType DEF Refuse
<1>7. CASE Reapplied(w)
  <2>1. worker' \in Tasks
    BY <1>0, <1>7, GotoType DEF Reapplied
  <2> QED
    BY <1>7, <2>1 DEF Reapplied, TypeOK
<1>8. CASE Compensated(w)
  <2>1. worker' \in Tasks /\ status' \in [Jobs -> Statuses]
    BY <1>0, <1>8, EndType, FinalStatuses DEF Compensated
  <2>2. worker[w].job \in Jobs
    BY <1>0, <1>8, WorkerJob DEF Compensated
  <2> QED
    BY <1>8, <2>1, <2>2 DEF Compensated, TypeOK
<1>9. CASE NotCompensated(w)
  <2>1. worker' \in Tasks /\ status' \in [Jobs -> Statuses]
    BY <1>0, <1>9, EndType, FinalStatuses DEF NotCompensated
  <2> QED
    BY <1>9, <2>1 DEF NotCompensated, TypeOK
<1>10. CASE Resumed(w)
  <2>1. worker' \in Tasks
    BY <1>10, FinishType DEF Resumed
  <2> QED
    BY <1>10, <2>1 DEF Resumed, TypeOK
<1>11. CASE NotResumed(w)
  <2>1. worker' \in Tasks
    BY <1>11, FinishType DEF NotResumed
  <2>2. worker[w].job \in Jobs
    BY <1>0, <1>11, WorkerJob DEF NotResumed
  <2>3. status' \in [Jobs -> Statuses]
    BY <1>11, <2>2, StatusType, FinalStatuses DEF NotResumed
  <2> QED
    BY <1>11, <2>1, <2>3 DEF NotResumed, TypeOK
<1> QED
  BY <1>1, <1>2, <1>3, <1>4, <1>5, <1>6, <1>7, <1>8, <1>9, <1>10, <1>11
     DEF Step, OnAnswer, OnError

(* A pending cancellation is that of a task. *)
TasksCancelled == cancelling \subseteq Workers \ Free

LEMMA DeliverCancelType ==
  ASSUME TypeOK, TasksCancelled, NEW w \in Workers, DeliverCancel(w)
  PROVE  TypeOK'
<1> DEFINE Tasks == [Workers -> [job : Jobs, pc : Stages] \cup {NoWorker}]
           s == worker[w].pc
           j == worker[w].job
<1>1. s \in Stages
  BY DEF DeliverCancel, TasksCancelled, Free, TypeOK, NoWorker
<1>2. status' \in [Jobs -> Statuses] /\ worker' \in Tasks
  <2>1. CASE s \in {"start", "resume"}
    <3>1. Finish(w) /\ UNCHANGED status
      BY <2>1 DEF DeliverCancel
    <3> QED
      BY <3>1, FinishType DEF TypeOK
  <2>2. CASE s \notin {"start", "resume"} /\ (s \in {"compensate", "recheck"} \/ status[j] = "cancelled")
    <3>1. Finally(w, s, status[j]) /\ UNCHANGED status
      BY <2>2 DEF DeliverCancel
    <3> QED
      BY <1>1, <3>1, FinallyType DEF TypeOK
  <2>3. CASE s \notin {"start", "resume"} /\ ~(s \in {"compensate", "recheck"} \/ status[j] = "cancelled")
    <3>1. PICK f \in {"needs_recovery", "interrupted"} : End(w, s, f)
      BY <2>3 DEF DeliverCancel
    <3> QED
      BY <1>1, <3>1, EndType, FinalStatuses
  <2> QED
    BY <2>1, <2>2, <2>3
<1> QED
  BY <1>2 DEF DeliverCancel, TypeOK

LEMMA StartType ==
  ASSUME TypeOK, Start, restarts' \in Nat
  PROVE  TypeOK'
<1> DEFINE queued == Requeued
<1>1. PICK task \in [queued -> Workers] :
        worker' = [w \in Workers |->
            IF \E j \in queued : task[j] = w
              THEN [job |-> CHOOSE j \in queued : task[j] = w, pc |-> "start"]
              ELSE NoWorker]
  BY DEF Start
<1>2. worker' \in [Workers -> [job : Jobs, pc : Stages] \cup {NoWorker}]
  BY <1>1 DEF Stages, Body, Quiet, Requeued
<1>3. status' \in [Jobs -> Statuses]
  BY FinalStatuses DEF Start, TypeOK
<1> QED
  BY <1>2, <1>3 DEF Start, TypeOK

LEMMA NextType ==
  ASSUME TypeOK, TasksCancelled, Next PROVE TypeOK'
<1>1. ASSUME NEW j \in Jobs, Submit(j) PROVE TypeOK'
  <2>1. status' \in [Jobs -> Statuses]
    BY <1>1, StatusType, FinalStatuses DEF Submit
  <2> QED
    BY <1>1, <2>1, SpawnType DEF Submit, TypeOK, Free
<1>2. ASSUME NEW j \in Jobs, RetryDeletion(j) PROVE TypeOK'
  <2>1. status' \in [Jobs -> Statuses]
    BY <1>2, StatusType, FinalStatuses DEF RetryDeletion
  <2>2. worker' \in [Workers -> [job : Jobs, pc : Stages] \cup {NoWorker}]
    BY <1>2, SpawnType DEF RetryDeletion, Free
  <2>3. retries' \in [Jobs -> Nat] /\ touched' \in [Jobs -> BOOLEAN]
    BY <1>2 DEF RetryDeletion, TypeOK
  <2> QED
    BY <1>2, <2>1, <2>2, <2>3 DEF RetryDeletion, TypeOK
<1>3. ASSUME NEW j \in Jobs, Cancel(j) PROVE TypeOK'
  <2>1. status' \in [Jobs -> Statuses]
    BY <1>3, StatusType, FinalStatuses DEF Cancel
  <2> QED
    BY <1>3, <2>1 DEF Cancel, TypeOK
<1>4. ASSUME NEW j \in Jobs, ReconcileBegin(j) PROVE TypeOK'
  BY <1>4 DEF ReconcileBegin, TypeOK
<1>5. ASSUME NEW j \in Jobs, ReconcileDone(j) \/ ReconcileFailed(j) PROVE TypeOK'
  <2>1. status' \in [Jobs -> Statuses]
    BY <1>5, StatusType, FinalStatuses DEF ReconcileDone, ReconcileFailed, TypeOK
  <2> QED
    BY <1>5, <2>1 DEF ReconcileDone, ReconcileFailed, TypeOK
<1>6. ASSUME NEW S \in SUBSET Agents, LoadStart(S) PROVE TypeOK'
  BY <1>6, BoundsAssumption DEF LoadStart, TypeOK
<1>7. CASE LoadEnd
  BY <1>7 DEF LoadEnd, TypeOK
<1>8. CASE Stop
  BY <1>8, BoundsAssumption DEF Stop, TypeOK, Free
<1>9. CASE Restart
  <2>1. restarts' \in Nat
    BY <1>9 DEF Restart, TypeOK
  <2> QED
    BY <1>9, <2>1, StartType DEF Restart
<1>10. CASE Crash
  <2>1. restarts' \in Nat
    BY <1>10 DEF Crash, TypeOK
  <2> QED
    BY <1>10, <2>1, StartType DEF Crash
<1> QED
  BY <1>1, <1>2, <1>3, <1>4, <1>5, <1>6, <1>7, <1>8, <1>9, <1>10,
     StepType, DeliverCancelType DEF Next

----------------------------------------------------------------------------
(* No action but a submission and a confirmed retry makes a row executing. *)

OnlyLeaves == \A j \in Jobs : status'[j] \in Executing => status[j] \in Executing

LEMMA SetLeaves ==
  ASSUME TypeOK, NEW j \in Jobs, NEW s, SetStatus(j, s),
         s \in Executing => status[j] \in Executing
  PROVE  OnlyLeaves
BY DEF TypeOK, SetStatus, OnlyLeaves

LEMMA KeepLeaves == ASSUME UNCHANGED status PROVE OnlyLeaves
BY DEF OnlyLeaves

(* The statuses that end a body are not executing ones. *)
LEMMA EndLeaves ==
  ASSUME TypeOK, NEW w \in Workers, worker[w].pc \in Stages, NEW s,
         NEW f \in {"succeeded", "failed", "cancelled", "needs_recovery", "interrupted"},
         End(w, s, f)
  PROVE  OnlyLeaves
<1>1. worker[w].job \in Jobs
  BY WorkerJob
<1> QED
  BY <1>1, SetLeaves DEF End, Executing

LEMMA GiveLeaves ==
  ASSUME TypeOK, NEW w \in Workers, worker[w].pc \in Stages, Give(w)
  PROVE  OnlyLeaves
<1>1. PICK f \in {"needs_recovery", "failed"} : End(w, worker[w].pc, f)
  BY DEF Give
<1> QED
  BY <1>1, EndLeaves

LEMMA StepLeaves ==
  ASSUME TypeOK, NEW w \in Workers, Step(w)
  PROVE  OnlyLeaves
<1>0. /\ Body \subseteq Stages /\ LastStages \cup {"inspect"} \subseteq Stages
      /\ {"commit", "compensate", "recheck", "resume", "inspect"} \subseteq Stages
  BY DEF Stages, Body, Effects, LastStages
<1>1. CASE Advance(w)
  <2> DEFINE j == worker[w].job
             s == worker[w].pc
             t == NextStage(kind[j], s)
             e == Entered(kind[j], s, t, status[j])
  <2>1. j \in Jobs
    BY <1>0, <1>1, WorkerJob DEF Advance
  <2>2. SetStatus(j, e) /\ (Unchecked(s, t) \/ status[j] \in Executing)
    BY <1>1 DEF Advance
  <2>3. e \in Executing => status[j] \in Executing
    BY <2>2, UncheckedKeeps
  <2> QED
    BY <2>1, <2>2, <2>3, SetLeaves
<1>2. CASE StopCancelled(w)
  BY <1>2, KeepLeaves DEF StopCancelled
<1>3. CASE Succeed(w)
  BY <1>0, <1>3, EndLeaves DEF Succeed
<1>4. CASE LookUp(w)
  BY <1>4, KeepLeaves DEF LookUp
<1>5. CASE FailCall(w)
  BY <1>0, <1>5, GiveLeaves, KeepLeaves DEF FailCall, Compensate
<1>6. CASE Refuse(w)
  BY <1>0, <1>6, GiveLeaves, KeepLeaves DEF Refuse, Compensate
<1>7. CASE Reapplied(w)
  BY <1>7, KeepLeaves DEF Reapplied
<1>8. CASE Compensated(w)
  BY <1>0, <1>8, EndLeaves DEF Compensated
<1>9. CASE NotCompensated(w)
  BY <1>0, <1>9, EndLeaves DEF NotCompensated
<1>10. CASE Resumed(w)
  BY <1>10, KeepLeaves DEF Resumed
<1>11. CASE NotResumed(w)
  <2>1. worker[w].job \in Jobs
    BY <1>0, <1>11, WorkerJob DEF NotResumed
  <2> QED
    BY <1>11, <2>1, SetLeaves DEF NotResumed, Executing
<1> QED
  BY <1>1, <1>2, <1>3, <1>4, <1>5, <1>6, <1>7, <1>8, <1>9, <1>10, <1>11
     DEF Step, OnAnswer, OnError

LEMMA DeliverCancelLeaves ==
  ASSUME TypeOK, TasksCancelled, NEW w \in Workers, DeliverCancel(w)
  PROVE  OnlyLeaves
<1> DEFINE s == worker[w].pc
<1>1. s \in Stages
  BY DEF DeliverCancel, TasksCancelled, Free, TypeOK, NoWorker
<1>2. CASE UNCHANGED status
  BY <1>2, KeepLeaves
<1>3. CASE \E f \in {"needs_recovery", "interrupted"} : End(w, s, f)
  BY <1>1, <1>3, EndLeaves
<1> QED
  BY <1>2, <1>3 DEF DeliverCancel

LEMMA StartLeaves == ASSUME TypeOK, Start PROVE OnlyLeaves
BY DEF Start, TypeOK, OnlyLeaves, Executing

(* Every step but the two that queue a job; the rest of the row it needs.  *)
LEMMA NextLeaves ==
  ASSUME TypeOK, TasksCancelled, Next
  PROVE  /\ UNCHANGED <<kind, scope>>
         /\ \/ OnlyLeaves /\ UNCHANGED retries
            \/ \E j \in Jobs : Submit(j) \/ RetryDeletion(j)
<1>1. ASSUME NEW j \in Jobs, Cancel(j) PROVE OnlyLeaves /\ UNCHANGED <<kind, scope, retries>>
  BY <1>1, SetLeaves DEF Cancel, Executing
<1>2. ASSUME NEW j \in Jobs, ReconcileBegin(j) PROVE OnlyLeaves /\ UNCHANGED <<kind, scope, retries>>
  BY <1>2, KeepLeaves DEF ReconcileBegin
<1>3. ASSUME NEW j \in Jobs, ReconcileDone(j) \/ ReconcileFailed(j)
      PROVE OnlyLeaves /\ UNCHANGED <<kind, scope, retries>>
  BY <1>3, KeepLeaves, SetLeaves DEF ReconcileDone, ReconcileFailed, Executing
<1>4. ASSUME NEW w \in Workers, Step(w) PROVE OnlyLeaves /\ UNCHANGED <<kind, scope, retries>>
  BY <1>4, StepLeaves DEF Step, Advance, StopCancelled, Succeed, LookUp, FailCall, Refuse,
     Give, Compensate, Reapplied, Compensated, NotCompensated, Resumed, NotResumed,
     OnAnswer, OnError
<1>5. ASSUME NEW w \in Workers, DeliverCancel(w) PROVE OnlyLeaves /\ UNCHANGED <<kind, scope, retries>>
  BY <1>5, DeliverCancelLeaves DEF DeliverCancel
<1>6. CASE (\E S \in SUBSET Agents : LoadStart(S)) \/ LoadEnd \/ Stop
  BY <1>6, KeepLeaves DEF LoadStart, LoadEnd, Stop
<1>7. CASE Restart \/ Crash
  BY <1>7, StartLeaves DEF Restart, Crash, Start
<1>8. ASSUME NEW j \in Jobs, Submit(j) \/ RetryDeletion(j) PROVE UNCHANGED <<kind, scope>>
  BY <1>8 DEF Submit, RetryDeletion
<1> QED
  BY <1>1, <1>2, <1>3, <1>4, <1>5, <1>6, <1>7, <1>8 DEF Next

----------------------------------------------------------------------------
(* The inductive invariant. *)

(* Only models.apply holds every target. *)
KindScope == \A j \in Jobs : (kind[j] = "models.apply") <=> (scope[j] = Every)

IInv == /\ TypeOK /\ TasksCancelled /\ KindScope
        /\ ExecutingExclusive /\ LoadTestExclusive

LEMMA InitInv == ASSUME Init PROVE IInv
<1>1. TypeOK
  BY InitType
<1>2. KindScope
  <2>1. PICK request \in [Jobs -> {r \in Kinds \X Scopes :
                            (r[1] = "models.apply") <=> (r[2] = Every)}] :
           /\ kind = [j \in Jobs |-> request[j][1]]
           /\ scope = [j \in Jobs |-> request[j][2]]
    BY DEF Init
  <2> QED
    BY <2>1 DEF KindScope
<1>3. \A j \in Jobs : status[j] \notin Executing
  BY DEF Init, Executing
<1>4. TasksCancelled
  BY DEF Init, TasksCancelled
<1> QED
  BY <1>1, <1>2, <1>3, <1>4 DEF IInv, ExecutingExclusive, LoadTestExclusive

LEMMA TasksCancelledStep ==
  ASSUME TypeOK, TasksCancelled, Next PROVE TasksCancelled'
<1>1. ASSUME NEW j \in Jobs, Submit(j) \/ RetryDeletion(j) PROVE TasksCancelled'
  <2>1. PICK v \in Free : Spawn(v, j)
    BY <1>1 DEF Submit, RetryDeletion
  <2>2. cancelling' = cancelling
    BY <1>1 DEF Submit, RetryDeletion
  <2>3. \A u \in cancelling : worker'[u] = worker[u]
    BY <2>1 DEF TypeOK, TasksCancelled, Free, Spawn
  <2> QED
    BY <2>2, <2>3 DEF TasksCancelled, Free
<1>2. ASSUME NEW w \in Workers, Step(w) PROVE TasksCancelled'
  <2>1. cancelling' = cancelling /\ w \notin cancelling
    BY <1>2 DEF Step, Advance, StopCancelled, Succeed, LookUp, FailCall, Refuse,
       Give, Compensate, Reapplied, Compensated, NotCompensated, Resumed, NotResumed,
     OnAnswer, OnError
  <2>2. \A u \in Workers : u # w => worker'[u] = worker[u]
    BY <1>2 DEF Step, Advance, StopCancelled, Succeed, LookUp, FailCall, Refuse,
       Give, Compensate, Reapplied, Compensated, NotCompensated, Resumed, NotResumed,
     OnAnswer, OnError, End, Finally, Finish, Goto, TypeOK
  <2> QED
    BY <2>1, <2>2 DEF TasksCancelled, Free
<1>3. ASSUME NEW w \in Workers, DeliverCancel(w) PROVE TasksCancelled'
  <2>1. cancelling' = cancelling \ {w}
    BY <1>3 DEF DeliverCancel
  <2>2. \A u \in Workers : u # w => worker'[u] = worker[u]
    BY <1>3 DEF DeliverCancel, End, Finally, Finish, Goto, TypeOK
  <2> QED
    BY <2>1, <2>2 DEF TasksCancelled, Free
<1>4. CASE Stop
  BY <1>4 DEF Stop, TasksCancelled, Free
<1>5. CASE Restart \/ Crash
  BY <1>5 DEF Restart, Crash, Start, TasksCancelled
<1>6. CASE UNCHANGED <<worker, cancelling>>
  BY <1>6 DEF TasksCancelled, Free
<1> QED
  BY <1>1, <1>2, <1>3, <1>4, <1>5, <1>6
     DEF Next, Cancel, ReconcileBegin, ReconcileDone, ReconcileFailed, LoadStart, LoadEnd

(* Two executing jobs were both executing before, or one was just admitted *)
(* by a transaction that looked at the other.                              *)
LEMMA ExclusiveStep ==
  ASSUME IInv, Next PROVE ExecutingExclusive'
<1> SUFFICES ASSUME NEW i \in Jobs, NEW j \in Jobs, i # j,
                    status'[i] \in Executing, status'[j] \in Executing
             PROVE  ~Conflict(scope[i], scope[j])
  BY NextLeaves DEF IInv, ExecutingExclusive
<1>1. ASSUME status[i] \in Executing, status[j] \in Executing
      PROVE  ~Conflict(scope[i], scope[j])
  BY <1>1 DEF IInv, ExecutingExclusive
<1>2. ASSUME NEW k \in Jobs, NEW l \in Jobs, k # l, Submit(k), status'[l] \in Executing
      PROVE  ~Conflict(scope[k], scope[l])
  <2>1. status[l] \in Active
    BY <1>2 DEF IInv, TypeOK, Submit, SetStatus, Active
  <2> QED
    BY <1>2, <2>1 DEF Submit, TargetHeld
<1>3. ASSUME NEW k \in Jobs, NEW l \in Jobs, k # l, RetryDeletion(k), status'[l] \in Executing
      PROVE  ~Conflict(scope[k], scope[l])
  <2>1. status[l] \in Active
    BY <1>3 DEF IInv, TypeOK, RetryDeletion, SetStatus, Active
  <2>2. scope[l] \notin {scope[k], Every}
    BY <1>3, <2>1 DEF RetryDeletion
  <2>3. scope[k] # Every
    BY <1>3 DEF RetryDeletion, IInv, KindScope
  <2> QED
    BY <2>2, <2>3 DEF Conflict
<1>4. \A k, l \in Jobs : ~Conflict(scope[k], scope[l]) => ~Conflict(scope[l], scope[k])
  BY DEF Conflict
<1>5. CASE OnlyLeaves
  BY <1>1, <1>5 DEF OnlyLeaves
<1>6. ASSUME NEW k \in Jobs, Submit(k) \/ RetryDeletion(k)
      PROVE  ~Conflict(scope[i], scope[j])
  <2>1. CASE k # i /\ k # j
    <3>1. status'[i] = status[i] /\ status'[j] = status[j]
      BY <1>6, <2>1 DEF Submit, RetryDeletion, SetStatus, IInv, TypeOK
    <3> QED
      BY <1>1, <3>1
  <2>2. CASE k = i
    BY <1>2, <1>3, <1>6, <2>2
  <2>3. CASE k = j
    BY <1>2, <1>3, <1>4, <1>6, <2>3
  <2> QED
    BY <2>1, <2>2, <2>3
<1> QED
  BY <1>5, <1>6, NextLeaves DEF IInv

(* A test is admitted when no job executes on its agents, a job when no    *)
(* test pins its target.                                                   *)
LEMMA LoadTestStep ==
  ASSUME IInv, Next PROVE LoadTestExclusive'
<1> SUFFICES ASSUME NEW j \in Jobs, status'[j] \in Executing, retries'[j] = 0
             PROVE  ~LoadPinned(scope[j])'
  BY DEF LoadTestExclusive
<1>0. scope' = scope
  BY NextLeaves DEF IInv
<1>1. ASSUME NEW k \in Jobs, Submit(k) PROVE ~LoadPinned(scope[j])'
  <2>1. pinned' = pinned /\ retries' = retries
    BY <1>1 DEF Submit
  <2>2. ~LoadPinned(scope[j])
    <3>1. CASE j = k
      BY <1>1, <3>1 DEF Submit
    <3>2. CASE j # k
      <4>1. status'[j] = status[j]
        BY <1>1, <3>2 DEF Submit, SetStatus, IInv, TypeOK
      <4> QED
        BY <2>1, <4>1 DEF IInv, LoadTestExclusive
    <3> QED
      BY <3>1, <3>2
  <2> QED
    BY <1>0, <2>1, <2>2 DEF LoadPinned
<1>2. ASSUME NEW k \in Jobs, RetryDeletion(k) PROVE ~LoadPinned(scope[j])'
  <2>1. pinned' = pinned /\ j # k /\ retries[j] = 0
    BY <1>2 DEF RetryDeletion, IInv, TypeOK
  <2>2. status'[j] = status[j]
    BY <1>2, <2>1 DEF RetryDeletion, SetStatus, IInv, TypeOK
  <2>3. ~LoadPinned(scope[j])
    BY <2>1, <2>2 DEF IInv, LoadTestExclusive
  <2> QED
    BY <1>0, <2>1, <2>3 DEF LoadPinned
<1>3. ASSUME OnlyLeaves, UNCHANGED retries PROVE ~LoadPinned(scope[j])'
  <2>1. status[j] \in Executing /\ ~LoadPinned(scope[j])
    BY <1>3 DEF OnlyLeaves, IInv, LoadTestExclusive
  <2>2. ASSUME NEW S \in SUBSET Agents, LoadStart(S) PROVE ~LoadPinned(scope[j])'
    <3>1. scope[j] \notin S \cup {Every} /\ pinned' = S
      BY <2>1, <2>2 DEF LoadStart, AgentsHeld
    <3> QED
      BY <1>0, <3>1 DEF LoadPinned
  <2>3. CASE pinned' = pinned
    BY <1>0, <2>1, <2>3 DEF LoadPinned
  <2>4. CASE pinned' = {}
    BY <1>0, <2>4 DEF LoadPinned
  <2>5. \/ pinned' = pinned \/ pinned' = {}
        \/ \E S \in SUBSET Agents : LoadStart(S)
    <3>1. ASSUME NEW w \in Workers, Step(w) PROVE pinned' = pinned
      BY <3>1 DEF Step, Advance, StopCancelled, Succeed, LookUp, FailCall, Refuse,
         Give, Compensate, Reapplied, Compensated, NotCompensated, Resumed, NotResumed,
     OnAnswer, OnError
    <3>2. ASSUME NEW k \in Jobs,
                 \/ Submit(k) \/ RetryDeletion(k) \/ Cancel(k)
                 \/ ReconcileBegin(k) \/ ReconcileDone(k) \/ ReconcileFailed(k)
          PROVE  pinned' = pinned
      BY <3>2 DEF Submit, RetryDeletion, Cancel, ReconcileBegin, ReconcileDone, ReconcileFailed
    <3>3. ASSUME NEW w \in Workers, DeliverCancel(w) PROVE pinned' = pinned
      BY <3>3 DEF DeliverCancel
    <3>4. CASE LoadEnd \/ Stop \/ Restart \/ Crash
      BY <3>4 DEF LoadEnd, Stop, Restart, Crash, Start
    <3> QED
      BY <3>1, <3>2, <3>3, <3>4 DEF Next
  <2> QED
    BY <2>2, <2>3, <2>4, <2>5
<1> QED
  BY <1>1, <1>2, <1>3, NextLeaves DEF IInv

LEMMA InvStep == ASSUME IInv, [Next]_vars PROVE IInv'
<1>1. CASE Next
  <2>1. TypeOK' /\ TasksCancelled'
    BY <1>1, NextType, TasksCancelledStep DEF IInv
  <2>2. KindScope'
    BY <1>1, NextLeaves DEF IInv, KindScope
  <2> QED
    BY <1>1, <2>1, <2>2, ExclusiveStep, LoadTestStep DEF IInv
<1>2. CASE UNCHANGED vars
  BY <1>2 DEF IInv, TypeOK, TasksCancelled, KindScope, ExecutingExclusive,
     LoadTestExclusive, LoadPinned, Free
<1> QED
  BY <1>1, <1>2

(* The invariant holds in every reachable state of operations.             *)
THEOREM Invariance == Spec => []IInv
<1>1. Init => IInv
  BY InitInv
<1>2. IInv /\ [Next]_vars => IInv'
  BY InvStep
<1> QED
  BY <1>1, <1>2, PTL DEF Spec

(* The job table, the tasks and the tests stay well typed.                 *)
THEOREM TypeCorrectness == Spec => []TypeOK
<1>1. IInv => TypeOK
  BY DEF IInv
<1> QED
  BY <1>1, Invariance, PTL

(* store.py's target lease: whatever clients, workers, retries, races with *)
(* the cancel endpoint, late answers and restarts do, two jobs with        *)
(* overlapping scopes are never both queued or under way.                  *)
THEOREM TargetLease == Spec => []ExecutingExclusive
<1>1. IInv => ExecutingExclusive
  BY DEF IInv
<1> QED
  BY <1>1, Invariance, PTL

(* Jobs and load tests exclude one another on every agent, but for retried *)
(* deletions.                                                              *)
THEOREM LoadTestLease == Spec => []LoadTestExclusive
<1>1. IInv => LoadTestExclusive
  BY DEF IInv
<1> QED
  BY <1>1, Invariance, PTL

(* A row that left the executing states returns to them only as a newly    *)
(* confirmed retry of a permanent deletion.                                *)
THEOREM NoRowResurrected == Spec => NoResurrection
<1> DEFINE A == \A j \in Jobs :
        status[j] \notin Executing \cup {"none"} /\ status'[j] \in Executing
          => status'[j] = "queued" /\ retries'[j] = retries[j] + 1
<1>1. ASSUME IInv, [Next]_vars PROVE [A]_vars
  <2>1. CASE UNCHANGED vars
    BY <2>1
  <2>2. CASE OnlyLeaves
    BY <2>2 DEF OnlyLeaves
  <2>3. ASSUME NEW k \in Jobs, Submit(k) PROVE A
    BY <2>3 DEF Submit, SetStatus, IInv, TypeOK
  <2>4. ASSUME NEW k \in Jobs, RetryDeletion(k) PROVE A
    <3>1. /\ status' = [status EXCEPT ![k] = "queued"]
          /\ retries' = [retries EXCEPT ![k] = @ + 1]
      BY <2>4 DEF RetryDeletion, SetStatus
    <3>2. status \in [Jobs -> Statuses] /\ retries \in [Jobs -> Nat]
      BY <1>1 DEF IInv, TypeOK
    <3> QED
      BY <3>1, <3>2
  <2> QED
    BY <1>1, <2>1, <2>2, <2>3, <2>4, NextLeaves DEF IInv
<1>2. IInv /\ [Next]_vars => [A]_vars
  BY <1>1
<1> QED
  BY <1>2, Invariance, PTL DEF Spec, NoResurrection
----------------------------------------------------------------------------
(* What a task knows of its row.  A permanent deletion is left out: it may  *)
(* be retried, and executed twice.                                         *)

Kept(j) == kind[j] # "agent.delete"

StageFits(s, row, changed) ==
  /\ s = "start" => row \in {"queued", "cancelled"} /\ ~changed
  /\ s \in Quiet \ {"start"} => row \in {"running", "cancelled"} /\ ~changed
  /\ s = "quiesce" => row \in {"waiting", "cancelled"} /\ ~changed
  /\ s \in Effects \cup {"compensate", "recheck"} => row = "applying"
  /\ changed => row \in {"applying", "needs_recovery"}

TaskFits ==
  \A w \in Workers : worker[w].pc # "idle" =>
    /\ status[worker[w].job] # "none"
    /\ Kept(worker[w].job) =>
         StageFits(worker[w].pc, status[worker[w].job], touched[worker[w].job])

OneTask ==
  \A v, w \in Workers :
    (/\ worker[v].pc # "idle" /\ worker[w].pc # "idle"
     /\ worker[v].job = worker[w].job /\ Kept(worker[w].job)) => v = w

(* A reconcile() that gathers evidence has no task in its body beside it.  *)
EvidenceAlone ==
  \A j \in reconciling : Kept(j) => status[j] \in {"failed", "succeeded"} \cup Held

AcceptedEnds ==
  \A j \in Jobs : accepted[j] => Kept(j) /\ status[j] \notin Executing \cup {"none"}

TaskInv == TaskFits /\ OneTask /\ EvidenceAlone /\ AcceptedEnds /\ UncertainHeld /\ CancelHonoured

(* Where a step may leave a task and its row.                              *)
Allowed(s, old, was, p, row, changed) ==
  /\ row # "none" /\ StageFits(p, row, changed)
  /\ row \in Executing => old \in Executing
  /\ changed => was \/ old \in Executing
  /\ s = "resume" => row \in {old, "needs_recovery"}

Moved(w, p, row, changed) ==
  /\ status' = [status EXCEPT ![worker[w].job] = row]
  /\ touched' = [touched EXCEPT ![worker[w].job] = changed]
  /\ worker' = [worker EXCEPT ![w] = IF p = "idle" THEN NoWorker ELSE [job |-> worker[w].job, pc |-> p]]
  /\ UNCHANGED <<kind, accepted, reconciling>>

TaskMoves(w) ==
  \E p \in Stages \cup {"idle"}, row \in Statuses, changed \in BOOLEAN :
    /\ Moved(w, p, row, changed)
    /\ Kept(worker[w].job) =>
         Allowed(worker[w].pc, status[worker[w].job], touched[worker[w].job], p, row, changed)
    /\ row # "none"

LEMMA InTask ==
  ASSUME TypeOK, NEW w \in Workers, worker[w].pc # "idle"
  PROVE  worker[w] \in [job : Jobs, pc : Stages]
BY DEF TypeOK, NoWorker

LEMMA GotoMoves ==
  ASSUME TypeOK, NEW w \in Workers, worker[w].pc \in Stages, NEW s \in Stages, Goto(w, s)
  PROVE  worker' = [worker EXCEPT ![w] = IF s = "idle" THEN NoWorker ELSE [job |-> worker[w].job, pc |-> s]]
<1>1. worker[w] \in [job : Jobs, pc : Stages] /\ s # "idle"
  BY WorkerJob DEF Stages, Body, Quiet, Effects
<1>2. [worker[w] EXCEPT !.pc = s] = [job |-> worker[w].job, pc |-> s]
  BY <1>1
<1> QED
  BY <1>1, <1>2 DEF Goto, TypeOK

(* Where the finally clause leaves a task. *)
AfterFinally(s, final) == IF QuiesceStarted(s) /\ final # "needs_recovery" THEN "resume" ELSE "idle"

LEMMA FinallyMoves ==
  ASSUME TypeOK, NEW w \in Workers, worker[w].pc \in Stages, NEW s, NEW f, Finally(w, s, f)
  PROVE  LET p == AfterFinally(s, f) IN
         /\ p \in {"resume", "idle"}
         /\ worker' = [worker EXCEPT ![w] = IF p = "idle" THEN NoWorker ELSE [job |-> worker[w].job, pc |-> p]]
<1>1. CASE QuiesceStarted(s) /\ f # "needs_recovery"
  <2>1. Goto(w, "resume") /\ "resume" \in Stages
    BY <1>1 DEF Finally, Stages
  <2> QED
    BY <1>1, <2>1, GotoMoves DEF AfterFinally
<1>2. CASE ~(QuiesceStarted(s) /\ f # "needs_recovery")
  BY <1>2 DEF Finally, AfterFinally, Finish
<1> QED
  BY <1>1, <1>2

LEMMA TaskRow ==
  ASSUME TypeOK, TaskFits, NEW w \in Workers, worker[w].pc \in Stages
  PROVE  LET j == worker[w].job IN
         /\ j \in Jobs /\ status[j] \in Statuses /\ status[j] # "none" /\ touched[j] \in BOOLEAN
         /\ Kept(j) => StageFits(worker[w].pc, status[j], touched[j])
         /\ status = [status EXCEPT ![j] = status[j]] /\ touched = [touched EXCEPT ![j] = touched[j]]
<1>1. worker[w] \in [job : Jobs, pc : Stages] /\ worker[w].pc # "idle"
  BY WorkerJob DEF Stages, Body, Quiet, Effects
<1> QED
  BY <1>1 DEF TypeOK, TaskFits

(* A body that ends: the row it leaves is one that its stage allows. *)
LEMMA EndMoves ==
  ASSUME TypeOK, TaskFits, NEW w \in Workers, worker[w].pc \in Stages,
         NEW f \in {"succeeded", "failed", "needs_recovery", "interrupted"}, NEW changed \in BOOLEAN,
         End(w, worker[w].pc, f), touched' = [touched EXCEPT ![worker[w].job] = changed],
         UNCHANGED <<kind, accepted, reconciling>>,
         Kept(worker[w].job) => /\ changed => touched[worker[w].job] /\ f = "needs_recovery"
                                /\ worker[w].pc = "resume" => f = "needs_recovery"
  PROVE  TaskMoves(w)
<1> DEFINE j == worker[w].job
           p == AfterFinally(worker[w].pc, f)
<1>1. Moved(w, p, f, changed) /\ p \in {"resume", "idle"}
  BY FinallyMoves DEF End, SetStatus, Moved
<1>2. Kept(j) => Allowed(worker[w].pc, status[j], touched[j], p, f, changed)
  BY <1>1 DEF Allowed, StageFits, Executing, Quiet, Effects
<1>3. f \in Statuses /\ p \in Stages \cup {"idle"} /\ f # "none"
  BY <1>1, FinalStatuses DEF Stages
<1> QED
  BY <1>1, <1>2, <1>3 DEF TaskMoves

(* A task that goes on, or ends, and leaves its row as it is. *)
LEMMA StayMoves ==
  ASSUME TypeOK, TaskFits, NEW w \in Workers, worker[w].pc \in Stages, NEW p \in Stages \cup {"idle"},
         worker' = [worker EXCEPT ![w] = IF p = "idle" THEN NoWorker ELSE [job |-> worker[w].job, pc |-> p]],
         UNCHANGED <<status, touched, kind, accepted, reconciling>>,
         p \in {"resume", "idle"} \/ (/\ p \in Effects \cup {"compensate", "recheck"}
                                      /\ worker[w].pc \in Effects \cup {"compensate", "recheck"})
  PROVE  TaskMoves(w)
<1> DEFINE j == worker[w].job
<1>1. /\ j \in Jobs /\ status[j] \in Statuses /\ status[j] # "none" /\ touched[j] \in BOOLEAN
      /\ Kept(j) => StageFits(worker[w].pc, status[j], touched[j])
      /\ status = [status EXCEPT ![j] = status[j]] /\ touched = [touched EXCEPT ![j] = touched[j]]
  BY TaskRow
<1>2. Moved(w, p, status[j], touched[j])
  BY <1>1 DEF Moved
<1>3. Kept(j) => StageFits(p, status[j], touched[j])
  BY <1>1 DEF StageFits, Quiet, Effects
<1>4. Kept(j) => Allowed(worker[w].pc, status[j], touched[j], p, status[j], touched[j])
  BY <1>1, <1>3 DEF Allowed
<1> QED
  BY <1>1, <1>2, <1>4 DEF TaskMoves

LEMMA GiveMoves ==
  ASSUME TypeOK, TaskFits, NEW w \in Workers, worker[w].pc \in Body, Give(w)
  PROVE  TaskMoves(w)
<1> DEFINE s == worker[w].pc
           j == worker[w].job
<1>1. s \in Stages
  BY DEF Stages
<1>2. /\ touched[j] \in BOOLEAN /\ (Kept(j) => StageFits(s, status[j], touched[j]))
      /\ touched = [touched EXCEPT ![j] = touched[j]]
  BY <1>1, TaskRow
<1>3. PICK f \in {"needs_recovery", "failed"} :
        End(w, s, f) /\ (f = "failed" => ~ApplyStarted(s))
  BY DEF Give
<1>4. Kept(j) /\ touched[j] => f = "needs_recovery"
  BY <1>2, <1>3 DEF StageFits, ApplyStarted, Body, Quiet
<1>5. PICK changed \in BOOLEAN : changed = touched[j]
  BY <1>2, Zenon
<1>6. s # "resume"
  BY DEF Body, Quiet, Effects
<1>7. touched' = [touched EXCEPT ![j] = changed] /\ UNCHANGED <<kind, accepted, reconciling>>
  BY <1>2, <1>5 DEF Give
<1> QED
  BY <1>1, <1>3, <1>4, <1>5, <1>6, <1>7, EndMoves

LEMMA AdvanceMoves ==
  ASSUME TypeOK, TaskFits, NEW w \in Workers, Advance(w)
  PROVE  TaskMoves(w)
<1> DEFINE s == worker[w].pc
           j == worker[w].job
           t == NextStage(kind[j], s)
           row == Entered(kind[j], s, t, status[j])
           changed == touched[j] \/ t \in Effects
<1>1. s \in Body \ (LastStages \cup {"inspect"}) /\ s \in Stages /\ t \in Stages
  BY NextStageType DEF Advance, Stages
<1>2. /\ j \in Jobs /\ status[j] \in Statuses /\ status[j] # "none" /\ touched[j] \in BOOLEAN
      /\ Kept(j) => StageFits(s, status[j], touched[j])
  BY <1>1, TaskRow
<1>3. Moved(w, t, row, changed)
  BY <1>1, GotoMoves DEF Advance, SetStatus, Moved
<1>4. row \in Statuses /\ row # "none"
  BY <1>2, EnteredType DEF Entered
<1>5. changed \in BOOLEAN
  BY <1>2, Zenon
<1>6. Unchecked(s, t) \/ status[j] \in Executing
  BY DEF Advance
<1>7. ASSUME Kept(j) PROVE Allowed(s, status[j], touched[j], t, row, changed)
  <2>1. StageFits(s, status[j], touched[j])
    BY <1>2, <1>7
  <2>2. status[j] \in Executing
    BY <1>1, <1>6, <2>1 DEF Unchecked, NextStage, StageFits, Executing, Effects, Quiet, Body, ApplyKinds
  <2>3. row \in Executing
    BY <2>2, EnteredExecuting
  <2>4. StageFits(t, row, changed)
    BY <1>1, <2>1, <2>2, <1>7 DEF StageFits, NextStage, Entered, Executing, Effects, Quiet, Body, LastStages,
       ApplyKinds, DeleteKinds, Kept
  <2>5. s # "resume"
    BY <1>1 DEF Body, Quiet, Effects
  <2> QED
    BY <1>4, <2>2, <2>3, <2>4, <2>5 DEF Allowed
<1> QED
  BY <1>1, <1>3, <1>4, <1>5, <1>7 DEF TaskMoves

LEMMA StepMoves ==
  ASSUME TypeOK, TaskFits, NEW w \in Workers, Step(w)
  PROVE  TaskMoves(w)
<1> DEFINE s == worker[w].pc
           j == worker[w].job
<1>0. /\ Body \subseteq Stages /\ LastStages \cup {"inspect"} \subseteq Effects \cup {"act"}
      /\ LastStages \cup {"inspect"} \subseteq Body
      /\ {"commit", "compensate", "recheck", "resume", "inspect"} \subseteq Stages
      /\ Effects \subseteq Body
  BY DEF Stages, Body, Effects, LastStages
<1>1. CASE Advance(w)
  BY <1>1, AdvanceMoves
<1>2. CASE StopCancelled(w)
  <2>1. s \in Stages /\ Finally(w, s, "cancelled") /\ UNCHANGED <<status, touched, kind, accepted, reconciling>>
    BY <1>0, <1>2 DEF StopCancelled
  <2>2. AfterFinally(s, "cancelled") \in Stages \cup {"idle"}
    BY <1>0 DEF AfterFinally
  <2> QED
    BY <2>1, <2>2, FinallyMoves, StayMoves
<1>3. CASE Succeed(w)
  <2>1. s \in Stages /\ End(w, s, "succeeded") /\ touched' = [touched EXCEPT ![j] = FALSE] /\ s # "resume"
        /\ UNCHANGED <<kind, accepted, reconciling>>
    BY <1>0, <1>3 DEF Succeed, LastStages
  <2> QED
    BY <2>1, EndMoves
<1>4. CASE LookUp(w)
  <2>1. s = "commit" /\ Goto(w, "inspect") /\ UNCHANGED <<status, touched, kind, accepted, reconciling>>
    BY <1>4 DEF LookUp
  <2>2. "commit" \in Effects /\ "inspect" \in Effects
    BY DEF Effects
  <2> QED
    BY <1>0, <2>1, <2>2, GotoMoves, StayMoves
<1>5. ASSUME Compensate(w), s \in {"apply", "verify", "inspect"} PROVE TaskMoves(w)
  <2>1. Goto(w, "compensate") /\ UNCHANGED <<status, touched, kind, accepted, reconciling>>
    BY <1>5 DEF Compensate
  <2>2. s \in Effects
    BY <1>5 DEF Effects
  <2> QED
    BY <1>0, <2>1, <2>2, GotoMoves, StayMoves
<1>6. CASE FailCall(w)
  BY <1>5, <1>6, GiveMoves DEF FailCall
<1>7. CASE Refuse(w)
  BY <1>5, <1>7, GiveMoves DEF Refuse
<1>8. CASE Reapplied(w)
  <2>1. s = "compensate" /\ Goto(w, "recheck") /\ UNCHANGED <<status, touched, kind, accepted, reconciling>>
    BY <1>8 DEF Reapplied
  <2> QED
    BY <1>0, <2>1, GotoMoves, StayMoves
<1>9. CASE Compensated(w)
  <2>1. s \in {"compensate", "recheck"} /\ End(w, s, "failed") /\ touched' = [touched EXCEPT ![j] = FALSE]
        /\ UNCHANGED <<kind, accepted, reconciling>>
    BY <1>9 DEF Compensated
  <2> QED
    BY <1>0, <2>1, EndMoves
<1>10. CASE NotCompensated(w)
  <2>1. /\ s \in {"compensate", "recheck"} /\ End(w, s, "needs_recovery")
        /\ UNCHANGED <<touched, kind, accepted, reconciling>>
    BY <1>10 DEF NotCompensated
  <2>2. touched[j] \in BOOLEAN /\ touched = [touched EXCEPT ![j] = touched[j]]
    BY <1>0, <2>1, TaskRow
  <2>3. touched' = [touched EXCEPT ![j] = touched[j]]
    BY <2>1, <2>2
  <2> QED
    BY <1>0, <2>1, <2>2, <2>3, EndMoves
<1>11. CASE Resumed(w)
  <2>1. s = "resume" /\ worker' = [worker EXCEPT ![w] = NoWorker]
        /\ UNCHANGED <<status, touched, kind, accepted, reconciling>>
    BY <1>11 DEF Resumed, Finish
  <2> QED
    BY <1>0, <2>1, StayMoves
<1>12. CASE NotResumed(w)
  <2>1. /\ s = "resume" /\ worker' = [worker EXCEPT ![w] = NoWorker]
        /\ status' = [status EXCEPT ![j] = "needs_recovery"]
        /\ UNCHANGED <<touched, kind, accepted, reconciling>>
    BY <1>12 DEF NotResumed, Finish, SetStatus
  <2>2. touched[j] \in BOOLEAN /\ touched = [touched EXCEPT ![j] = touched[j]]
    BY <1>0, <2>1, TaskRow
  <2>3. Moved(w, "idle", "needs_recovery", touched[j])
    BY <2>1, <2>2 DEF Moved
  <2>4. Allowed(s, status[j], touched[j], "idle", "needs_recovery", touched[j])
    BY DEF Allowed, StageFits, Executing, Quiet, Effects
  <2> QED
    BY <2>2, <2>3, <2>4, FinalStatuses DEF TaskMoves
<1> QED
  BY <1>1, <1>2, <1>3, <1>4, <1>6, <1>7, <1>8, <1>9, <1>10, <1>11, <1>12
     DEF Step, OnAnswer, OnError

LEMMA DeliverCancelMoves ==
  ASSUME TypeOK, TasksCancelled, TaskFits, NEW w \in Workers, DeliverCancel(w)
  PROVE  TaskMoves(w)
<1> DEFINE s == worker[w].pc
           j == worker[w].job
<1>1. s \in Stages
  BY DEF DeliverCancel, TasksCancelled, Free, TypeOK, NoWorker
<1>2. UNCHANGED <<touched, kind, accepted, reconciling>>
  BY DEF DeliverCancel
<1>3. CASE s \in {"start", "resume"}
  <2>1. worker' = [worker EXCEPT ![w] = NoWorker] /\ UNCHANGED status
    BY <1>3 DEF DeliverCancel, Finish
  <2> QED
    BY <1>1, <1>2, <2>1, StayMoves
<1>4. CASE s \notin {"start", "resume"} /\ (s \in {"compensate", "recheck"} \/ status[j] = "cancelled")
  <2>1. Finally(w, s, status[j]) /\ UNCHANGED status
    BY <1>4 DEF DeliverCancel
  <2>2. AfterFinally(s, status[j]) \in Stages \cup {"idle"}
    BY DEF AfterFinally, Stages
  <2> QED
    BY <1>1, <1>2, <2>1, <2>2, FinallyMoves, StayMoves
<1>5. CASE s \notin {"start", "resume"} /\ ~(s \in {"compensate", "recheck"} \/ status[j] = "cancelled")
  <2>1. PICK f \in {"needs_recovery", "interrupted"} :
          End(w, s, f) /\ (f = "interrupted" => ~ApplyStarted(s))
    BY <1>5 DEF DeliverCancel
  <2>2. /\ touched[j] \in BOOLEAN /\ (Kept(j) => StageFits(s, status[j], touched[j]))
        /\ touched = [touched EXCEPT ![j] = touched[j]]
    BY <1>1, TaskRow
  <2>3. Kept(j) /\ touched[j] => f = "needs_recovery"
    BY <1>1, <1>5, <2>1, <2>2 DEF StageFits, ApplyStarted, Stages, Body, Quiet
  <2>4. PICK changed \in BOOLEAN : changed = touched[j]
    BY <2>2, Zenon
  <2>5. touched' = [touched EXCEPT ![j] = changed] /\ UNCHANGED <<kind, accepted, reconciling>>
    BY <1>2, <2>2, <2>4
  <2> QED
    BY <1>1, <1>5, <2>1, <2>3, <2>4, <2>5, EndMoves
<1> QED
  BY <1>3, <1>4, <1>5

----------------------------------------------------------------------------
(* The step of one task disturbs no other. *)

LEMMA TaskMoveKeeps ==
  ASSUME TypeOK, TaskInv, NEW w \in Workers, worker[w].pc \in Stages, TaskMoves(w)
  PROVE  TaskInv'
<1> DEFINE j == worker[w].job
           s == worker[w].pc
<1>1. PICK p \in Stages \cup {"idle"}, row \in Statuses, changed \in BOOLEAN :
        /\ Moved(w, p, row, changed) /\ row # "none"
        /\ Kept(j) => Allowed(s, status[j], touched[j], p, row, changed)
  BY DEF TaskMoves
<1>2. j \in Jobs /\ s # "idle" /\ (Kept(j) => StageFits(s, status[j], touched[j]))
  BY TaskRow DEF TaskInv, Stages, Body, Quiet, Effects
<1>3. /\ status'[j] = row /\ touched'[j] = changed
      /\ \A k \in Jobs \ {j} : status'[k] = status[k] /\ touched'[k] = touched[k]
  BY <1>1, <1>2 DEF Moved, TypeOK
<1>4. /\ worker'[w].pc = p /\ (p # "idle" => worker'[w].job = j)
      /\ \A v \in Workers \ {w} : worker'[v] = worker[v]
  BY <1>1 DEF Moved, TypeOK, NoWorker
<1>5. UNCHANGED <<kind, accepted, reconciling>>
  BY <1>1 DEF Moved
<1>6. \A k : Kept(k)' <=> Kept(k)
  BY <1>5 DEF Kept
<1>7. \A v \in Workers \ {w} : worker[v].pc # "idle" => worker[v].job \in Jobs
  BY InTask
<1>8. \A v \in Workers \ {w} : worker[v].pc # "idle" /\ Kept(j) => worker[v].job # j
  BY <1>2 DEF TaskInv, OneTask
<1>9. TaskFits'
  <2> SUFFICES ASSUME NEW v \in Workers, worker'[v].pc # "idle"
               PROVE  /\ status'[worker'[v].job] # "none"
                      /\ Kept(worker'[v].job) =>
                           StageFits(worker'[v].pc, status'[worker'[v].job], touched'[worker'[v].job])
    BY <1>6 DEF TaskFits, Kept
  <2>1. CASE v = w
    BY <1>1, <1>2, <1>3, <1>4, <2>1 DEF Allowed
  <2>2. CASE v # w /\ worker[v].job # j
    BY <1>3, <1>4, <1>7, <2>2 DEF TaskInv, TaskFits
  <2>3. CASE v # w /\ worker[v].job = j
    BY <1>1, <1>3, <1>4, <1>8, <2>3
  <2> QED
    BY <2>1, <2>2, <2>3
<1>10. OneTask'
  BY <1>2, <1>4, <1>5 DEF TaskInv, OneTask, Kept
<1>11. EvidenceAlone'
  <2> SUFFICES ASSUME NEW k \in reconciling, Kept(k)
               PROVE  status'[k] \in {"failed", "succeeded"} \cup Held
    BY <1>5 DEF EvidenceAlone, Kept
  <2>1. status[k] \in {"failed", "succeeded"} \cup Held /\ k \in Jobs
    BY DEF TaskInv, EvidenceAlone, TypeOK
  <2>2. CASE k = j
    <3>1. s = "resume"
      BY <1>2, <2>1, <2>2 DEF StageFits, Stages, Body, Held, Quiet
    <3> QED
      BY <1>1, <1>3, <2>1, <2>2, <3>1 DEF Allowed, Held
  <2> QED
    BY <1>3, <2>1, <2>2
<1>12. AcceptedEnds' /\ CancelHonoured'
  <2> SUFFICES ASSUME NEW k \in Jobs, accepted[k]
               PROVE  Kept(k) /\ status'[k] \notin Executing \cup {"none"} /\ ~touched'[k]
    BY <1>5 DEF AcceptedEnds, CancelHonoured, Kept
  <2>1. Kept(k) /\ status[k] \notin Executing \cup {"none"} /\ ~touched[k]
    BY DEF TaskInv, AcceptedEnds, CancelHonoured
  <2>2. CASE k = j
    BY <1>1, <1>3, <2>1, <2>2 DEF Allowed
  <2> QED
    BY <1>3, <2>1, <2>2
<1>13. UncertainHeld'
  <2> SUFFICES ASSUME NEW k \in Jobs, touched'[k], Kept(k)
               PROVE  status'[k] \in {"applying", "needs_recovery"}
    BY <1>5 DEF UncertainHeld, Kept
  <2>1. CASE k = j
    BY <1>1, <1>3, <2>1 DEF Allowed, StageFits
  <2>2. CASE k # j
    BY <1>3, <2>2 DEF TaskInv, UncertainHeld, Kept
  <2> QED
    BY <2>1, <2>2
<1> QED
  BY <1>9, <1>10, <1>11, <1>12, <1>13 DEF TaskInv

(* A new task is that of a row nobody works on, or of a permanent deletion. *)
LEMMA SpawnKeeps ==
  ASSUME TypeOK, TaskInv, NEW j \in Jobs, Submit(j) \/ RetryDeletion(j)
  PROVE  TaskInv'
<1>1. PICK w \in Free : Spawn(w, j)
  BY DEF Submit, RetryDeletion
<1>2. /\ status'[j] = "queued" /\ \A k \in Jobs \ {j} : status'[k] = status[k]
      /\ UNCHANGED <<kind, accepted, reconciling>>
  BY DEF Submit, RetryDeletion, SetStatus, TypeOK
<1>3. \A k \in Jobs : touched'[k] => touched[k] /\ (k # j \/ Submit(j))
  BY DEF Submit, RetryDeletion, TypeOK
<1>4. /\ worker'[w] = [job |-> j, pc |-> "start"] /\ worker[w].pc = "idle" /\ w \in Workers
      /\ \A v \in Workers \ {w} : worker'[v] = worker[v]
  BY <1>1 DEF Spawn, Free, TypeOK
<1>5. Kept(j) => status[j] = "none"
  BY DEF Submit, RetryDeletion, Kept
<1>6. \A k : Kept(k)' <=> Kept(k)
  BY <1>2 DEF Kept
<1>7. Kept(j) => ~touched[j] /\ ~touched'[j] /\ \A v \in Workers : worker[v].pc # "idle" => worker[v].job # j
  BY <1>3, <1>5 DEF TaskInv, UncertainHeld, TaskFits, Kept
<1>8. \A v \in Workers : worker[v].pc # "idle" => worker[v].job \in Jobs
  BY InTask
<1>9. \A k \in Jobs \ {j} : touched'[k] = touched[k]
  BY DEF Submit, RetryDeletion, TypeOK
<1>10. TaskFits'
  <2> SUFFICES ASSUME NEW v \in Workers, worker'[v].pc # "idle"
               PROVE  /\ status'[worker'[v].job] # "none"
                      /\ Kept(worker'[v].job) =>
                           StageFits(worker'[v].pc, status'[worker'[v].job], touched'[worker'[v].job])
    BY <1>6 DEF TaskFits, Kept
  <2>1. CASE v = w
    BY <1>2, <1>4, <1>7, <2>1 DEF StageFits, Quiet, Effects
  <2>2. CASE v # w /\ worker[v].job # j
    BY <1>2, <1>4, <1>8, <1>9, <2>2 DEF TaskInv, TaskFits
  <2>3. CASE v # w /\ worker[v].job = j
    BY <1>2, <1>4, <1>7, <2>3
  <2> QED
    BY <2>1, <2>2, <2>3
<1>11. OneTask'
  BY <1>2, <1>4, <1>7 DEF TaskInv, OneTask, Kept
<1>12. EvidenceAlone'
  <2> SUFFICES ASSUME NEW k \in reconciling, Kept(k)
               PROVE  status'[k] \in {"failed", "succeeded"} \cup Held
    BY <1>2 DEF EvidenceAlone, Kept
  <2>1. status[k] \in {"failed", "succeeded"} \cup Held /\ k \in Jobs
    BY DEF TaskInv, EvidenceAlone, TypeOK
  <2>2. k # j
    BY <1>5, <2>1 DEF Held
  <2> QED
    BY <1>2, <2>1, <2>2
<1>13. \A k \in Jobs : accepted[k] => k # j
  BY <1>5 DEF TaskInv, AcceptedEnds
<1>14. AcceptedEnds' /\ CancelHonoured'
  BY <1>2, <1>9, <1>13 DEF TaskInv, AcceptedEnds, CancelHonoured, Kept
<1>15. UncertainHeld'
  BY <1>2, <1>7, <1>9 DEF TaskInv, UncertainHeld, Kept
<1> QED
  BY <1>10, <1>11, <1>12, <1>14, <1>15 DEF TaskInv

(* The cancel endpoint writes a row whose task has changed nothing yet.     *)
LEMMA CancelKeeps ==
  ASSUME TypeOK, TaskInv, NEW j \in Jobs, Cancel(j)
  PROVE  TaskInv'
<1>1. /\ status[j] \in {"queued", "running", "waiting", "cancelled"} /\ Kept(j)
      /\ status'[j] = "cancelled" /\ \A k \in Jobs \ {j} : status'[k] = status[k]
      /\ \A k \in Jobs \ {j} : accepted'[k] = accepted[k]
      /\ UNCHANGED <<kind, worker, touched, reconciling>>
  BY DEF Cancel, SetStatus, TypeOK, Kept
<1>2. ~touched[j]
  BY <1>1 DEF TaskInv, UncertainHeld, Kept
<1>3. \A v \in Workers : worker[v].pc # "idle" => worker[v].job \in Jobs
  BY InTask
<1>4. TaskFits'
  <2> SUFFICES ASSUME NEW v \in Workers, worker[v].pc # "idle"
               PROVE  /\ status'[worker[v].job] # "none"
                      /\ Kept(worker[v].job) =>
                           StageFits(worker[v].pc, status'[worker[v].job], touched[worker[v].job])
    BY <1>1 DEF TaskFits, Kept
  <2>1. CASE worker[v].job = j
    <3>1. StageFits(worker[v].pc, status[j], touched[j])
      BY <1>1, <2>1 DEF TaskInv, TaskFits
    <3> QED
      BY <1>1, <1>2, <2>1, <3>1 DEF StageFits
  <2>2. CASE worker[v].job # j
    BY <1>1, <1>3, <2>2 DEF TaskInv, TaskFits
  <2> QED
    BY <2>1, <2>2
<1>5. OneTask'
  BY <1>1 DEF TaskInv, OneTask, Kept
<1>6. EvidenceAlone'
  BY <1>1 DEF TaskInv, EvidenceAlone, Kept, Held, TypeOK
<1>7. AcceptedEnds' /\ CancelHonoured'
  BY <1>1, <1>2 DEF TaskInv, AcceptedEnds, CancelHonoured, Kept, Executing
<1>8. UncertainHeld'
  BY <1>1, <1>2 DEF TaskInv, UncertainHeld, Kept
<1> QED
  BY <1>4, <1>5, <1>6, <1>7, <1>8 DEF TaskInv

(* What a reconciliation may write over is the row of an ended task.        *)
LEMMA ReconcileKeeps ==
  ASSUME TypeOK, TaskInv, NEW j \in Jobs,
         ReconcileBegin(j) \/ ReconcileDone(j) \/ ReconcileFailed(j)
  PROVE  TaskInv'
<1>1. CASE ReconcileBegin(j) \/ ReconcileFailed(j)
  <2>1. UNCHANGED <<kind, worker, status, touched, accepted>>
    BY <1>1 DEF ReconcileBegin, ReconcileFailed
  <2>2. EvidenceAlone'
    BY <1>1, <2>1 DEF ReconcileBegin, ReconcileFailed, TaskInv, EvidenceAlone, Kept
  <2> QED
    BY <2>1, <2>2 DEF TaskInv, TaskFits, OneTask, AcceptedEnds, CancelHonoured, UncertainHeld, Kept
<1>2. CASE ReconcileDone(j)
  <2>1. /\ j \in reconciling /\ reconciling' \subseteq reconciling
        /\ status'[j] = "succeeded" /\ ~touched'[j]
        /\ \A k \in Jobs \ {j} : status'[k] = status[k] /\ touched'[k] = touched[k]
        /\ UNCHANGED <<kind, worker, accepted>>
    BY <1>2 DEF ReconcileDone, SetStatus, TypeOK
  <2>2. Kept(j) => status[j] \in {"failed", "succeeded"} \cup Held
    BY <2>1 DEF TaskInv, EvidenceAlone
  <2>3. \A v \in Workers : worker[v].pc # "idle" => worker[v].job \in Jobs /\ worker[v].pc \in Stages
    BY InTask
  <2>4. TaskFits'
    <3> SUFFICES ASSUME NEW v \in Workers, worker[v].pc # "idle"
                 PROVE  /\ status'[worker[v].job] # "none"
                        /\ Kept(worker[v].job) =>
                             StageFits(worker[v].pc, status'[worker[v].job], touched'[worker[v].job])
      BY <2>1 DEF TaskFits, Kept
    <3>1. CASE worker[v].job = j
      <4>1. Kept(j) => worker[v].pc = "resume"
        BY <2>2, <2>3, <3>1 DEF TaskInv, TaskFits, StageFits, Stages, Body, Held, Quiet
      <4> QED
        BY <2>1, <3>1, <4>1 DEF StageFits, Quiet, Effects
    <3>2. CASE worker[v].job # j
      BY <2>1, <2>3, <3>2 DEF TaskInv, TaskFits
    <3> QED
      BY <3>1, <3>2
  <2>5. OneTask'
    BY <2>1 DEF TaskInv, OneTask, Kept
  <2>6. EvidenceAlone'
    BY <2>1 DEF TaskInv, EvidenceAlone, Kept, TypeOK
  <2>7. AcceptedEnds' /\ CancelHonoured' /\ UncertainHeld'
    BY <2>1 DEF TaskInv, AcceptedEnds, CancelHonoured, UncertainHeld, Kept, Executing
  <2> QED
    BY <2>4, <2>5, <2>6, <2>7 DEF TaskInv
<1> QED
  BY <1>1, <1>2

(* The restart queues again what was queued, and holds the rest.            *)
LEMMA StartKeeps ==
  ASSUME TypeOK, TaskInv, Start
  PROVE  TaskInv'
<1> DEFINE queued == Requeued
<1>1. PICK task \in [queued -> Workers] :
        /\ \A i, j \in queued : task[i] = task[j] => i = j
        /\ worker' = [w \in Workers |->
            IF \E j \in queued : task[j] = w
              THEN [job |-> CHOOSE j \in queued : task[j] = w, pc |-> "start"]
              ELSE NoWorker]
  BY DEF Start
<1>2. ASSUME NEW w \in Workers, worker'[w].pc # "idle"
      PROVE  worker'[w].pc = "start" /\ worker'[w].job \in queued /\ task[worker'[w].job] = w
  BY <1>1, <1>2 DEF NoWorker
<1>3. /\ \A j \in Jobs : status'[j] = IF status[j] \in Executing \ {"queued"} THEN "needs_recovery" ELSE status[j]
      /\ UNCHANGED <<kind, touched, accepted>> /\ reconciling' = {}
  BY DEF Start
<1>4. \A j \in queued : j \in Jobs /\ status'[j] = "queued" /\ (Kept(j) => ~touched[j])
  BY <1>3 DEF Requeued, TaskInv, UncertainHeld, Kept
<1>5. TaskFits'
  BY <1>2, <1>3, <1>4 DEF TaskFits, StageFits, Kept, Quiet, Effects
<1>6. OneTask'
  BY <1>1, <1>2 DEF OneTask
<1>7. EvidenceAlone' /\ AcceptedEnds' /\ CancelHonoured'
  BY <1>3 DEF TaskInv, EvidenceAlone, AcceptedEnds, CancelHonoured, Kept, Executing
<1>8. UncertainHeld'
  BY <1>3 DEF TaskInv, UncertainHeld, Executing
<1> QED
  BY <1>5, <1>6, <1>7, <1>8 DEF TaskInv

LEMMA TaskInvKept == ASSUME IInv, TaskInv, [Next]_vars PROVE TaskInv'
<1>1. TypeOK /\ TasksCancelled
  BY DEF IInv
<1>2. ASSUME NEW w \in Workers, Step(w) PROVE TaskInv'
  <2>1. worker[w].pc \in Stages
    BY <1>2 DEF Step, OnAnswer, OnError, Advance, StopCancelled, Succeed, LookUp, FailCall, Refuse,
       Reapplied, Compensated, NotCompensated, Resumed, NotResumed, Stages, Body, Effects, LastStages
  <2> QED
    BY <1>1, <1>2, <2>1, StepMoves, TaskMoveKeeps DEF TaskInv
<1>3. ASSUME NEW w \in Workers, DeliverCancel(w) PROVE TaskInv'
  <2>1. worker[w].pc \in Stages
    BY <1>1, <1>3 DEF DeliverCancel, TasksCancelled, Free, TypeOK, NoWorker
  <2> QED
    BY <1>1, <1>3, <2>1, DeliverCancelMoves, TaskMoveKeeps DEF TaskInv
<1>4. CASE Restart \/ Crash
  BY <1>1, <1>4, StartKeeps DEF Restart, Crash
<1>5. CASE UNCHANGED <<kind, worker, status, touched, accepted, reconciling>>
  BY <1>5 DEF TaskInv, TaskFits, OneTask, EvidenceAlone, AcceptedEnds, CancelHonoured, UncertainHeld, Kept
<1>6. CASE (\E S \in SUBSET Agents : LoadStart(S)) \/ LoadEnd \/ Stop \/ UNCHANGED vars
  BY <1>5, <1>6 DEF LoadStart, LoadEnd, Stop
<1> QED
  BY <1>1, <1>2, <1>3, <1>4, <1>6, SpawnKeeps, CancelKeeps, ReconcileKeeps DEF Next

(* What ties a task to its row holds in every reachable state, along with  *)
(* the invariant of the table.                                             *)
THEOREM TaskInvariance == Spec => []TaskInv
<1>1. Init => TaskInv
  <2> SUFFICES ASSUME Init PROVE TaskInv
    OBVIOUS
  <2>1. TaskFits /\ OneTask
    BY DEF Init, TaskFits, OneTask, NoWorker
  <2>2. EvidenceAlone /\ UncertainHeld
    BY DEF Init, EvidenceAlone, UncertainHeld
  <2>3. AcceptedEnds /\ CancelHonoured
    BY DEF Init, AcceptedEnds, CancelHonoured
  <2> QED
    BY <2>1, <2>2, <2>3 DEF TaskInv
<1>2. IInv /\ TaskInv /\ [Next]_vars => TaskInv'
  BY TaskInvKept
<1> QED
  BY <1>1, <1>2, Invariance, PTL DEF Spec

(* A worker that began to change its target without completing it or        *)
(* undoing it leaves a row that keeps the target: through failures, lost    *)
(* answers, cancellations, reconciliations and restarts (main.py,           *)
(* Workflows.run and its handlers).                                         *)
THEOREM UncertainTargetHeld == Spec => []UncertainHeld
<1>1. TaskInv => UncertainHeld
  BY DEF TaskInv
<1> QED
  BY <1>1, TaskInvariance, PTL

(* Wherever the cancel endpoint's write falls among the worker's, a job     *)
(* whose cancellation was accepted never starts changing its target.        *)
THEOREM CancellationHonoured == Spec => []CancelHonoured
<1>1. TaskInv => CancelHonoured
  BY DEF TaskInv
<1> QED
  BY <1>1, TaskInvariance, PTL

=====
