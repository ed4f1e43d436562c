------------------------- MODULE ModelReleaseProofs -------------------------
(***************************************************************************)
(* Proofs about GatewayConfig and ModelRelease, for every set of releases  *)
(* and any number of crashes: the file and the memory of the gateway       *)
(* implement one atomic register, whatever operations asks of it, and the  *)
(* job that publishes a release leaves gateway and catalog in agreement.   *)
(***************************************************************************)
EXTENDS ModelRelease, TLAPS

(* What the write order keeps: a call at work is still one to be admitted,  *)
(* and file and memory differ only between the two writes.                 *)
GatewayTypes ==
  /\ disk \in [active : Releases \cup {None}, previous : Releases \cup {None}]
  /\ memory \in [active : Releases \cup {None}, previous : Releases \cup {None},
                 router : Releases \cup {None}, up : BOOLEAN]
  /\ op \in {NoOp} \cup [stage : {"building", "written", "storing"}, call : Calls]

WriteOrder ==
  /\ ~memory.up => op = NoOp
  /\ op.stage \in {"building", "written"} => Admitted(op.call)
  /\ op.stage = "written" => disk = Target(op.call)
  /\ memory.up /\ op.stage # "written" =>
       disk.active = memory.active /\ disk.previous = memory.previous

GatewayInv == GatewayTypes /\ WriteOrder

LEMMA GatewayStarting == ASSUME GatewayInit PROVE GatewayInv /\ Register!Init
  BY DEF GatewayInit, GatewayInv, GatewayTypes, WriteOrder, Blank, Down, NoOp, Register!Init, Served

LEMMA TargetType ==
  ASSUME GatewayTypes, NEW c \in Calls
  PROVE  Target(c) \in [active : Releases \cup {None}, previous : Releases \cup {None}]
  BY DEF GatewayTypes, Calls, Target

LEMMA AcceptStep ==
  ASSUME GatewayInv, NEW c \in Calls, Accept(c)
  PROVE  GatewayInv' /\ UNCHANGED Served
  BY DEF GatewayInv, GatewayTypes, WriteOrder, Accept, Admitted, NoOp, Served

LEMMA PersistStep ==
  ASSUME GatewayInv, Persist
  PROVE  GatewayInv' /\ UNCHANGED Served
<1>1. op.call \in Calls /\ memory.up /\ Admitted(op.call) /\ op' = [stage |-> "written", call |-> op.call]
  BY DEF GatewayInv, GatewayTypes, WriteOrder, Persist, NoOp
<1>2. GatewayTypes'
  BY <1>1, TargetType DEF GatewayInv, GatewayTypes, Persist
<1>3. WriteOrder'
  BY <1>1 DEF Persist, WriteOrder, Admitted, Target
<1>4. UNCHANGED Served
  BY <1>1 DEF Persist, Served
<1> QED
  BY <1>2, <1>3, <1>4 DEF GatewayInv

(* The step that the readers see: the register's. *)
LEMMA StoreReleaseStep ==
  ASSUME GatewayInv, StoreRelease
  PROVE  GatewayInv' /\ Register!Next
<1>1. /\ op.call \in Calls /\ memory.up /\ Admitted(op.call)
      /\ op' = [stage |-> "storing", call |-> op.call] /\ disk = Target(op.call)
  BY DEF GatewayInv, GatewayTypes, WriteOrder, StoreRelease, NoOp
<1>2. memory' = [active |-> disk.active, previous |-> disk.previous, router |-> memory.router, up |-> TRUE]
  BY <1>1 DEF GatewayInv, GatewayTypes, StoreRelease, Stored
<1>3. GatewayInv'
  <2>1. GatewayTypes'
    <3>1. op' \in [stage : {"building", "written", "storing"}, call : Calls]
      BY <1>1
    <3>2. disk \in [active : Releases \cup {None}, previous : Releases \cup {None}]
      BY DEF GatewayInv, GatewayTypes
    <3>3. memory.router \in Releases \cup {None}
      BY DEF GatewayInv, GatewayTypes
    <3>4. disk' = disk
      BY DEF StoreRelease
    <3> QED
      BY <1>2, <3>1, <3>2, <3>3, <3>4 DEF GatewayTypes
  <2>2. disk' = disk /\ memory'.up /\ op'.stage = "storing"
    BY <1>1, <1>2 DEF StoreRelease
  <2>3. memory'.active = disk.active /\ memory'.previous = disk.previous
    BY <1>2
  <2>4. WriteOrder'
    BY <2>2, <2>3 DEF WriteOrder
  <2> QED
    BY <2>1, <2>4 DEF GatewayInv
<1> SUFFICES Register!Next
  BY <1>3
<1>4. Served.active = memory.active /\ Served.previous = memory.previous
  BY <1>1 DEF Served
<1>5. (Served.active)' = disk.active /\ (Served.previous)' = disk.previous
  BY <1>2 DEF Served
<1>6. CASE op.call.action = "activate"
  <2>1. Register!Activate(op.call.release)
    BY <1>1, <1>4, <1>5, <1>6 DEF Register!Activate, Admitted, Target
  <2> QED
    BY <1>1, <2>1 DEF Register!Next, Calls
<1>7. CASE op.call.action = "rollback"
  BY <1>1, <1>4, <1>5, <1>7 DEF Register!Next, Register!Rollback, Admitted, Target
<1> QED
  BY <1>1, <1>6, <1>7 DEF Calls

(* A crash between the two writes is the register's step as well. *)
LEMMA CrashStep ==
  ASSUME GatewayInv, GatewayCrash
  PROVE  GatewayInv' /\ (Register!Next \/ UNCHANGED <<Served.active, Served.previous>>)
<1>1. GatewayInv'
  BY DEF GatewayInv, GatewayTypes, WriteOrder, GatewayCrash, Down, NoOp
<1>2. memory.up /\ Served.active = memory.active /\ Served.previous = memory.previous
  BY DEF GatewayCrash, Served
<1>3. (Served.active)' = disk.active /\ (Served.previous)' = disk.previous
  BY DEF GatewayCrash, Served, Down
<1> SUFFICES Register!Next \/ UNCHANGED <<Served.active, Served.previous>>
  BY <1>1
<1>4. CASE op.stage # "written"
  BY <1>2, <1>3, <1>4 DEF GatewayInv, WriteOrder
<1>5. CASE op.stage = "written"
  <2>1. op.call \in Calls /\ Admitted(op.call) /\ disk = Target(op.call)
    BY <1>5 DEF GatewayInv, GatewayTypes, WriteOrder, NoOp
  <2>2. CASE op.call.action = "activate"
    <3>1. Register!Activate(op.call.release)
      BY <1>2, <1>3, <2>1, <2>2 DEF Register!Activate, Admitted, Target
    <3> QED
      BY <2>1, <3>1 DEF Register!Next, Calls
  <2>3. CASE op.call.action = "rollback"
    BY <1>2, <1>3, <2>1, <2>3 DEF Register!Next, Register!Rollback, Admitted, Target
  <2> QED
    BY <2>1, <2>2, <2>3 DEF Calls
<1> QED
  BY <1>4, <1>5

LEMMA OtherSteps ==
  ASSUME GatewayInv, StoreRouter \/ Abandon \/ GatewayStart \/ UNCHANGED gateway
  PROVE  GatewayInv' /\ UNCHANGED <<Served.active, Served.previous>>
<1>1. CASE StoreRouter
  BY <1>1 DEF GatewayInv, GatewayTypes, WriteOrder, StoreRouter, NoOp, Served
<1>2. CASE Abandon
  BY <1>2 DEF GatewayInv, GatewayTypes, WriteOrder, Abandon, NoOp, Served
<1>3. CASE GatewayStart
  BY <1>3 DEF GatewayInv, GatewayTypes, WriteOrder, GatewayStart, Loaded, NoOp, Served
<1>4. CASE UNCHANGED gateway
  BY <1>4 DEF gateway, GatewayInv, GatewayTypes, WriteOrder, Admitted, Target, Served
<1> QED
  BY <1>1, <1>2, <1>3, <1>4

LEMMA GatewayStep ==
  ASSUME GatewayInv, [GatewayNext]_gateway
  PROVE  GatewayInv' /\ [Register!Next]_<<Served.active, Served.previous>>
  BY AcceptStep, PersistStep, StoreReleaseStep, CrashStep, OtherSteps DEF GatewayNext

----------------------------------------------------------------------------
(* Whatever the job, the catalog and the network do, the gateway takes its own steps. *)
LEMMA StepIsGatewayStep == ASSUME [Next]_vars PROVE [GatewayNext]_gateway
<1>1. CASE GatewaySteps
  BY <1>1 DEF GatewaySteps, GatewayAccepts, GatewayDeclines, GatewayWorks, GatewayDone,
              GatewayFails, GatewayCrashes, GatewayStarts, GatewayNext
<1>2. CASE JobSteps
  BY <1>2 DEF JobSteps, JobOthers, Submit, Prepare, Validate, NotBegun, Quiesce, NotQuiesced,
              Activated, ActivationUnknown, Verify, NotVerified, Committed, CommitUnknown, LookUp,
              LookUpFails, RolledBack, RollbackUnknown, Resume, NotResumed, OperationsCrash,
              Reconcile, ReconcileCommitted, Recommitted, Reconciled, NotReconciled
<1>3. ASSUME NEW c \in Calls \cup Commits, CatalogCommits(c) \/ Lose(c) PROVE UNCHANGED gateway
  BY <1>3 DEF CatalogCommits, Lose
<1>4. CASE UNCHANGED vars
  BY <1>4 DEF vars
<1> QED
  BY <1>1, <1>2, <1>3, <1>4 DEF Next

(* The gateway implements the atomic register in every behaviour of the     *)
(* publication of models: readers, rollbacks and restarts see each          *)
(* activation wholly or not at all (model_gateway state.py:104-139).        *)
THEOREM GatewayImplementsRegister == Spec => Atomic
<1>1. Init => GatewayInv /\ Register!Init
  BY GatewayStarting DEF Init
<1>2. GatewayInv /\ [Next]_vars => GatewayInv' /\ [Register!Next]_<<Served.active, Served.previous>>
  BY StepIsGatewayStep, GatewayStep
<1> QED
  BY <1>1, <1>2, PTL DEF Spec, Atomic, Register!Spec
----------------------------------------------------------------------------
(* The inductive invariant of a publication *)

Sent(action, r) == [action |-> action, release |-> r] \in calls
AtWork(action, r) == op # NoOp /\ op.call = [action |-> action, release |-> r]
IsCommitted(r) == r # None /\ releases[r].committed

(* The router is the active release's whenever nobody stores, and whoever  *)
(* stores an activation has made its release the active one.               *)
RouterKept ==
  /\ memory.up /\ op.stage # "storing" => memory.router = memory.active
  /\ op.stage = "storing" /\ op.call.action = "activate" => memory.active = op.call.release

(* Versions are numbered in the order of their commits, and a release can  *)
(* only be committed as the version it was prepared to be.                 *)
Numbered ==
  /\ catalog.active = Len(catalog.versions)
  /\ \A r \in Releases : /\ releases[r] = Unprepared \/ releases[r].version = releases[r].old + 1
                         /\ releases[r].old <= Len(catalog.versions)
                         /\ IsCommitted(job.release) => releases[r].old < Len(catalog.versions)
  /\ ActiveRelease # None => IsCommitted(ActiveRelease)
  /\ IsCommitted(job.release) => ActiveRelease = job.release

Early == {"prepare", "validate", "quiesce"}
StageFits ==
  /\ job.stage \in Early \cup {"activate", "verify", "commit", "lookup", "rollback"} => job.status = "running"
  /\ job.stage = "resume" => job.status \in {"succeeded", "failed", "cancelled"}
  /\ job.stage \in {"reconcile", "reconciled"} => job.status \in {"needs_recovery", "failed"}
  /\ job.stage = "ended" => job.status # "running"
  /\ job.stage = "prepare" => job.release = None

(* A release nobody has told the gateway or the catalog about.             *)
Unused(r) ==
  /\ r \notin {disk.active, disk.previous, memory.active, memory.previous, memory.router}
  /\ op # NoOp => op.call.release # r
  /\ \A c \in calls : c.release # r
  /\ ~IsCommitted(r)

Fresh ==
  /\ \A r \in Releases : releases[r] = Unprepared => Unused(r) /\ job.release # r
  /\ job.stage \in {"validate", "quiesce"} => Unused(job.release)

(* An activation under way, or not yet begun, is the newest job's; it      *)
(* either waits, or is held for recovery and cannot be reconciled.         *)
ActivationHeld ==
  /\ \A r \in Releases :
       Sent("activate", r) \/ (AtWork("activate", r) /\ op.stage # "storing") =>
         /\ job.release = r /\ ~IsCommitted(r) /\ ~Sent("commit", r)
         /\ job.stage = "activate" \/ (job.stage = "ended" /\ job.status = "needs_recovery")
  /\ \A r \in Releases :
       Sent("activate", r) => /\ r \notin {disk.active, disk.previous, memory.active, memory.previous}
                              /\ op # NoOp => op.call.release # r
  /\ job.stage \in {"validate", "quiesce", "activate", "verify"} =>
       ~IsCommitted(job.release) /\ ~Sent("commit", job.release)

(* A job sends its rollback once, and its answer comes once.               *)
RollbackOnce ==
  /\ \A r \in Releases :
       (Sent("rollback", r) \/ AtWork("rollback", r)) /\ job.release = r =>
         job.stage \in {"rollback", "ended", "reconcile", "reconciled"}
  /\ \A r \in Releases : ~(Sent("rollback", r) /\ AtWork("rollback", r))
  /\ answer # "none" /\ job.stage \in {"activate", "rollback"} =>
       ~Sent(job.stage, job.release) /\ ~AtWork(job.stage, job.release)

(* What an acknowledgement proves, whatever happened before.               *)
Acknowledged ==
  /\ \/ job.stage \in {"verify", "commit", "lookup"}
     \/ job.stage = "resume" /\ job.status = "succeeded"
     \/ job.stage = "activate" /\ answer = "ok"
     => op = NoOp /\ Served.active = job.release
  /\ job.stage \in {"commit", "reconcile"} /\ answer = "ok" => IsCommitted(job.release)
  /\ job.stage = "reconciled" => IsCommitted(job.release)
  /\ job.stage = "resume" /\ job.status = "succeeded" => IsCommitted(job.release)

(* Nothing was executed behind a caller's back, nor is being executed.     *)
Quiet == ~stray /\ (op.stage \in {"written", "storing"} => Awaited(op.call))

Between(a, r) == AtWork(a, r) /\ op.stage \in {"written", "storing"}
InStep ==
  LET r == job.release IN
  /\ job.stage \in Early => Served.active = ActiveRelease
  /\ job.stage \in {"resume", "ended"} /\ Free => Served.active = ActiveRelease
  /\ job.status \in {"failed", "cancelled"} =>
       ~IsCommitted(r) /\ job.stage \notin {"reconcile", "reconciled"}
  /\ IsCommitted(r) => Served.active = r
  /\ job.stage \in {"reconcile", "reconciled"} => Served.active = r

Activating ==
  LET r == job.release IN job.stage = "activate" =>
    /\ answer = "none" /\ ~Between("activate", r) => Served.active = ActiveRelease
    /\ AtWork("activate", r) /\ op.stage = "written" => memory.active = ActiveRelease
    /\ AtWork("activate", r) /\ op.stage = "storing" =>
         memory.active = r /\ memory.previous = ActiveRelease
    /\ answer = "ok" => Served.previous = ActiveRelease

Undoable ==
  /\ job.stage \in {"verify", "commit", "lookup"} /\ ~IsCommitted(job.release) =>
       Served.previous = ActiveRelease
  /\ job.stage = "rollback" =>
       /\ ~IsCommitted(job.release)
       /\ answer = "none" /\ ~(AtWork("rollback", job.release) /\ op.stage = "storing") =>
            Served.active = job.release /\ Served.previous = ActiveRelease
       /\ AtWork("rollback", job.release) /\ op.stage = "storing" => memory.active = ActiveRelease
       /\ answer = "ok" => Served.active = ActiveRelease

Protocol ==
  /\ RouterKept /\ Numbered /\ StageFits /\ Fresh
  /\ ActivationHeld /\ RollbackOnce /\ Acknowledged
  /\ Quiet => InStep /\ Activating /\ Undoable

JobInv == TypeOK /\ GatewayInv /\ Protocol

----------------------------------------------------------------------------
(* What the types say, for the proofs that do not need the sets. *)
JobFits ==
  /\ job.stage \in Stages /\ job.release \in Releases \cup {None}
  /\ job.status \in {"none", "running", "succeeded", "failed", "cancelled", "needs_recovery"}
  /\ job.stage \notin {"prepare", "ended"} => job.release \in Releases /\ job.release # None
OpFits == op # NoOp => op.stage \in {"building", "written", "storing"} /\ op.call \in Calls
CallsFit == calls \subseteq Calls \cup Commits
AnswerFits == answer \in {"none", "ok", "error"}
Fits == JobFits /\ OpFits /\ CallsFit /\ AnswerFits

LEMMA TypesFit == ASSUME TypeOK PROVE Fits
  BY DEF TypeOK, Fits, JobFits, OpFits, CallsFit, AnswerFits

(* The steps of the job leave this alone; those of the gateway and of the   *)
(* network, that.                                                          *)
JobKeeps == UNCHANGED <<disk, memory, op, catalog, stray>>
OthersKeep == UNCHANGED <<job, catalog, releases>>

Moves(status, stage) == job'.status = status /\ job'.stage = stage /\ job'.release = job.release
Silent == UNCHANGED <<releases, calls, answer>>
Sends(action) ==
  /\ UNCHANGED releases
  /\ calls' = calls \cup {[action |-> action, release |-> job.release]}
  /\ answer' = "none"

LEMMA JobFrame == ASSUME JobKeeps PROVE Served' = Served /\ ActiveRelease' = ActiveRelease
  BY DEF JobKeeps, Served, ActiveRelease

LEMMA ActiveFrame == ASSUME OthersKeep PROVE ActiveRelease' = ActiveRelease
  BY DEF OthersKeep, ActiveRelease

LEMMA NumberedKept ==
  ASSUME Numbered, UNCHANGED <<catalog, releases>>, job'.release = job.release
  PROVE  Numbered'
  BY DEF Numbered, IsCommitted, ActiveRelease

LEMMA RouterFrame == ASSUME RouterKept, JobKeeps PROVE RouterKept'
  BY DEF RouterKept, JobKeeps

LEMMA ValidateStep ==
  ASSUME JobInv, Validate
  PROVE  Protocol'
<1>1. /\ JobKeeps /\ job.stage = "validate"
      /\ Moves(job.status, "quiesce") /\ Silent
  BY TypesFit DEF Validate, Stage, JobOthers, gateway, JobKeeps, Moves, Silent, JobInv, Fits, JobFits, TypeOK
<1>2. RouterKept' /\ Numbered'
  BY <1>1, RouterFrame, NumberedKept DEF JobInv, Protocol, Moves, Silent, JobKeeps
<1>3. StageFits'
  BY <1>1, TypesFit, JobFrame DEF Moves, Silent, JobInv, Protocol, Fits, JobKeeps, StageFits, Early, Free, Reconcilable, JobFits, Stages
<1>4. Fresh'
  BY <1>1, TypesFit, JobFrame DEF Moves, Silent, JobInv, Protocol, Fits, JobKeeps, Fresh, Unused, IsCommitted, Unprepared, Early, StageFits, Reconcilable, JobFits
<1>5. ActivationHeld'
  BY <1>1, TypesFit, JobFrame DEF Moves, Silent, JobInv, Protocol, Fits, JobKeeps, ActivationHeld, RollbackOnce, Acknowledged, GatewayInv, WriteOrder, Admitted, Serves, Sent, AtWork, IsCommitted, StageFits, Fresh, Unused, Reconcilable, JobFits, OpFits, Calls, Commits, NoOp, Free
<1>6. RollbackOnce'
  BY <1>1, TypesFit, JobFrame DEF Moves, Silent, JobInv, Protocol, Fits, JobKeeps, RollbackOnce, ActivationHeld, Acknowledged, Sent, AtWork, StageFits, Fresh, Unused, Reconcilable, JobFits, OpFits, CallsFit, Free
<1>7. Acknowledged'
  BY <1>1, TypesFit, JobFrame DEF Moves, Silent, JobInv, Protocol, Fits, JobKeeps, Acknowledged, RouterKept, Serves, IsCommitted, StageFits, Reconcilable, ActivationHeld, Fresh, Unused, JobFits
<1>8. ASSUME Quiet' PROVE InStep' /\ Activating' /\ Undoable'
  <2>1. Quiet
    BY <1>1, <1>8, TypesFit DEF JobKeeps, Moves, Silent, JobInv, Protocol, Fits, OpFits, CallsFit, Quiet, Awaited, StageFits, Acknowledged, Reconcilable, JobFits, Calls, Commits, NoOp, Free
  <2>2. InStep /\ Activating /\ Undoable
    BY <2>1 DEF JobInv, Protocol
  <2>3. InStep'
    BY <1>1, <2>2, TypesFit, JobFrame DEF JobKeeps, Moves, Silent, JobInv, Protocol, Fits, InStep, StageFits, Early, Free, Acknowledged, Numbered, Undoable, IsCommitted, Reconcilable, Serves, Served, RouterKept, JobFits, Stages
  <2>4. Activating'
    BY <1>1, <2>2, TypesFit, JobFrame DEF JobKeeps, Moves, Silent, JobInv, Protocol, Fits, OpFits, Activating, InStep, Early, Fresh, Unused, AtWork, Between, NoOp
  <2>5. Undoable'
    BY <1>1, <2>2, TypesFit, JobFrame DEF JobKeeps, Moves, Silent, JobInv, Protocol, Fits, OpFits, Undoable, ActivationHeld, Activating, Acknowledged, AtWork, IsCommitted, NoOp
  <2> QED
    BY <2>3, <2>4, <2>5
<1> QED
  BY <1>2, <1>3, <1>4, <1>5, <1>6, <1>7, <1>8 DEF Protocol

(* Refused or cancelled before anything was sent: the release stays unused. *)
LEMMA NotBegunStep ==
  ASSUME JobInv, NotBegun
  PROVE  Protocol'
<1>1. /\ JobKeeps /\ job.stage \in {"prepare", "validate"}
      /\ \E status \in {"failed", "cancelled"} : Moves(status, "ended") /\ Silent
  BY TypesFit DEF NotBegun, End, JobOthers, gateway, JobKeeps, Moves, Silent, JobInv, Fits, JobFits, TypeOK
<1>2. RouterKept' /\ Numbered'
  BY <1>1, RouterFrame, NumberedKept DEF JobInv, Protocol, Moves, Silent, JobKeeps
<1>3. StageFits'
  BY <1>1, TypesFit, JobFrame DEF Moves, Silent, JobInv, Protocol, Fits, JobKeeps, StageFits, Early, Free, Reconcilable, JobFits, Stages
<1>4. Fresh'
  BY <1>1, TypesFit, JobFrame DEF Moves, Silent, JobInv, Protocol, Fits, JobKeeps, Fresh, Unused, IsCommitted, Unprepared, Early, StageFits, Reconcilable, JobFits
<1>5. ActivationHeld'
  BY <1>1, TypesFit, JobFrame DEF Moves, Silent, JobInv, Protocol, Fits, JobKeeps, ActivationHeld, RollbackOnce, Acknowledged, GatewayInv, WriteOrder, Admitted, Serves, Sent, AtWork, IsCommitted, StageFits, Fresh, Unused, Reconcilable, JobFits, OpFits, Calls, Commits, NoOp, Free
<1>6. RollbackOnce'
  BY <1>1, TypesFit, JobFrame DEF Moves, Silent, JobInv, Protocol, Fits, JobKeeps, RollbackOnce, ActivationHeld, Acknowledged, Sent, AtWork, StageFits, Fresh, Unused, Reconcilable, JobFits, OpFits, CallsFit, Free
<1>7. Acknowledged'
  BY <1>1, TypesFit, JobFrame DEF Moves, Silent, JobInv, Protocol, Fits, JobKeeps, Acknowledged, RouterKept, Serves, IsCommitted, StageFits, Reconcilable, ActivationHeld, Fresh, Unused, JobFits
<1>8. ASSUME Quiet' PROVE InStep' /\ Activating' /\ Undoable'
  <2>1. Quiet
    BY <1>1, <1>8, TypesFit DEF JobKeeps, Moves, Silent, JobInv, Protocol, Fits, OpFits, CallsFit, Quiet, Awaited, StageFits, Acknowledged, Reconcilable, JobFits, Calls, Commits, NoOp, Free
  <2>2. InStep /\ Activating /\ Undoable
    BY <2>1 DEF JobInv, Protocol
  <2>3. InStep'
    BY <1>1, <2>2, TypesFit, JobFrame DEF JobKeeps, Moves, Silent, JobInv, Protocol, Fits, InStep, StageFits, Early, Free, Acknowledged, Numbered, Undoable, IsCommitted, Reconcilable, Serves, Served, RouterKept, JobFits, Stages, Fresh, Unused
  <2>4. Activating'
    BY <1>1, <2>2, TypesFit, JobFrame DEF JobKeeps, Moves, Silent, JobInv, Protocol, Fits, OpFits, Activating, InStep, Early, Fresh, Unused, AtWork, Between, NoOp
  <2>5. Undoable'
    BY <1>1, <2>2, TypesFit, JobFrame DEF JobKeeps, Moves, Silent, JobInv, Protocol, Fits, OpFits, Undoable, ActivationHeld, Activating, Acknowledged, AtWork, IsCommitted, NoOp
  <2> QED
    BY <2>3, <2>4, <2>5
<1> QED
  BY <1>2, <1>3, <1>4, <1>5, <1>6, <1>7, <1>8 DEF Protocol

(* The one activation of a release is sent while nobody knows it.           *)
LEMMA QuiesceStep ==
  ASSUME JobInv, Quiesce
  PROVE  Protocol'
<1>1. /\ JobKeeps /\ job.stage = "quiesce"
      /\ Moves(job.status, "activate") /\ Sends("activate")
  BY TypesFit DEF Quiesce, Send, Stage, JobOthers, gateway, JobKeeps, Moves, Sends, JobInv, Fits, JobFits, TypeOK
<1>2. RouterKept' /\ Numbered'
  BY <1>1, RouterFrame, NumberedKept DEF JobInv, Protocol, Moves, Sends, JobKeeps
<1>3. StageFits'
  BY <1>1, TypesFit, JobFrame DEF Moves, Sends, JobInv, Protocol, Fits, JobKeeps, StageFits, Early, Free, Reconcilable, JobFits, Stages
<1>4. Fresh'
  BY <1>1, TypesFit, JobFrame DEF Moves, Sends, JobInv, Protocol, Fits, JobKeeps, Fresh, Unused, IsCommitted, Unprepared, Early, StageFits, Reconcilable, JobFits
<1>5. ActivationHeld'
  BY <1>1, TypesFit, JobFrame DEF Moves, Sends, JobInv, Protocol, Fits, JobKeeps, ActivationHeld, RollbackOnce, Acknowledged, GatewayInv, WriteOrder, Admitted, Serves, Sent, AtWork, IsCommitted, StageFits, Fresh, Unused, Reconcilable, JobFits, OpFits, Calls, Commits, NoOp, Free
<1>6. RollbackOnce'
  BY <1>1, TypesFit, JobFrame DEF Moves, Sends, JobInv, Protocol, Fits, JobKeeps, RollbackOnce, ActivationHeld, Acknowledged, Sent, AtWork, StageFits, Fresh, Unused, Reconcilable, JobFits, OpFits, CallsFit, Free
<1>7. Acknowledged'
  BY <1>1, TypesFit, JobFrame DEF Moves, Sends, JobInv, Protocol, Fits, JobKeeps, Acknowledged, RouterKept, Serves, IsCommitted, StageFits, Reconcilable, ActivationHeld, Fresh, Unused, JobFits
<1>8. ASSUME Quiet' PROVE InStep' /\ Activating' /\ Undoable'
  <2>1. Quiet
    BY <1>1, <1>8, TypesFit DEF JobKeeps, Moves, Sends, JobInv, Protocol, Fits, OpFits, CallsFit, Quiet, Awaited, StageFits, Acknowledged, Reconcilable, Fresh, Unused, JobFits, Calls, Commits, NoOp, Free
  <2>2. InStep /\ Activating /\ Undoable
    BY <2>1 DEF JobInv, Protocol
  <2>3. InStep'
    BY <1>1, <2>2, TypesFit, JobFrame DEF JobKeeps, Moves, Sends, JobInv, Protocol, Fits, InStep, StageFits, Early, Free, Acknowledged, Numbered, Undoable, IsCommitted, Reconcilable, Serves, Served, RouterKept, JobFits, Stages, Fresh, Unused
  <2>4. Activating'
    BY <1>1, <2>2, TypesFit, JobFrame DEF JobKeeps, Moves, Sends, JobInv, Protocol, Fits, OpFits, Activating, InStep, Early, Fresh, Unused, AtWork, Between, NoOp
  <2>5. Undoable'
    BY <1>1, <2>2, TypesFit, JobFrame DEF JobKeeps, Moves, Sends, JobInv, Protocol, Fits, OpFits, Undoable, ActivationHeld, Activating, Acknowledged, AtWork, IsCommitted, NoOp
  <2> QED
    BY <2>3, <2>4, <2>5
<1> QED
  BY <1>2, <1>3, <1>4, <1>5, <1>6, <1>7, <1>8 DEF Protocol

LEMMA NotQuiescedStep ==
  ASSUME JobInv, NotQuiesced
  PROVE  Protocol'
<1>1. /\ JobKeeps /\ job.stage = "quiesce"
      /\ \E status \in {"failed", "cancelled"} : Moves(status, "resume") /\ Silent
  BY TypesFit DEF NotQuiesced, JobOthers, gateway, JobKeeps, Moves, Silent, JobInv, Fits, JobFits, TypeOK
<1>2. RouterKept' /\ Numbered'
  BY <1>1, RouterFrame, NumberedKept DEF JobInv, Protocol, Moves, Silent, JobKeeps
<1>3. StageFits'
  BY <1>1, TypesFit, JobFrame DEF Moves, Silent, JobInv, Protocol, Fits, JobKeeps, StageFits, Early, Free, Reconcilable, JobFits, Stages
<1>4. Fresh'
  BY <1>1, TypesFit, JobFrame DEF Moves, Silent, JobInv, Protocol, Fits, JobKeeps, Fresh, Unused, IsCommitted, Unprepared, Early, StageFits, Reconcilable, JobFits
<1>5. ActivationHeld'
  BY <1>1, TypesFit, JobFrame DEF Moves, Silent, JobInv, Protocol, Fits, JobKeeps, ActivationHeld, RollbackOnce, Acknowledged, GatewayInv, WriteOrder, Admitted, Serves, Sent, AtWork, IsCommitted, StageFits, Fresh, Unused, Reconcilable, JobFits, OpFits, Calls, Commits, NoOp, Free
<1>6. RollbackOnce'
  BY <1>1, TypesFit, JobFrame DEF Moves, Silent, JobInv, Protocol, Fits, JobKeeps, RollbackOnce, ActivationHeld, Acknowledged, Sent, AtWork, StageFits, Fresh, Unused, Reconcilable, JobFits, OpFits, CallsFit, Free
<1>7. Acknowledged'
  BY <1>1, TypesFit, JobFrame DEF Moves, Silent, JobInv, Protocol, Fits, JobKeeps, Acknowledged, RouterKept, Serves, IsCommitted, StageFits, Reconcilable, ActivationHeld, Fresh, Unused, JobFits
<1>8. ASSUME Quiet' PROVE InStep' /\ Activating' /\ Undoable'
  <2>1. Quiet
    BY <1>1, <1>8, TypesFit DEF JobKeeps, Moves, Silent, JobInv, Protocol, Fits, OpFits, CallsFit, Quiet, Awaited, StageFits, Acknowledged, Reconcilable, JobFits, Calls, Commits, NoOp, Free
  <2>2. InStep /\ Activating /\ Undoable
    BY <2>1 DEF JobInv, Protocol
  <2>3. InStep'
    BY <1>1, <2>2, TypesFit, JobFrame DEF JobKeeps, Moves, Silent, JobInv, Protocol, Fits, InStep, StageFits, Early, Free, Acknowledged, Numbered, Undoable, IsCommitted, Reconcilable, Serves, Served, RouterKept, JobFits, Stages, Fresh, Unused
  <2>4. Activating'
    BY <1>1, <2>2, TypesFit, JobFrame DEF JobKeeps, Moves, Silent, JobInv, Protocol, Fits, OpFits, Activating, InStep, Early, Fresh, Unused, AtWork, Between, NoOp
  <2>5. Undoable'
    BY <1>1, <2>2, TypesFit, JobFrame DEF JobKeeps, Moves, Silent, JobInv, Protocol, Fits, OpFits, Undoable, ActivationHeld, Activating, Acknowledged, AtWork, IsCommitted, NoOp
  <2> QED
    BY <2>3, <2>4, <2>5
<1> QED
  BY <1>2, <1>3, <1>4, <1>5, <1>6, <1>7, <1>8 DEF Protocol

LEMMA ActivatedStep ==
  ASSUME JobInv, Activated
  PROVE  Protocol'
<1>1. /\ JobKeeps /\ job.stage = "activate" /\ answer = "ok"
      /\ Moves(job.status, "verify") /\ Silent
  BY TypesFit DEF Activated, Stage, JobOthers, gateway, JobKeeps, Moves, Silent, JobInv, Fits, JobFits, TypeOK
<1>2. RouterKept' /\ Numbered'
  BY <1>1, RouterFrame, NumberedKept DEF JobInv, Protocol, Moves, Silent, JobKeeps
<1>3. StageFits'
  BY <1>1, TypesFit, JobFrame DEF Moves, Silent, JobInv, Protocol, Fits, JobKeeps, StageFits, Early, Free, Reconcilable, JobFits, Stages
<1>4. Fresh'
  BY <1>1, TypesFit, JobFrame DEF Moves, Silent, JobInv, Protocol, Fits, JobKeeps, Fresh, Unused, IsCommitted, Unprepared, Early, StageFits, Reconcilable, JobFits
<1>5. ActivationHeld'
  BY <1>1, TypesFit, JobFrame DEF Moves, Silent, JobInv, Protocol, Fits, JobKeeps, ActivationHeld, RollbackOnce, Acknowledged, GatewayInv, WriteOrder, Admitted, Serves, Sent, AtWork, IsCommitted, StageFits, Fresh, Unused, Reconcilable, JobFits, OpFits, Calls, Commits, NoOp, Free
<1>6. RollbackOnce'
  BY <1>1, TypesFit, JobFrame DEF Moves, Silent, JobInv, Protocol, Fits, JobKeeps, RollbackOnce, ActivationHeld, Acknowledged, Sent, AtWork, StageFits, Fresh, Unused, Reconcilable, JobFits, OpFits, CallsFit, Free
<1>7. Acknowledged'
  BY <1>1, TypesFit, JobFrame DEF Moves, Silent, JobInv, Protocol, Fits, JobKeeps, Acknowledged, RouterKept, Serves, IsCommitted, StageFits, Reconcilable, ActivationHeld, Fresh, Unused, JobFits
<1>8. ASSUME Quiet' PROVE InStep' /\ Activating' /\ Undoable'
  <2>1. Quiet
    BY <1>1, <1>8, TypesFit DEF JobKeeps, Moves, Silent, JobInv, Protocol, Fits, OpFits, CallsFit, Quiet, Awaited, StageFits, Acknowledged, Reconcilable, JobFits, Calls, Commits, NoOp, Free
  <2>2. InStep /\ Activating /\ Undoable
    BY <2>1 DEF JobInv, Protocol
  <2>3. InStep'
    BY <1>1, <2>2, TypesFit, JobFrame DEF JobKeeps, Moves, Silent, JobInv, Protocol, Fits, InStep, StageFits, Early, Free, Acknowledged, Numbered, Undoable, IsCommitted, Reconcilable, Serves, Served, RouterKept, JobFits, Stages
  <2>4. Activating'
    BY <1>1, <2>2, TypesFit, JobFrame DEF JobKeeps, Moves, Silent, JobInv, Protocol, Fits, OpFits, Activating, InStep, Early, Fresh, Unused, AtWork, Between, NoOp
  <2>5. Undoable'
    BY <1>1, <2>2, TypesFit, JobFrame DEF JobKeeps, Moves, Silent, JobInv, Protocol, Fits, OpFits, Undoable, ActivationHeld, Activating, Acknowledged, AtWork, IsCommitted, NoOp
  <2> QED
    BY <2>3, <2>4, <2>5
<1> QED
  BY <1>2, <1>3, <1>4, <1>5, <1>6, <1>7, <1>8 DEF Protocol

LEMMA VerifyStep ==
  ASSUME JobInv, Verify
  PROVE  Protocol'
<1>1. /\ JobKeeps /\ job.stage = "verify"
      /\ Moves(job.status, "commit") /\ Sends("commit")
  BY TypesFit DEF Verify, Send, Stage, JobOthers, gateway, JobKeeps, Moves, Sends, JobInv, Fits, JobFits, TypeOK
<1>2. RouterKept' /\ Numbered'
  BY <1>1, RouterFrame, NumberedKept DEF JobInv, Protocol, Moves, Sends, JobKeeps
<1>3. StageFits'
  BY <1>1, TypesFit, JobFrame DEF Moves, Sends, JobInv, Protocol, Fits, JobKeeps, StageFits, Early, Free, Reconcilable, JobFits, Stages
<1>4. Fresh'
  BY <1>1, TypesFit, JobFrame DEF Moves, Sends, JobInv, Protocol, Fits, JobKeeps, Fresh, Unused, IsCommitted, Unprepared, Early, StageFits, Reconcilable, JobFits
<1>5. ActivationHeld'
  BY <1>1, TypesFit, JobFrame DEF Moves, Sends, JobInv, Protocol, Fits, JobKeeps, ActivationHeld, RollbackOnce, Acknowledged, GatewayInv, WriteOrder, Admitted, Serves, Sent, AtWork, IsCommitted, StageFits, Fresh, Unused, Reconcilable, JobFits, OpFits, Calls, Commits, NoOp, Free
<1>6. RollbackOnce'
  BY <1>1, TypesFit, JobFrame DEF Moves, Sends, JobInv, Protocol, Fits, JobKeeps, RollbackOnce, ActivationHeld, Acknowledged, Sent, AtWork, StageFits, Fresh, Unused, Reconcilable, JobFits, OpFits, CallsFit, Free
<1>7. Acknowledged'
  BY <1>1, TypesFit, JobFrame DEF Moves, Sends, JobInv, Protocol, Fits, JobKeeps, Acknowledged, RouterKept, Serves, IsCommitted, StageFits, Reconcilable, ActivationHeld, Fresh, Unused, JobFits
<1>8. ASSUME Quiet' PROVE InStep' /\ Activating' /\ Undoable'
  <2>1. Quiet
    BY <1>1, <1>8, TypesFit DEF JobKeeps, Moves, Sends, JobInv, Protocol, Fits, OpFits, CallsFit, Quiet, Awaited, StageFits, Acknowledged, Reconcilable, JobFits, Calls, Commits, NoOp, Free
  <2>2. InStep /\ Activating /\ Undoable
    BY <2>1 DEF JobInv, Protocol
  <2>3. InStep'
    BY <1>1, <2>2, TypesFit, JobFrame DEF JobKeeps, Moves, Sends, JobInv, Protocol, Fits, InStep, StageFits, Early, Free, Acknowledged, Numbered, Undoable, IsCommitted, Reconcilable, Serves, Served, RouterKept, JobFits, Stages
  <2>4. Activating'
    BY <1>1, <2>2, TypesFit, JobFrame DEF JobKeeps, Moves, Sends, JobInv, Protocol, Fits, OpFits, Activating, InStep, Early, Fresh, Unused, AtWork, Between, NoOp
  <2>5. Undoable'
    BY <1>1, <2>2, TypesFit, JobFrame DEF JobKeeps, Moves, Sends, JobInv, Protocol, Fits, OpFits, Undoable, ActivationHeld, Activating, Acknowledged, AtWork, IsCommitted, NoOp
  <2> QED
    BY <2>3, <2>4, <2>5
<1> QED
  BY <1>2, <1>3, <1>4, <1>5, <1>6, <1>7, <1>8 DEF Protocol

LEMMA NotVerifiedStep ==
  ASSUME JobInv, NotVerified
  PROVE  Protocol'
<1>1. /\ JobKeeps /\ job.stage = "verify"
      /\ Moves(job.status, "rollback") /\ Sends("rollback")
  BY TypesFit DEF NotVerified, Send, Stage, JobOthers, gateway, JobKeeps, Moves, Sends, JobInv, Fits, JobFits, TypeOK
<1>2. RouterKept' /\ Numbered'
  BY <1>1, RouterFrame, NumberedKept DEF JobInv, Protocol, Moves, Sends, JobKeeps
<1>3. StageFits'
  BY <1>1, TypesFit, JobFrame DEF Moves, Sends, JobInv, Protocol, Fits, JobKeeps, StageFits, Early, Free, Reconcilable, JobFits, Stages
<1>4. Fresh'
  BY <1>1, TypesFit, JobFrame DEF Moves, Sends, JobInv, Protocol, Fits, JobKeeps, Fresh, Unused, IsCommitted, Unprepared, Early, StageFits, Reconcilable, JobFits
<1>5. ActivationHeld'
  BY <1>1, TypesFit, JobFrame DEF Moves, Sends, JobInv, Protocol, Fits, JobKeeps, ActivationHeld, RollbackOnce, Acknowledged, GatewayInv, WriteOrder, Admitted, Serves, Sent, AtWork, IsCommitted, StageFits, Fresh, Unused, Reconcilable, JobFits, OpFits, Calls, Commits, NoOp, Free
<1>6. RollbackOnce'
  BY <1>1, TypesFit, JobFrame DEF Moves, Sends, JobInv, Protocol, Fits, JobKeeps, RollbackOnce, ActivationHeld, Acknowledged, Sent, AtWork, StageFits, Fresh, Unused, Reconcilable, JobFits, OpFits, CallsFit, Free
<1>7. Acknowledged'
  BY <1>1, TypesFit, JobFrame DEF Moves, Sends, JobInv, Protocol, Fits, JobKeeps, Acknowledged, RouterKept, Serves, IsCommitted, StageFits, Reconcilable, ActivationHeld, Fresh, Unused, JobFits
<1>8. ASSUME Quiet' PROVE InStep' /\ Activating' /\ Undoable'
  <2>1. Quiet
    BY <1>1, <1>8, TypesFit DEF JobKeeps, Moves, Sends, JobInv, Protocol, Fits, OpFits, CallsFit, Quiet, Awaited, StageFits, Acknowledged, Reconcilable, JobFits, Calls, Commits, NoOp, Free
  <2>2. InStep /\ Activating /\ Undoable
    BY <2>1 DEF JobInv, Protocol
  <2>3. InStep'
    BY <1>1, <2>2, TypesFit, JobFrame DEF JobKeeps, Moves, Sends, JobInv, Protocol, Fits, InStep, StageFits, Early, Free, Acknowledged, Numbered, Undoable, IsCommitted, Reconcilable, Serves, Served, RouterKept, JobFits, Stages
  <2>4. Activating'
    BY <1>1, <2>2, TypesFit, JobFrame DEF JobKeeps, Moves, Sends, JobInv, Protocol, Fits, OpFits, Activating, InStep, Early, Fresh, Unused, AtWork, Between, NoOp
  <2>5. Undoable'
    BY <1>1, <2>2, TypesFit, JobFrame DEF JobKeeps, Moves, Sends, JobInv, Protocol, Fits, OpFits, Undoable, ActivationHeld, Activating, Acknowledged, AtWork, IsCommitted, NoOp
  <2> QED
    BY <2>3, <2>4, <2>5
<1> QED
  BY <1>2, <1>3, <1>4, <1>5, <1>6, <1>7, <1>8 DEF Protocol

LEMMA CommittedStep ==
  ASSUME JobInv, Committed
  PROVE  Protocol'
<1>1. /\ JobKeeps /\ job.stage = "commit" /\ answer = "ok"
      /\ Moves("succeeded", "resume") /\ Silent
  BY TypesFit DEF Committed, JobOthers, gateway, JobKeeps, Moves, Silent, JobInv, Fits, JobFits, TypeOK
<1>2. RouterKept' /\ Numbered'
  BY <1>1, RouterFrame, NumberedKept DEF JobInv, Protocol, Moves, Silent, JobKeeps
<1>3. StageFits'
  BY <1>1, TypesFit, JobFrame DEF Moves, Silent, JobInv, Protocol, Fits, JobKeeps, StageFits, Early, Free, Reconcilable, JobFits, Stages
<1>4. Fresh'
  BY <1>1, TypesFit, JobFrame DEF Moves, Silent, JobInv, Protocol, Fits, JobKeeps, Fresh, Unused, IsCommitted, Unprepared, Early, StageFits, Reconcilable, JobFits
<1>5. ActivationHeld'
  BY <1>1, TypesFit, JobFrame DEF Moves, Silent, JobInv, Protocol, Fits, JobKeeps, ActivationHeld, RollbackOnce, Acknowledged, GatewayInv, WriteOrder, Admitted, Serves, Sent, AtWork, IsCommitted, StageFits, Fresh, Unused, Reconcilable, JobFits, OpFits, Calls, Commits, NoOp, Free
<1>6. RollbackOnce'
  BY <1>1, TypesFit, JobFrame DEF Moves, Silent, JobInv, Protocol, Fits, JobKeeps, RollbackOnce, ActivationHeld, Acknowledged, Sent, AtWork, StageFits, Fresh, Unused, Reconcilable, JobFits, OpFits, CallsFit, Free
<1>7. Acknowledged'
  BY <1>1, TypesFit, JobFrame DEF Moves, Silent, JobInv, Protocol, Fits, JobKeeps, Acknowledged, RouterKept, Serves, IsCommitted, StageFits, Reconcilable, ActivationHeld, Fresh, Unused, JobFits
<1>8. ASSUME Quiet' PROVE InStep' /\ Activating' /\ Undoable'
  <2>1. Quiet
    BY <1>1, <1>8, TypesFit DEF JobKeeps, Moves, Silent, JobInv, Protocol, Fits, OpFits, CallsFit, Quiet, Awaited, StageFits, Acknowledged, Reconcilable, JobFits, Calls, Commits, NoOp, Free
  <2>2. InStep /\ Activating /\ Undoable
    BY <2>1 DEF JobInv, Protocol
  <2>3. InStep'
    BY <1>1, <2>2, TypesFit, JobFrame DEF JobKeeps, Moves, Silent, JobInv, Protocol, Fits, InStep, StageFits, Early, Free, Acknowledged, Numbered, Undoable, IsCommitted, Reconcilable, Serves, Served, RouterKept, JobFits, Stages
  <2>4. Activating'
    BY <1>1, <2>2, TypesFit, JobFrame DEF JobKeeps, Moves, Silent, JobInv, Protocol, Fits, OpFits, Activating, InStep, Early, Fresh, Unused, AtWork, Between, NoOp
  <2>5. Undoable'
    BY <1>1, <2>2, TypesFit, JobFrame DEF JobKeeps, Moves, Silent, JobInv, Protocol, Fits, OpFits, Undoable, ActivationHeld, Activating, Acknowledged, AtWork, IsCommitted, NoOp
  <2> QED
    BY <2>3, <2>4, <2>5
<1> QED
  BY <1>2, <1>3, <1>4, <1>5, <1>6, <1>7, <1>8 DEF Protocol

LEMMA CommitUnknownStep ==
  ASSUME JobInv, CommitUnknown
  PROVE  Protocol'
<1>1. /\ JobKeeps /\ job.stage = "commit"
      /\ Moves(job.status, "lookup") /\ Silent
  BY TypesFit DEF CommitUnknown, Stage, JobOthers, gateway, JobKeeps, Moves, Silent, JobInv, Fits, JobFits, TypeOK
<1>2. RouterKept' /\ Numbered'
  BY <1>1, RouterFrame, NumberedKept DEF JobInv, Protocol, Moves, Silent, JobKeeps
<1>3. StageFits'
  BY <1>1, TypesFit, JobFrame DEF Moves, Silent, JobInv, Protocol, Fits, JobKeeps, StageFits, Early, Free, Reconcilable, JobFits, Stages
<1>4. Fresh'
  BY <1>1, TypesFit, JobFrame DEF Moves, Silent, JobInv, Protocol, Fits, JobKeeps, Fresh, Unused, IsCommitted, Unprepared, Early, StageFits, Reconcilable, JobFits
<1>5. ActivationHeld'
  BY <1>1, TypesFit, JobFrame DEF Moves, Silent, JobInv, Protocol, Fits, JobKeeps, ActivationHeld, RollbackOnce, Acknowledged, GatewayInv, WriteOrder, Admitted, Serves, Sent, AtWork, IsCommitted, StageFits, Fresh, Unused, Reconcilable, JobFits, OpFits, Calls, Commits, NoOp, Free
<1>6. RollbackOnce'
  BY <1>1, TypesFit, JobFrame DEF Moves, Silent, JobInv, Protocol, Fits, JobKeeps, RollbackOnce, ActivationHeld, Acknowledged, Sent, AtWork, StageFits, Fresh, Unused, Reconcilable, JobFits, OpFits, CallsFit, Free
<1>7. Acknowledged'
  BY <1>1, TypesFit, JobFrame DEF Moves, Silent, JobInv, Protocol, Fits, JobKeeps, Acknowledged, RouterKept, Serves, IsCommitted, StageFits, Reconcilable, ActivationHeld, Fresh, Unused, JobFits
<1>8. ASSUME Quiet' PROVE InStep' /\ Activating' /\ Undoable'
  <2>1. Quiet
    BY <1>1, <1>8, TypesFit DEF JobKeeps, Moves, Silent, JobInv, Protocol, Fits, OpFits, CallsFit, Quiet, Awaited, StageFits, Acknowledged, Reconcilable, JobFits, Calls, Commits, NoOp, Free
  <2>2. InStep /\ Activating /\ Undoable
    BY <2>1 DEF JobInv, Protocol
  <2>3. InStep'
    BY <1>1, <2>2, TypesFit, JobFrame DEF JobKeeps, Moves, Silent, JobInv, Protocol, Fits, InStep, StageFits, Early, Free, Acknowledged, Numbered, Undoable, IsCommitted, Reconcilable, Serves, Served, RouterKept, JobFits, Stages
  <2>4. Activating'
    BY <1>1, <2>2, TypesFit, JobFrame DEF JobKeeps, Moves, Silent, JobInv, Protocol, Fits, OpFits, Activating, InStep, Early, Fresh, Unused, AtWork, Between, NoOp
  <2>5. Undoable'
    BY <1>1, <2>2, TypesFit, JobFrame DEF JobKeeps, Moves, Silent, JobInv, Protocol, Fits, OpFits, Undoable, ActivationHeld, Activating, Acknowledged, AtWork, IsCommitted, NoOp
  <2> QED
    BY <2>3, <2>4, <2>5
<1> QED
  BY <1>2, <1>3, <1>4, <1>5, <1>6, <1>7, <1>8 DEF Protocol

(* The look-up finds the commit,                                            *)
LEMMA LookUpFoundStep ==
  ASSUME JobInv, JobKeeps, job.stage = "lookup", IsCommitted(job.release), Moves("succeeded", "resume"), Silent
  PROVE  Protocol'
<1>1. RouterKept' /\ Numbered'
  BY RouterFrame, NumberedKept DEF JobInv, Protocol, Moves, Silent, JobKeeps
<1>2. StageFits'
  BY TypesFit, JobFrame DEF Moves, Silent, JobInv, Protocol, Fits, JobKeeps, StageFits, Early, Free, Reconcilable, JobFits, Stages
<1>3. Fresh'
  BY TypesFit, JobFrame DEF Moves, Silent, JobInv, Protocol, Fits, JobKeeps, Fresh, Unused, IsCommitted, Unprepared, Early, StageFits, Reconcilable, JobFits
<1>4. ActivationHeld'
  BY TypesFit, JobFrame DEF Moves, Silent, JobInv, Protocol, Fits, JobKeeps, ActivationHeld, RollbackOnce, Acknowledged, GatewayInv, WriteOrder, Admitted, Serves, Sent, AtWork, IsCommitted, StageFits, Fresh, Unused, Reconcilable, JobFits, OpFits, Calls, Commits, NoOp, Free
<1>5. RollbackOnce'
  BY TypesFit, JobFrame DEF Moves, Silent, JobInv, Protocol, Fits, JobKeeps, RollbackOnce, ActivationHeld, Acknowledged, Sent, AtWork, StageFits, Fresh, Unused, Reconcilable, JobFits, OpFits, CallsFit, Free
<1>6. Acknowledged'
  BY TypesFit, JobFrame DEF Moves, Silent, JobInv, Protocol, Fits, JobKeeps, Acknowledged, RouterKept, Serves, IsCommitted, StageFits, Reconcilable, ActivationHeld, Fresh, Unused, JobFits
<1>7. ASSUME Quiet' PROVE InStep' /\ Activating' /\ Undoable'
  <2>1. Quiet
    BY <1>7, TypesFit DEF JobKeeps, Moves, Silent, JobInv, Protocol, Fits, OpFits, CallsFit, Quiet, Awaited, StageFits, Acknowledged, Reconcilable, JobFits, Calls, Commits, NoOp, Free
  <2>2. InStep /\ Activating /\ Undoable
    BY <2>1 DEF JobInv, Protocol
  <2>3. InStep'
    BY <2>2, TypesFit, JobFrame DEF JobKeeps, Moves, Silent, JobInv, Protocol, Fits, InStep, StageFits, Early, Free, Acknowledged, Numbered, Undoable, IsCommitted, Reconcilable, Serves, Served, RouterKept, JobFits, Stages
  <2>4. Activating'
    BY <2>2, TypesFit, JobFrame DEF JobKeeps, Moves, Silent, JobInv, Protocol, Fits, OpFits, Activating, InStep, Early, Fresh, Unused, AtWork, Between, NoOp
  <2>5. Undoable'
    BY <2>2, TypesFit, JobFrame DEF JobKeeps, Moves, Silent, JobInv, Protocol, Fits, OpFits, Undoable, ActivationHeld, Activating, Acknowledged, AtWork, IsCommitted, NoOp
  <2> QED
    BY <2>3, <2>4, <2>5
<1> QED
  BY <1>1, <1>2, <1>3, <1>4, <1>5, <1>6, <1>7 DEF Protocol

(* or does not find it.                                                     *)
LEMMA LookUpMissingStep ==
  ASSUME JobInv, JobKeeps, job.stage = "lookup", ~IsCommitted(job.release), Moves(job.status, "rollback"), Sends("rollback")
  PROVE  Protocol'
<1>1. RouterKept' /\ Numbered'
  BY RouterFrame, NumberedKept DEF JobInv, Protocol, Moves, Sends, JobKeeps
<1>2. StageFits'
  BY TypesFit, JobFrame DEF Moves, Sends, JobInv, Protocol, Fits, JobKeeps, StageFits, Early, Free, Reconcilable, JobFits, Stages
<1>3. Fresh'
  BY TypesFit, JobFrame DEF Moves, Sends, JobInv, Protocol, Fits, JobKeeps, Fresh, Unused, IsCommitted, Unprepared, Early, StageFits, Reconcilable, JobFits
<1>4. ActivationHeld'
  BY TypesFit, JobFrame DEF Moves, Sends, JobInv, Protocol, Fits, JobKeeps, ActivationHeld, RollbackOnce, Acknowledged, GatewayInv, WriteOrder, Admitted, Serves, Sent, AtWork, IsCommitted, StageFits, Fresh, Unused, Reconcilable, JobFits, OpFits, Calls, Commits, NoOp, Free
<1>5. RollbackOnce'
  BY TypesFit, JobFrame DEF Moves, Sends, JobInv, Protocol, Fits, JobKeeps, RollbackOnce, ActivationHeld, Acknowledged, Sent, AtWork, StageFits, Fresh, Unused, Reconcilable, JobFits, OpFits, CallsFit, Free
<1>6. Acknowledged'
  BY TypesFit, JobFrame DEF Moves, Sends, JobInv, Protocol, Fits, JobKeeps, Acknowledged, RouterKept, Serves, IsCommitted, StageFits, Reconcilable, ActivationHeld, Fresh, Unused, JobFits
<1>7. ASSUME Quiet' PROVE InStep' /\ Activating' /\ Undoable'
  <2>1. Quiet
    BY <1>7, TypesFit DEF JobKeeps, Moves, Sends, JobInv, Protocol, Fits, OpFits, CallsFit, Quiet, Awaited, StageFits, Acknowledged, Reconcilable, JobFits, Calls, Commits, NoOp, Free
  <2>2. InStep /\ Activating /\ Undoable
    BY <2>1 DEF JobInv, Protocol
  <2>3. InStep'
    BY <2>2, TypesFit, JobFrame DEF JobKeeps, Moves, Sends, JobInv, Protocol, Fits, InStep, StageFits, Early, Free, Acknowledged, Numbered, Undoable, IsCommitted, Reconcilable, Serves, Served, RouterKept, JobFits, Stages
  <2>4. Activating'
    BY <2>2, TypesFit, JobFrame DEF JobKeeps, Moves, Sends, JobInv, Protocol, Fits, OpFits, Activating, InStep, Early, Fresh, Unused, AtWork, Between, NoOp
  <2>5. Undoable'
    BY <2>2, TypesFit, JobFrame DEF JobKeeps, Moves, Sends, JobInv, Protocol, Fits, OpFits, Undoable, ActivationHeld, Activating, Acknowledged, AtWork, IsCommitted, NoOp
  <2> QED
    BY <2>3, <2>4, <2>5
<1> QED
  BY <1>1, <1>2, <1>3, <1>4, <1>5, <1>6, <1>7 DEF Protocol

LEMMA RolledBackStep ==
  ASSUME JobInv, RolledBack
  PROVE  Protocol'
<1>1. /\ JobKeeps /\ job.stage = "rollback" /\ answer = "ok"
      /\ Moves("failed", "resume") /\ Silent
  BY TypesFit DEF RolledBack, JobOthers, gateway, JobKeeps, Moves, Silent, JobInv, Fits, JobFits, TypeOK
<1>2. RouterKept' /\ Numbered'
  BY <1>1, RouterFrame, NumberedKept DEF JobInv, Protocol, Moves, Silent, JobKeeps
<1>3. StageFits'
  BY <1>1, TypesFit, JobFrame DEF Moves, Silent, JobInv, Protocol, Fits, JobKeeps, StageFits, Early, Free, Reconcilable, JobFits, Stages
<1>4. Fresh'
  BY <1>1, TypesFit, JobFrame DEF Moves, Silent, JobInv, Protocol, Fits, JobKeeps, Fresh, Unused, IsCommitted, Unprepared, Early, StageFits, Reconcilable, JobFits
<1>5. ActivationHeld'
  BY <1>1, TypesFit, JobFrame DEF Moves, Silent, JobInv, Protocol, Fits, JobKeeps, ActivationHeld, RollbackOnce, Acknowledged, GatewayInv, WriteOrder, Admitted, Serves, Sent, AtWork, IsCommitted, StageFits, Fresh, Unused, Reconcilable, JobFits, OpFits, Calls, Commits, NoOp, Free
<1>6. RollbackOnce'
  BY <1>1, TypesFit, JobFrame DEF Moves, Silent, JobInv, Protocol, Fits, JobKeeps, RollbackOnce, ActivationHeld, Acknowledged, Sent, AtWork, StageFits, Fresh, Unused, Reconcilable, JobFits, OpFits, CallsFit, Free
<1>7. Acknowledged'
  BY <1>1, TypesFit, JobFrame DEF Moves, Silent, JobInv, Protocol, Fits, JobKeeps, Acknowledged, RouterKept, Serves, IsCommitted, StageFits, Reconcilable, ActivationHeld, Fresh, Unused, JobFits
<1>8. ASSUME Quiet' PROVE InStep' /\ Activating' /\ Undoable'
  <2>1. Quiet
    BY <1>1, <1>8, TypesFit DEF JobKeeps, Moves, Silent, JobInv, Protocol, Fits, OpFits, CallsFit, Quiet, Awaited, StageFits, Acknowledged, Reconcilable, JobFits, Calls, Commits, NoOp, Free
  <2>2. InStep /\ Activating /\ Undoable
    BY <2>1 DEF JobInv, Protocol
  <2>3. InStep'
    BY <1>1, <2>2, TypesFit, JobFrame DEF JobKeeps, Moves, Silent, JobInv, Protocol, Fits, InStep, StageFits, Early, Free, Acknowledged, Numbered, Undoable, IsCommitted, Reconcilable, Serves, Served, RouterKept, JobFits, Stages
  <2>4. Activating'
    BY <1>1, <2>2, TypesFit, JobFrame DEF JobKeeps, Moves, Silent, JobInv, Protocol, Fits, OpFits, Activating, InStep, Early, Fresh, Unused, AtWork, Between, NoOp
  <2>5. Undoable'
    BY <1>1, <2>2, TypesFit, JobFrame DEF JobKeeps, Moves, Silent, JobInv, Protocol, Fits, OpFits, Undoable, ActivationHeld, Activating, Acknowledged, AtWork, IsCommitted, NoOp
  <2> QED
    BY <2>3, <2>4, <2>5
<1> QED
  BY <1>2, <1>3, <1>4, <1>5, <1>6, <1>7, <1>8 DEF Protocol

(* Whatever job gives up at whatever stage, it may be held for recovery.    *)
LEMMA HeldStep ==
  ASSUME JobInv, JobKeeps, job.stage # "reconciled", Moves("needs_recovery", "ended"), Silent
  PROVE  Protocol'
<1>1. RouterKept' /\ Numbered'
  BY RouterFrame, NumberedKept DEF JobInv, Protocol, Moves, Silent, JobKeeps
<1>2. StageFits'
  BY TypesFit, JobFrame DEF Moves, Silent, JobInv, Protocol, Fits, JobKeeps, StageFits, Early, Free, Reconcilable, JobFits, Stages
<1>3. Fresh'
  BY TypesFit, JobFrame DEF Moves, Silent, JobInv, Protocol, Fits, JobKeeps, Fresh, Unused, IsCommitted, Unprepared, Early, StageFits, Reconcilable, JobFits
<1>4. ActivationHeld'
  BY TypesFit, JobFrame DEF Moves, Silent, JobInv, Protocol, Fits, JobKeeps, ActivationHeld, RollbackOnce, Acknowledged, GatewayInv, WriteOrder, Admitted, Serves, Sent, AtWork, IsCommitted, StageFits, Fresh, Unused, Reconcilable, JobFits, OpFits, Calls, Commits, NoOp, Free
<1>5. RollbackOnce'
  BY TypesFit, JobFrame DEF Moves, Silent, JobInv, Protocol, Fits, JobKeeps, RollbackOnce, ActivationHeld, Acknowledged, Sent, AtWork, StageFits, Fresh, Unused, Reconcilable, JobFits, OpFits, CallsFit, Free
<1>6. Acknowledged'
  BY TypesFit, JobFrame DEF Moves, Silent, JobInv, Protocol, Fits, JobKeeps, Acknowledged, RouterKept, Serves, IsCommitted, StageFits, Reconcilable, ActivationHeld, Fresh, Unused, JobFits
<1>7. ASSUME Quiet' PROVE InStep' /\ Activating' /\ Undoable'
  <2>1. Quiet
    BY <1>7, TypesFit DEF JobKeeps, Moves, Silent, JobInv, Protocol, Fits, OpFits, CallsFit, Quiet, Awaited, StageFits, Acknowledged, Reconcilable, JobFits, Calls, Commits, NoOp, Free
  <2>2. InStep /\ Activating /\ Undoable
    BY <2>1 DEF JobInv, Protocol
  <2>3. InStep'
    BY <2>2, TypesFit, JobFrame DEF JobKeeps, Moves, Silent, JobInv, Protocol, Fits, InStep, StageFits, Early, Free, Acknowledged, Numbered, Undoable, IsCommitted, Reconcilable, Serves, Served, RouterKept, JobFits, Stages
  <2>4. Activating'
    BY <2>2, TypesFit, JobFrame DEF JobKeeps, Moves, Silent, JobInv, Protocol, Fits, OpFits, Activating, InStep, Early, Fresh, Unused, AtWork, Between, NoOp
  <2>5. Undoable'
    BY <2>2, TypesFit, JobFrame DEF JobKeeps, Moves, Silent, JobInv, Protocol, Fits, OpFits, Undoable, ActivationHeld, Activating, Acknowledged, AtWork, IsCommitted, NoOp
  <2> QED
    BY <2>3, <2>4, <2>5
<1> QED
  BY <1>1, <1>2, <1>3, <1>4, <1>5, <1>6, <1>7 DEF Protocol

(* It ends as what it already was.                                          *)
LEMMA EndedStep ==
  ASSUME JobInv, JobKeeps, job.stage \in {"resume", "reconcile", "reconciled"}, Moves(job.status, "ended"), Silent
  PROVE  Protocol'
<1>1. RouterKept' /\ Numbered'
  BY RouterFrame, NumberedKept DEF JobInv, Protocol, Moves, Silent, JobKeeps
<1>2. StageFits'
  BY TypesFit, JobFrame DEF Moves, Silent, JobInv, Protocol, Fits, JobKeeps, StageFits, Early, Free, Reconcilable, JobFits, Stages
<1>3. Fresh'
  BY TypesFit, JobFrame DEF Moves, Silent, JobInv, Protocol, Fits, JobKeeps, Fresh, Unused, IsCommitted, Unprepared, Early, StageFits, Reconcilable, JobFits
<1>4. ActivationHeld'
  BY TypesFit, JobFrame DEF Moves, Silent, JobInv, Protocol, Fits, JobKeeps, ActivationHeld, RollbackOnce, Acknowledged, GatewayInv, WriteOrder, Admitted, Serves, Sent, AtWork, IsCommitted, StageFits, Fresh, Unused, Reconcilable, JobFits, OpFits, Calls, Commits, NoOp, Free
<1>5. RollbackOnce'
  BY TypesFit, JobFrame DEF Moves, Silent, JobInv, Protocol, Fits, JobKeeps, RollbackOnce, ActivationHeld, Acknowledged, Sent, AtWork, StageFits, Fresh, Unused, Reconcilable, JobFits, OpFits, CallsFit, Free
<1>6. Acknowledged'
  BY TypesFit, JobFrame DEF Moves, Silent, JobInv, Protocol, Fits, JobKeeps, Acknowledged, RouterKept, Serves, IsCommitted, StageFits, Reconcilable, ActivationHeld, Fresh, Unused, JobFits
<1>7. ASSUME Quiet' PROVE InStep' /\ Activating' /\ Undoable'
  <2>1. Quiet
    BY <1>7, TypesFit DEF JobKeeps, Moves, Silent, JobInv, Protocol, Fits, OpFits, CallsFit, Quiet, Awaited, StageFits, Acknowledged, Reconcilable, JobFits, Calls, Commits, NoOp, Free
  <2>2. InStep /\ Activating /\ Undoable
    BY <2>1 DEF JobInv, Protocol
  <2>3. InStep'
    BY <2>2, TypesFit, JobFrame DEF JobKeeps, Moves, Silent, JobInv, Protocol, Fits, InStep, StageFits, Early, Free, Acknowledged, Numbered, Undoable, IsCommitted, Reconcilable, Serves, Served, RouterKept, JobFits, Stages
  <2>4. Activating'
    BY <2>2, TypesFit, JobFrame DEF JobKeeps, Moves, Silent, JobInv, Protocol, Fits, OpFits, Activating, InStep, Early, Fresh, Unused, AtWork, Between, NoOp
  <2>5. Undoable'
    BY <2>2, TypesFit, JobFrame DEF JobKeeps, Moves, Silent, JobInv, Protocol, Fits, OpFits, Undoable, ActivationHeld, Activating, Acknowledged, AtWork, IsCommitted, NoOp
  <2> QED
    BY <2>3, <2>4, <2>5
<1> QED
  BY <1>1, <1>2, <1>3, <1>4, <1>5, <1>6, <1>7 DEF Protocol

(* A held job's release is committed only while the gateway serves it.      *)
LEMMA ReconcileStep ==
  ASSUME JobInv, Reconcile
  PROVE  Protocol'
<1>1. /\ JobKeeps /\ Reconcilable /\ ~IsCommitted(job.release) /\ Serves(job.release)
      /\ Moves(job.status, "reconcile") /\ Sends("commit")
  BY TypesFit DEF Reconcile, Reconcilable, Send, Stage, IsCommitted, JobOthers, gateway, JobKeeps, Moves, Sends, JobInv, Fits, JobFits, TypeOK
<1>2. RouterKept' /\ Numbered'
  BY <1>1, RouterFrame, NumberedKept DEF JobInv, Protocol, Moves, Sends, JobKeeps
<1>3. StageFits'
  BY <1>1, TypesFit, JobFrame DEF Moves, Sends, JobInv, Protocol, Fits, JobKeeps, StageFits, Early, Free, Reconcilable, JobFits, Stages
<1>4. Fresh'
  BY <1>1, TypesFit, JobFrame DEF Moves, Sends, JobInv, Protocol, Fits, JobKeeps, Fresh, Unused, IsCommitted, Unprepared, Early, StageFits, Reconcilable, JobFits
<1>5. ActivationHeld'
  <2>1. ASSUME NEW r \in Releases, Sent("activate", r) \/ (AtWork("activate", r) /\ op.stage # "storing")
        PROVE  FALSE
    <3>1. job.release = r /\ memory.up /\ memory.active = r
      BY <1>1, <2>1 DEF JobInv, Protocol, ActivationHeld, Serves
    <3>2. ~Sent("activate", r)
      BY <3>1 DEF JobInv, Protocol, ActivationHeld
    <3>3. op.stage \in {"building", "written"} /\ op.call = [action |-> "activate", release |-> r]
      BY <2>1, <3>2, TypesFit DEF JobInv, Fits, OpFits, AtWork
    <3> QED
      BY <3>1, <3>3 DEF JobInv, GatewayInv, WriteOrder, Admitted
  <2>2. \A r \in Releases : ~Sent("activate", r)' /\ ~(AtWork("activate", r) /\ op.stage # "storing")'
    BY <1>1, <2>1 DEF Sends, Sent, AtWork, JobKeeps
  <2> QED
    BY <1>1, <2>2 DEF ActivationHeld, Moves
<1>6. RollbackOnce'
  BY <1>1, TypesFit, JobFrame DEF Moves, Sends, JobInv, Protocol, Fits, JobKeeps, RollbackOnce, ActivationHeld, Acknowledged, Sent, AtWork, StageFits, Fresh, Unused, Reconcilable, JobFits, OpFits, CallsFit, Free
<1>7. Acknowledged'
  BY <1>1, TypesFit, JobFrame DEF Moves, Sends, JobInv, Protocol, Fits, JobKeeps, Acknowledged, RouterKept, Serves, IsCommitted, StageFits, Reconcilable, ActivationHeld, Fresh, Unused, JobFits
<1>8. ASSUME Quiet' PROVE InStep' /\ Activating' /\ Undoable'
  <2>1. Quiet
    BY <1>1, <1>8, TypesFit DEF JobKeeps, Moves, Sends, JobInv, Protocol, Fits, OpFits, CallsFit, Quiet, Awaited, StageFits, Acknowledged, Reconcilable, JobFits, Calls, Commits, NoOp, Free
  <2>2. InStep /\ Activating /\ Undoable
    BY <2>1 DEF JobInv, Protocol
  <2>3. InStep'
    BY <1>1, <2>2, TypesFit, JobFrame DEF JobKeeps, Moves, Sends, JobInv, Protocol, Fits, InStep, StageFits, Early, Free, Acknowledged, Numbered, Undoable, IsCommitted, Reconcilable, Serves, Served, RouterKept, JobFits, Stages
  <2>4. Activating'
    BY <1>1, <2>2, TypesFit, JobFrame DEF JobKeeps, Moves, Sends, JobInv, Protocol, Fits, OpFits, Activating, InStep, Early, Fresh, Unused, AtWork, Between, NoOp
  <2>5. Undoable'
    BY <1>1, <2>2, TypesFit, JobFrame DEF JobKeeps, Moves, Sends, JobInv, Protocol, Fits, OpFits, Undoable, ActivationHeld, Activating, Acknowledged, AtWork, IsCommitted, NoOp
  <2> QED
    BY <2>3, <2>4, <2>5
<1> QED
  BY <1>2, <1>3, <1>4, <1>5, <1>6, <1>7, <1>8 DEF Protocol

LEMMA ReconcileCommittedStep ==
  ASSUME JobInv, ReconcileCommitted
  PROVE  Protocol'
<1>1. /\ JobKeeps /\ Reconcilable /\ IsCommitted(job.release)
      /\ Moves(job.status, "reconciled") /\ Silent
  BY TypesFit DEF ReconcileCommitted, Reconcilable, Stage, IsCommitted, JobOthers, gateway, JobKeeps, Moves, Silent, JobInv, Fits, JobFits, TypeOK
<1>2. RouterKept' /\ Numbered'
  BY <1>1, RouterFrame, NumberedKept DEF JobInv, Protocol, Moves, Silent, JobKeeps
<1>3. StageFits'
  BY <1>1, TypesFit, JobFrame DEF Moves, Silent, JobInv, Protocol, Fits, JobKeeps, StageFits, Early, Free, Reconcilable, JobFits, Stages
<1>4. Fresh'
  BY <1>1, TypesFit, JobFrame DEF Moves, Silent, JobInv, Protocol, Fits, JobKeeps, Fresh, Unused, IsCommitted, Unprepared, Early, StageFits, Reconcilable, JobFits
<1>5. ActivationHeld'
  BY <1>1, TypesFit, JobFrame DEF Moves, Silent, JobInv, Protocol, Fits, JobKeeps, ActivationHeld, RollbackOnce, Acknowledged, GatewayInv, WriteOrder, Admitted, Serves, Sent, AtWork, IsCommitted, StageFits, Fresh, Unused, Reconcilable, JobFits, OpFits, Calls, Commits, NoOp, Free
<1>6. RollbackOnce'
  BY <1>1, TypesFit, JobFrame DEF Moves, Silent, JobInv, Protocol, Fits, JobKeeps, RollbackOnce, ActivationHeld, Acknowledged, Sent, AtWork, StageFits, Fresh, Unused, Reconcilable, JobFits, OpFits, CallsFit, Free
<1>7. Acknowledged'
  BY <1>1, TypesFit, JobFrame DEF Moves, Silent, JobInv, Protocol, Fits, JobKeeps, Acknowledged, RouterKept, Serves, IsCommitted, StageFits, Reconcilable, ActivationHeld, Fresh, Unused, JobFits
<1>8. ASSUME Quiet' PROVE InStep' /\ Activating' /\ Undoable'
  <2>1. Quiet
    BY <1>1, <1>8, TypesFit DEF JobKeeps, Moves, Silent, JobInv, Protocol, Fits, OpFits, CallsFit, Quiet, Awaited, StageFits, Acknowledged, Reconcilable, JobFits, Calls, Commits, NoOp, Free
  <2>2. InStep /\ Activating /\ Undoable
    BY <2>1 DEF JobInv, Protocol
  <2>3. InStep'
    BY <1>1, <2>2, TypesFit, JobFrame DEF JobKeeps, Moves, Silent, JobInv, Protocol, Fits, InStep, StageFits, Early, Free, Acknowledged, Numbered, Undoable, IsCommitted, Reconcilable, Serves, Served, RouterKept, JobFits, Stages
  <2>4. Activating'
    BY <1>1, <2>2, TypesFit, JobFrame DEF JobKeeps, Moves, Silent, JobInv, Protocol, Fits, OpFits, Activating, InStep, Early, Fresh, Unused, AtWork, Between, NoOp
  <2>5. Undoable'
    BY <1>1, <2>2, TypesFit, JobFrame DEF JobKeeps, Moves, Silent, JobInv, Protocol, Fits, OpFits, Undoable, ActivationHeld, Activating, Acknowledged, AtWork, IsCommitted, NoOp
  <2> QED
    BY <2>3, <2>4, <2>5
<1> QED
  BY <1>2, <1>3, <1>4, <1>5, <1>6, <1>7, <1>8 DEF Protocol

LEMMA RecommittedStep ==
  ASSUME JobInv, Recommitted
  PROVE  Protocol'
<1>1. /\ JobKeeps /\ job.stage = "reconcile" /\ answer = "ok"
      /\ Moves(job.status, "reconciled") /\ Silent
  BY TypesFit DEF Recommitted, Stage, JobOthers, gateway, JobKeeps, Moves, Silent, JobInv, Fits, JobFits, TypeOK
<1>2. RouterKept' /\ Numbered'
  BY <1>1, RouterFrame, NumberedKept DEF JobInv, Protocol, Moves, Silent, JobKeeps
<1>3. StageFits'
  BY <1>1, TypesFit, JobFrame DEF Moves, Silent, JobInv, Protocol, Fits, JobKeeps, StageFits, Early, Free, Reconcilable, JobFits, Stages
<1>4. Fresh'
  BY <1>1, TypesFit, JobFrame DEF Moves, Silent, JobInv, Protocol, Fits, JobKeeps, Fresh, Unused, IsCommitted, Unprepared, Early, StageFits, Reconcilable, JobFits
<1>5. ActivationHeld'
  BY <1>1, TypesFit, JobFrame DEF Moves, Silent, JobInv, Protocol, Fits, JobKeeps, ActivationHeld, RollbackOnce, Acknowledged, GatewayInv, WriteOrder, Admitted, Serves, Sent, AtWork, IsCommitted, StageFits, Fresh, Unused, Reconcilable, JobFits, OpFits, Calls, Commits, NoOp, Free
<1>6. RollbackOnce'
  BY <1>1, TypesFit, JobFrame DEF Moves, Silent, JobInv, Protocol, Fits, JobKeeps, RollbackOnce, ActivationHeld, Acknowledged, Sent, AtWork, StageFits, Fresh, Unused, Reconcilable, JobFits, OpFits, CallsFit, Free
<1>7. Acknowledged'
  BY <1>1, TypesFit, JobFrame DEF Moves, Silent, JobInv, Protocol, Fits, JobKeeps, Acknowledged, RouterKept, Serves, IsCommitted, StageFits, Reconcilable, ActivationHeld, Fresh, Unused, JobFits
<1>8. ASSUME Quiet' PROVE InStep' /\ Activating' /\ Undoable'
  <2>1. Quiet
    BY <1>1, <1>8, TypesFit DEF JobKeeps, Moves, Silent, JobInv, Protocol, Fits, OpFits, CallsFit, Quiet, Awaited, StageFits, Acknowledged, Reconcilable, JobFits, Calls, Commits, NoOp, Free
  <2>2. InStep /\ Activating /\ Undoable
    BY <2>1 DEF JobInv, Protocol
  <2>3. InStep'
    BY <1>1, <2>2, TypesFit, JobFrame DEF JobKeeps, Moves, Silent, JobInv, Protocol, Fits, InStep, StageFits, Early, Free, Acknowledged, Numbered, Undoable, IsCommitted, Reconcilable, Serves, Served, RouterKept, JobFits, Stages
  <2>4. Activating'
    BY <1>1, <2>2, TypesFit, JobFrame DEF JobKeeps, Moves, Silent, JobInv, Protocol, Fits, OpFits, Activating, InStep, Early, Fresh, Unused, AtWork, Between, NoOp
  <2>5. Undoable'
    BY <1>1, <2>2, TypesFit, JobFrame DEF JobKeeps, Moves, Silent, JobInv, Protocol, Fits, OpFits, Undoable, ActivationHeld, Activating, Acknowledged, AtWork, IsCommitted, NoOp
  <2> QED
    BY <2>3, <2>4, <2>5
<1> QED
  BY <1>2, <1>3, <1>4, <1>5, <1>6, <1>7, <1>8 DEF Protocol

LEMMA ReconciledStep ==
  ASSUME JobInv, Reconciled
  PROVE  Protocol'
<1>1. /\ JobKeeps /\ job.stage = "reconciled"
      /\ Moves("succeeded", "ended") /\ Silent
  BY TypesFit DEF Reconciled, End, JobOthers, gateway, JobKeeps, Moves, Silent, JobInv, Fits, JobFits, TypeOK
<1>2. RouterKept' /\ Numbered'
  BY <1>1, RouterFrame, NumberedKept DEF JobInv, Protocol, Moves, Silent, JobKeeps
<1>3. StageFits'
  BY <1>1, TypesFit, JobFrame DEF Moves, Silent, JobInv, Protocol, Fits, JobKeeps, StageFits, Early, Free, Reconcilable, JobFits, Stages
<1>4. Fresh'
  BY <1>1, TypesFit, JobFrame DEF Moves, Silent, JobInv, Protocol, Fits, JobKeeps, Fresh, Unused, IsCommitted, Unprepared, Early, StageFits, Reconcilable, JobFits
<1>5. ActivationHeld'
  BY <1>1, TypesFit, JobFrame DEF Moves, Silent, JobInv, Protocol, Fits, JobKeeps, ActivationHeld, RollbackOnce, Acknowledged, GatewayInv, WriteOrder, Admitted, Serves, Sent, AtWork, IsCommitted, StageFits, Fresh, Unused, Reconcilable, JobFits, OpFits, Calls, Commits, NoOp, Free
<1>6. RollbackOnce'
  BY <1>1, TypesFit, JobFrame DEF Moves, Silent, JobInv, Protocol, Fits, JobKeeps, RollbackOnce, ActivationHeld, Acknowledged, Sent, AtWork, StageFits, Fresh, Unused, Reconcilable, JobFits, OpFits, CallsFit, Free
<1>7. Acknowledged'
  BY <1>1, TypesFit, JobFrame DEF Moves, Silent, JobInv, Protocol, Fits, JobKeeps, Acknowledged, RouterKept, Serves, IsCommitted, StageFits, Reconcilable, ActivationHeld, Fresh, Unused, JobFits
<1>8. ASSUME Quiet' PROVE InStep' /\ Activating' /\ Undoable'
  <2>1. Quiet
    BY <1>1, <1>8, TypesFit DEF JobKeeps, Moves, Silent, JobInv, Protocol, Fits, OpFits, CallsFit, Quiet, Awaited, StageFits, Acknowledged, Reconcilable, JobFits, Calls, Commits, NoOp, Free
  <2>2. InStep /\ Activating /\ Undoable
    BY <2>1 DEF JobInv, Protocol
  <2>3. InStep'
    BY <1>1, <2>2, TypesFit, JobFrame DEF JobKeeps, Moves, Silent, JobInv, Protocol, Fits, InStep, StageFits, Early, Free, Acknowledged, Numbered, Undoable, IsCommitted, Reconcilable, Serves, Served, RouterKept, JobFits, Stages
  <2>4. Activating'
    BY <1>1, <2>2, TypesFit, JobFrame DEF JobKeeps, Moves, Silent, JobInv, Protocol, Fits, OpFits, Activating, InStep, Early, Fresh, Unused, AtWork, Between, NoOp
  <2>5. Undoable'
    BY <1>1, <2>2, TypesFit, JobFrame DEF JobKeeps, Moves, Silent, JobInv, Protocol, Fits, OpFits, Undoable, ActivationHeld, Activating, Acknowledged, AtWork, IsCommitted, NoOp
  <2> QED
    BY <2>3, <2>4, <2>5
<1> QED
  BY <1>2, <1>3, <1>4, <1>5, <1>6, <1>7, <1>8 DEF Protocol

LEMMA SubmitStep ==
  ASSUME JobInv, Submit
  PROVE  Protocol'
<1>1. /\ JobKeeps /\ Free /\ job.stage = "ended" /\ Silent
      /\ job'.status = "running" /\ job'.stage = "prepare" /\ job'.release = None
  BY DEF Submit, JobOthers, gateway, JobKeeps, Silent
<1>2. RouterKept' /\ Numbered'
  BY <1>1, RouterFrame DEF JobInv, Protocol, Numbered, IsCommitted, ActiveRelease, Silent, JobKeeps
<1>3. StageFits'
  BY <1>1 DEF StageFits, Early
<1>4. Fresh'
  BY <1>1, NoneAssumption DEF JobInv, Protocol, Fresh, Unused, IsCommitted, JobKeeps, Silent
<1>5. ActivationHeld'
  BY <1>1 DEF JobInv, Protocol, ActivationHeld, Sent, AtWork, IsCommitted, JobKeeps, Silent, Free
<1>6. RollbackOnce'
  BY <1>1, NoneAssumption DEF JobInv, Protocol, RollbackOnce, Sent, AtWork, JobKeeps, Silent
<1>7. Acknowledged'
  BY <1>1 DEF Acknowledged
<1>8. ASSUME Quiet' PROVE InStep' /\ Activating' /\ Undoable'
  <2>1. Quiet
    BY <1>1, <1>8, TypesFit, NoneAssumption DEF JobInv, Fits, OpFits, Calls, Quiet, Awaited, JobKeeps, NoOp
  <2>2. InStep
    BY <2>1 DEF JobInv, Protocol
  <2>3. InStep'
    BY <1>1, <2>2, JobFrame DEF InStep, Early, Free, IsCommitted
  <2> QED
    BY <1>1, <2>3 DEF Activating, Undoable
<1> QED
  BY <1>2, <1>3, <1>4, <1>5, <1>6, <1>7, <1>8 DEF Protocol

LEMMA PrepareStep ==
  ASSUME JobInv, Prepare
  PROVE  Protocol'
<1>1. PICK x \in Releases :
        /\ job.stage = "prepare" /\ releases[x] = Unprepared
        /\ releases' = [releases EXCEPT ![x] = Prepared(x)]
        /\ job'.stage = "validate" /\ job'.status = job.status /\ job'.release = x
        /\ JobKeeps /\ UNCHANGED <<calls, answer>>
  BY TypesFit DEF Prepare, JobOthers, gateway, JobKeeps, JobInv, Fits, JobFits, TypeOK
<1>2. /\ Unused(x) /\ job.status = "running" /\ x # None /\ ~Unprepared.committed
      /\ releases'[x] = Prepared(x) /\ ~Prepared(x).committed
      /\ \A r \in Releases \ {x} : releases'[r] = releases[r]
  BY <1>1, NoneAssumption DEF JobInv, TypeOK, Protocol, Fresh, StageFits, Early, Prepared, Unprepared
<1>3. (\A r \in Releases : IsCommitted(r)' <=> IsCommitted(r)) /\ ~IsCommitted(None)' /\ ~IsCommitted(x)'
  BY <1>1, <1>2 DEF IsCommitted
<1>4. RouterKept'
  BY <1>1, RouterFrame DEF JobInv, Protocol
<1>5. Numbered'
  <2>1. /\ catalog.versions \in Seq(Releases) /\ catalog.active \in 0..Len(catalog.versions)
        /\ Len(catalog.versions) \in Nat
    BY DEF JobInv, TypeOK
  <2>2. Prepared(x).version = Prepared(x).old + 1 /\ Prepared(x).old = Len(catalog.versions)
    BY <2>1 DEF JobInv, Protocol, Numbered, Prepared
  <2>3. \A r \in Releases : /\ releases'[r] = Unprepared \/ releases'[r].version = releases'[r].old + 1
                            /\ releases'[r].old <= Len(catalog.versions)
    BY <1>2, <2>1, <2>2 DEF JobInv, Protocol, Numbered
  <2>4. ActiveRelease' = ActiveRelease /\ catalog' = catalog
    BY <1>1, JobFrame DEF JobKeeps
  <2>5. ActiveRelease # None => ActiveRelease \in Releases
    BY <2>1 DEF ActiveRelease
  <2>6. ActiveRelease # None => IsCommitted(ActiveRelease)
    BY DEF JobInv, Protocol, Numbered
  <2>7. ActiveRelease # None => IsCommitted(ActiveRelease)'
    BY <1>1, <1>2, <2>4, <2>5, <2>6 DEF IsCommitted
  <2>8. ~IsCommitted(job.release)'
    BY <1>1, <1>3 DEF IsCommitted
  <2> QED
    BY <2>3, <2>4, <2>7, <2>8 DEF JobInv, Protocol, Numbered, IsCommitted
<1>6. StageFits'
  BY <1>1, <1>2 DEF StageFits, Early
<1>7. Fresh'
  BY <1>1, <1>2 DEF JobInv, Protocol, Fresh, Unused, IsCommitted, JobKeeps, Unprepared, Prepared
<1>8. ActivationHeld'
  <2>1. ~IsCommitted(x)' /\ ~Sent("commit", x)'
    BY <1>1, <1>2 DEF IsCommitted, Unused, Sent
  <2>2. \A r \in Releases : ~Sent("activate", r) /\ ~(AtWork("activate", r) /\ op.stage # "storing")
    BY <1>1 DEF JobInv, Protocol, ActivationHeld
  <2>3. \A r \in Releases : ~Sent("activate", r)' /\ ~(AtWork("activate", r) /\ op.stage # "storing")'
    BY <1>1, <2>2 DEF Sent, AtWork, JobKeeps
  <2> QED
    BY <1>1, <2>1, <2>3 DEF ActivationHeld, Sent, IsCommitted
<1>9. RollbackOnce'
  BY <1>1, <1>2 DEF JobInv, Protocol, RollbackOnce, Unused, Sent, AtWork, JobKeeps
<1>10. Acknowledged'
  BY <1>1 DEF Acknowledged
<1>11. ASSUME Quiet' PROVE InStep' /\ Activating' /\ Undoable'
  <2>1. Quiet
    BY <1>1, <1>11, TypesFit DEF JobInv, Fits, OpFits, Calls, Quiet, Awaited, JobKeeps, NoOp
  <2>2. InStep
    BY <2>1 DEF JobInv, Protocol
  <2>3. InStep'
    BY <1>1, <1>2, <2>2, JobFrame DEF InStep, Early, IsCommitted
  <2> QED
    BY <1>1, <2>3 DEF Activating, Undoable
<1> QED
  BY <1>4, <1>5, <1>6, <1>7, <1>8, <1>9, <1>10, <1>11 DEF Protocol

(* A release that succeeded leaves everything in step: nothing is at work,  *)
(* and the gateway and the catalog have both acknowledged it.               *)
LEMMA ResumeStep ==
  ASSUME JobInv, Resume
  PROVE  Protocol'
<1>1. /\ job.stage = "resume" /\ Moves(job.status, "ended") /\ Silent
      /\ UNCHANGED <<disk, memory, op, catalog>> /\ stray' = (stray /\ job.status # "succeeded")
  BY TypesFit DEF Resume, Stage, gateway, Moves, Silent, JobInv, Fits, JobFits, TypeOK
<1>2. CASE job.status # "succeeded"
  <2>1. stray' = stray
    <3>1. stray \in BOOLEAN
      BY DEF JobInv, TypeOK
    <3> QED
      BY <1>1, <1>2, <3>1
  <2>2. JobKeeps
    BY <1>1, <2>1 DEF JobKeeps
  <2> QED
    BY <1>1, <2>2, EndedStep
<1>3. CASE job.status = "succeeded"
  <2>1. op = NoOp /\ Served.active = job.release /\ IsCommitted(job.release) /\ ActiveRelease = job.release
    BY <1>1, <1>3 DEF JobInv, Protocol, Acknowledged, Numbered
  <2>2. Served' = Served /\ ActiveRelease' = ActiveRelease
    BY <1>1 DEF Served, ActiveRelease
  <2>3. RouterKept' /\ Numbered'
    BY <1>1, NumberedKept DEF JobInv, Protocol, RouterKept, Moves, Silent
  <2>4. StageFits' /\ Acknowledged'
    BY <1>1, <1>3 DEF StageFits, Acknowledged, Moves, Early
  <2>5. Fresh'
    BY <1>1 DEF JobInv, Protocol, Fresh, Unused, IsCommitted, Moves, Silent
  <2>6. ActivationHeld'
    BY <1>1, <2>1 DEF JobInv, Protocol, ActivationHeld, Sent, AtWork, IsCommitted, Moves, Silent
  <2>7. RollbackOnce'
    BY <1>1, <2>1 DEF JobInv, Protocol, RollbackOnce, Sent, AtWork, Moves, Silent
  <2>8. InStep'
    BY <1>1, <1>3, <2>1, <2>2 DEF InStep, IsCommitted, Moves, Early, Free
  <2>9. Activating' /\ Undoable'
    BY <1>1 DEF Activating, Undoable, Moves
  <2> QED
    BY <2>3, <2>4, <2>5, <2>6, <2>7, <2>8, <2>9 DEF Protocol
<1> QED
  BY <1>2, <1>3

----------------------------------------------------------------------------
(* The gateway and the network *)

LEMMA OthersFrame ==
  ASSUME Numbered, StageFits, OthersKeep
  PROVE  Numbered' /\ StageFits'
  BY DEF Numbered, StageFits, IsCommitted, ActiveRelease, OthersKeep

LEMMA GatewayAcceptsStep ==
  ASSUME JobInv, NEW c \in Calls, GatewayAccepts(c)
  PROVE  Protocol'
<1>1. /\ memory.up /\ op = NoOp /\ Admitted(c) /\ c \in calls
      /\ op' # NoOp /\ op'.stage = "building" /\ op'.call = c
      /\ calls' = calls \ {c} /\ UNCHANGED <<disk, memory, answer, stray>> /\ OthersKeep
  BY DEF GatewayAccepts, Accept, GatewayOthers, OthersKeep, NoOp
<1>2. Numbered' /\ StageFits'
  BY <1>1, OthersFrame DEF JobInv, Protocol
<1>3. RouterKept'
  BY <1>1, TypesFit DEF OthersKeep, JobInv, Protocol, Fits, RouterKept, GatewayInv, WriteOrder, Target, Down, NoOp, OpFits
<1>4. Fresh'
  BY <1>1, TypesFit DEF OthersKeep, JobInv, Protocol, Fits, Fresh, Unused, IsCommitted, Down, Target, OpFits, NoOp
<1>5. ActivationHeld'
  BY <1>1, TypesFit DEF OthersKeep, JobInv, Protocol, Fits, ActivationHeld, RollbackOnce, GatewayInv, WriteOrder, Admitted, Sent, AtWork, IsCommitted, OpFits, CallsFit, Calls, Commits, NoOp, Down, Target
<1>6. RollbackOnce'
  BY <1>1, TypesFit DEF OthersKeep, JobInv, Protocol, Fits, RollbackOnce, ActivationHeld, Sent, AtWork, OpFits, CallsFit, Calls, Commits, Awaited, NoOp, AnswerFits
<1>7. Acknowledged'
  BY <1>1, TypesFit DEF OthersKeep, JobInv, Protocol, Fits, Acknowledged, RouterKept, ActivationHeld, RollbackOnce, Sent, AtWork, Awaited, IsCommitted, GatewayInv, WriteOrder, Admitted, Target, Served, OpFits, CallsFit, Calls, Commits, NoOp, Down, JobFits
<1>8. ASSUME Quiet' PROVE InStep' /\ Activating' /\ Undoable'
  <2>1. Quiet
    BY <1>1, <1>8, TypesFit DEF OthersKeep, JobInv, Protocol, Fits, OpFits, CallsFit, Quiet, Awaited, Calls, Commits, NoOp
  <2>2. InStep /\ Activating /\ Undoable
    BY <2>1 DEF JobInv, Protocol
  <2>3. InStep'
    BY <1>1, <1>8, <2>1, <2>2, ActiveFrame, TypesFit DEF OthersKeep, JobInv, Protocol, Fits, InStep, Quiet, Awaited, Acknowledged, ActivationHeld, Undoable, OpFits, Served, Early, Free, IsCommitted, Target, GatewayInv, WriteOrder, NoOp, Down, Calls
  <2>4. Activating'
    BY <1>1, <1>8, <2>1, <2>2, ActiveFrame, TypesFit DEF OthersKeep, JobInv, Protocol, Fits, OpFits, Activating, Quiet, Awaited, Acknowledged, RollbackOnce, AtWork, Between, NoOp, Served, Target, GatewayInv, WriteOrder, Down, Calls
  <2>5. Undoable'
    BY <1>1, <1>8, <2>1, <2>2, ActiveFrame, TypesFit DEF OthersKeep, JobInv, Protocol, Fits, OpFits, Undoable, Quiet, Awaited, Acknowledged, RollbackOnce, AtWork, IsCommitted, NoOp, Served, Target, GatewayInv, WriteOrder, Down, Calls
  <2> QED
    BY <2>3, <2>4, <2>5
<1> QED
  BY <1>2, <1>3, <1>4, <1>5, <1>6, <1>7, <1>8 DEF Protocol

LEMMA LoseStep ==
  ASSUME JobInv, NEW c \in Calls \cup Commits, Lose(c)
  PROVE  Protocol'
<1>1. /\ c \in calls
      /\ calls' = calls \ {c} /\ UNCHANGED <<disk, memory, op, stray>> /\ OthersKeep
      /\ answer' = (IF Awaited(c) THEN "error" ELSE answer)
  BY DEF Lose, Unexecuted, gateway, GatewayOthers, OthersKeep
<1>2. Numbered' /\ StageFits'
  BY <1>1, OthersFrame DEF JobInv, Protocol
<1>3. RouterKept'
  BY <1>1, TypesFit DEF OthersKeep, JobInv, Protocol, Fits, RouterKept, GatewayInv, WriteOrder, Target, Down, NoOp, OpFits
<1>4. Fresh'
  BY <1>1, TypesFit DEF OthersKeep, JobInv, Protocol, Fits, Fresh, Unused, IsCommitted, Down, Target, OpFits, NoOp
<1>5. ActivationHeld'
  BY <1>1, TypesFit DEF OthersKeep, JobInv, Protocol, Fits, ActivationHeld, RollbackOnce, GatewayInv, WriteOrder, Admitted, Sent, AtWork, IsCommitted, OpFits, CallsFit, Calls, Commits, NoOp, Down, Target
<1>6. RollbackOnce'
  BY <1>1, TypesFit DEF OthersKeep, JobInv, Protocol, Fits, RollbackOnce, ActivationHeld, Sent, AtWork, OpFits, CallsFit, Calls, Commits, Awaited, NoOp, AnswerFits
<1>7. Acknowledged'
  BY <1>1, TypesFit DEF OthersKeep, JobInv, Protocol, Fits, Acknowledged, RouterKept, ActivationHeld, RollbackOnce, Sent, AtWork, Awaited, IsCommitted, GatewayInv, WriteOrder, Admitted, Target, Served, OpFits, CallsFit, Calls, Commits, NoOp, Down, JobFits
<1>8. ASSUME Quiet' PROVE InStep' /\ Activating' /\ Undoable'
  <2>1. Quiet
    BY <1>1, <1>8, TypesFit DEF OthersKeep, JobInv, Protocol, Fits, OpFits, CallsFit, Quiet, Awaited, Calls, Commits, NoOp
  <2>2. InStep /\ Activating /\ Undoable
    BY <2>1 DEF JobInv, Protocol
  <2>3. InStep'
    BY <1>1, <1>8, <2>1, <2>2, ActiveFrame, TypesFit DEF OthersKeep, JobInv, Protocol, Fits, InStep, Quiet, Awaited, Acknowledged, ActivationHeld, Undoable, OpFits, Served, Early, Free, IsCommitted, Target, GatewayInv, WriteOrder, NoOp, Down, Calls
  <2>4. Activating'
    BY <1>1, <1>8, <2>1, <2>2, ActiveFrame, TypesFit DEF OthersKeep, JobInv, Protocol, Fits, OpFits, Activating, Quiet, Awaited, Acknowledged, RollbackOnce, AtWork, Between, NoOp, Served, Target, GatewayInv, WriteOrder, Down, Calls
  <2>5. Undoable'
    BY <1>1, <1>8, <2>1, <2>2, ActiveFrame, TypesFit DEF OthersKeep, JobInv, Protocol, Fits, OpFits, Undoable, Quiet, Awaited, Acknowledged, RollbackOnce, AtWork, IsCommitted, NoOp, Served, Target, GatewayInv, WriteOrder, Down, Calls
  <2> QED
    BY <2>3, <2>4, <2>5
<1> QED
  BY <1>2, <1>3, <1>4, <1>5, <1>6, <1>7, <1>8 DEF Protocol

LEMMA PersistsStep ==
  ASSUME JobInv, Persist, UNCHANGED <<GatewayOthers, calls, answer, stray, crashes>>
  PROVE  Protocol'
<1>1. /\ op # NoOp /\ op.stage = "building" /\ memory.up
      /\ op' # NoOp /\ op'.stage = "written" /\ op'.call = op.call /\ disk' = Target(op.call)
      /\ UNCHANGED <<memory, calls, answer, stray>> /\ OthersKeep
  BY DEF Persist, GatewayOthers, OthersKeep, NoOp, JobInv, GatewayInv, GatewayTypes, WriteOrder
<1>2. Numbered' /\ StageFits'
  BY <1>1, OthersFrame DEF JobInv, Protocol
<1>3. RouterKept'
  BY <1>1, TypesFit DEF OthersKeep, JobInv, Protocol, Fits, RouterKept, GatewayInv, WriteOrder, Target, Down, NoOp, OpFits
<1>4. Fresh'
  <2>1. /\ disk'.active \in {op.call.release, memory.previous}
        /\ disk'.previous \in {memory.active, None}
    BY <1>1 DEF Target
  <2>2. \A r \in Releases : Unused(r) => Unused(r)'
    BY <1>1, <2>1, NoneAssumption DEF OthersKeep, Unused, IsCommitted
  <2>3. job.stage \in {"validate", "quiesce"} => job.release \in Releases
    BY TypesFit DEF JobInv, Fits, JobFits
  <2>4. job.stage \in {"validate", "quiesce"} => Unused(job.release)'
    BY <1>1, <2>1, <2>3, NoneAssumption DEF JobInv, Protocol, Fresh, OthersKeep, Unused, IsCommitted
  <2> QED
    BY <1>1, <2>2, <2>4 DEF JobInv, Protocol, Fresh, OthersKeep
<1>5. ActivationHeld'
  BY <1>1, TypesFit, NoneAssumption DEF OthersKeep, JobInv, Protocol, Fits, ActivationHeld, RollbackOnce, GatewayInv, WriteOrder, Admitted, Sent, AtWork, IsCommitted, OpFits, CallsFit, Calls, Commits, NoOp, Down, Target
<1>6. RollbackOnce'
  BY <1>1, TypesFit DEF OthersKeep, JobInv, Protocol, Fits, RollbackOnce, ActivationHeld, Sent, AtWork, OpFits, CallsFit, Calls, Commits, Awaited, NoOp, AnswerFits
<1>7. Acknowledged'
  BY <1>1, TypesFit DEF OthersKeep, JobInv, Protocol, Fits, Acknowledged, RouterKept, ActivationHeld, RollbackOnce, Sent, AtWork, Awaited, IsCommitted, GatewayInv, WriteOrder, Admitted, Target, Served, OpFits, CallsFit, Calls, Commits, NoOp, Down, JobFits
<1>8. ASSUME Quiet' PROVE InStep' /\ Activating' /\ Undoable'
  <2>1. Quiet
    BY <1>1, <1>8, TypesFit DEF OthersKeep, JobInv, Protocol, Fits, OpFits, CallsFit, Quiet, Awaited, Calls, Commits, NoOp
  <2>2. InStep /\ Activating /\ Undoable
    BY <2>1 DEF JobInv, Protocol
  <2>3. InStep'
    BY <1>1, <1>8, <2>1, <2>2, ActiveFrame, TypesFit DEF OthersKeep, JobInv, Protocol, Fits, InStep, Quiet, Awaited, Acknowledged, ActivationHeld, Undoable, OpFits, Served, Early, Free, IsCommitted, Target, GatewayInv, WriteOrder, NoOp, Down, Calls
  <2>4. Activating'
    BY <1>1, <1>8, <2>1, <2>2, ActiveFrame, TypesFit DEF OthersKeep, JobInv, Protocol, Fits, OpFits, Activating, Quiet, Awaited, Acknowledged, RollbackOnce, AtWork, Between, NoOp, Served, Target, GatewayInv, WriteOrder, Down, Calls
  <2>5. Undoable'
    BY <1>1, <1>8, <2>1, <2>2, ActiveFrame, TypesFit DEF OthersKeep, JobInv, Protocol, Fits, OpFits, Undoable, Quiet, Awaited, Acknowledged, RollbackOnce, AtWork, IsCommitted, NoOp, Served, Target, GatewayInv, WriteOrder, Down, Calls
  <2> QED
    BY <2>3, <2>4, <2>5
<1> QED
  BY <1>2, <1>3, <1>4, <1>5, <1>6, <1>7, <1>8 DEF Protocol

LEMMA StoresReleaseStep ==
  ASSUME JobInv, StoreRelease, UNCHANGED <<GatewayOthers, calls, answer, stray, crashes>>
  PROVE  Protocol'
<1>1. /\ op # NoOp /\ op.stage = "written" /\ memory.up /\ disk = Target(op.call)
      /\ op' # NoOp /\ op'.stage = "storing" /\ op'.call = op.call
      /\ memory'.active = disk.active /\ memory'.previous = disk.previous
      /\ memory'.router = memory.router /\ memory'.up
      /\ UNCHANGED <<disk, calls, answer, stray>> /\ OthersKeep
  BY DEF StoreRelease, Stored, GatewayOthers, OthersKeep, NoOp, JobInv, GatewayInv, GatewayTypes, WriteOrder
<1>2. Numbered' /\ StageFits'
  BY <1>1, OthersFrame DEF JobInv, Protocol
<1>3. RouterKept'
  BY <1>1, TypesFit DEF OthersKeep, JobInv, Protocol, Fits, RouterKept, GatewayInv, WriteOrder, Target, Down, NoOp, OpFits
<1>4. Fresh'
  BY <1>1, TypesFit DEF OthersKeep, JobInv, Protocol, Fits, Fresh, Unused, IsCommitted, Down, Target, OpFits, NoOp
<1>5. ActivationHeld'
  BY <1>1, TypesFit DEF OthersKeep, JobInv, Protocol, Fits, ActivationHeld, RollbackOnce, GatewayInv, WriteOrder, Admitted, Sent, AtWork, IsCommitted, OpFits, CallsFit, Calls, Commits, NoOp, Down, Target
<1>6. RollbackOnce'
  BY <1>1, TypesFit DEF OthersKeep, JobInv, Protocol, Fits, RollbackOnce, ActivationHeld, Sent, AtWork, OpFits, CallsFit, Calls, Commits, Awaited, NoOp, AnswerFits
<1>7. Acknowledged'
  BY <1>1, TypesFit DEF OthersKeep, JobInv, Protocol, Fits, Acknowledged, RouterKept, ActivationHeld, RollbackOnce, Sent, AtWork, Awaited, IsCommitted, GatewayInv, WriteOrder, Admitted, Target, Served, OpFits, CallsFit, Calls, Commits, NoOp, Down, JobFits
<1>8. ASSUME Quiet' PROVE InStep' /\ Activating' /\ Undoable'
  <2>1. Quiet
    BY <1>1, <1>8, TypesFit DEF OthersKeep, JobInv, Protocol, Fits, OpFits, CallsFit, Quiet, Awaited, Calls, Commits, NoOp
  <2>2. InStep /\ Activating /\ Undoable
    BY <2>1 DEF JobInv, Protocol
  <2>3. InStep'
    BY <1>1, <1>8, <2>1, <2>2, ActiveFrame, TypesFit DEF OthersKeep, JobInv, Protocol, Fits, InStep, Quiet, Awaited, Acknowledged, ActivationHeld, Undoable, OpFits, Served, Early, Free, IsCommitted, Target, GatewayInv, WriteOrder, NoOp, Down, Calls
  <2>4. Activating'
    BY <1>1, <1>8, <2>1, <2>2, ActiveFrame, TypesFit DEF OthersKeep, JobInv, Protocol, Fits, OpFits, Activating, Quiet, Awaited, Acknowledged, RollbackOnce, AtWork, Between, NoOp, Served, Target, GatewayInv, WriteOrder, Down, Calls
  <2>5. Undoable'
    BY <1>1, <1>8, <2>1, <2>2, ActiveFrame, TypesFit DEF OthersKeep, JobInv, Protocol, Fits, OpFits, Undoable, Quiet, Awaited, Acknowledged, RollbackOnce, AtWork, IsCommitted, NoOp, Served, Target, GatewayInv, WriteOrder, Down, Calls
  <2> QED
    BY <2>3, <2>4, <2>5
<1> QED
  BY <1>2, <1>3, <1>4, <1>5, <1>6, <1>7, <1>8 DEF Protocol

LEMMA GatewayDoneStep ==
  ASSUME JobInv, GatewayDone
  PROVE  Protocol'
<1>1. /\ op # NoOp /\ op.stage = "storing" /\ memory.up
      /\ memory'.active = memory.active /\ memory'.previous = memory.previous
      /\ memory'.router = memory.active /\ memory'.up
      /\ op' = NoOp /\ UNCHANGED <<disk, calls>> /\ OthersKeep
      /\ answer' = (IF Awaited(op.call) THEN "ok" ELSE answer)
      /\ stray' = (stray \/ ~Awaited(op.call))
  BY DEF GatewayDone, StoreRouter, Executed, GatewayOthers, OthersKeep, NoOp, JobInv, GatewayInv, GatewayTypes, WriteOrder
<1>2. Numbered' /\ StageFits'
  BY <1>1, OthersFrame DEF JobInv, Protocol
<1>3. RouterKept'
  BY <1>1, TypesFit DEF OthersKeep, JobInv, Protocol, Fits, RouterKept, GatewayInv, WriteOrder, Target, Down, NoOp, OpFits
<1>4. Fresh'
  BY <1>1, TypesFit DEF OthersKeep, JobInv, Protocol, Fits, Fresh, Unused, IsCommitted, Down, Target, OpFits, NoOp
<1>5. ActivationHeld'
  BY <1>1, TypesFit DEF OthersKeep, JobInv, Protocol, Fits, ActivationHeld, RollbackOnce, GatewayInv, WriteOrder, Admitted, Sent, AtWork, IsCommitted, OpFits, CallsFit, Calls, Commits, NoOp, Down, Target
<1>6. RollbackOnce'
  BY <1>1, TypesFit DEF OthersKeep, JobInv, Protocol, Fits, RollbackOnce, ActivationHeld, Sent, AtWork, OpFits, CallsFit, Calls, Commits, Awaited, NoOp, AnswerFits
<1>7. Acknowledged'
  BY <1>1, TypesFit DEF OthersKeep, JobInv, Protocol, Fits, Acknowledged, RouterKept, ActivationHeld, RollbackOnce, Sent, AtWork, Awaited, IsCommitted, GatewayInv, WriteOrder, Admitted, Target, Served, OpFits, CallsFit, Calls, Commits, NoOp, Down, JobFits
<1>8. ASSUME Quiet' PROVE InStep' /\ Activating' /\ Undoable'
  <2>1. Quiet
    BY <1>1, <1>8, TypesFit DEF OthersKeep, JobInv, Protocol, Fits, OpFits, CallsFit, Quiet, Awaited, Calls, Commits, NoOp
  <2>2. InStep /\ Activating /\ Undoable
    BY <2>1 DEF JobInv, Protocol
  <2>3. InStep'
    BY <1>1, <1>8, <2>1, <2>2, ActiveFrame, TypesFit DEF OthersKeep, JobInv, Protocol, Fits, InStep, Quiet, Awaited, Acknowledged, ActivationHeld, Undoable, OpFits, Served, Early, Free, IsCommitted, Target, GatewayInv, WriteOrder, NoOp, Down, Calls
  <2>4. Activating'
    BY <1>1, <1>8, <2>1, <2>2, ActiveFrame, TypesFit DEF OthersKeep, JobInv, Protocol, Fits, OpFits, Activating, Quiet, Awaited, Acknowledged, RollbackOnce, AtWork, Between, NoOp, Served, Target, GatewayInv, WriteOrder, Down, Calls
  <2>5. Undoable'
    BY <1>1, <1>8, <2>1, <2>2, ActiveFrame, TypesFit DEF OthersKeep, JobInv, Protocol, Fits, OpFits, Undoable, Quiet, Awaited, Acknowledged, RollbackOnce, AtWork, IsCommitted, NoOp, Served, Target, GatewayInv, WriteOrder, Down, Calls
  <2> QED
    BY <2>3, <2>4, <2>5
<1> QED
  BY <1>2, <1>3, <1>4, <1>5, <1>6, <1>7, <1>8 DEF Protocol

LEMMA GatewayFailsStep ==
  ASSUME JobInv, GatewayFails
  PROVE  Protocol'
<1>1. /\ op # NoOp /\ op.stage = "building" /\ memory.up
      /\ op' = NoOp /\ UNCHANGED <<disk, memory, calls, stray>> /\ OthersKeep
      /\ answer' = (IF Awaited(op.call) THEN "error" ELSE answer)
  BY DEF GatewayFails, Abandon, Unexecuted, GatewayOthers, OthersKeep, NoOp, JobInv, GatewayInv, GatewayTypes, WriteOrder
<1>2. Numbered' /\ StageFits'
  BY <1>1, OthersFrame DEF JobInv, Protocol
<1>3. RouterKept'
  BY <1>1, TypesFit DEF OthersKeep, JobInv, Protocol, Fits, RouterKept, GatewayInv, WriteOrder, Target, Down, NoOp, OpFits
<1>4. Fresh'
  BY <1>1, TypesFit DEF OthersKeep, JobInv, Protocol, Fits, Fresh, Unused, IsCommitted, Down, Target, OpFits, NoOp
<1>5. ActivationHeld'
  BY <1>1, TypesFit DEF OthersKeep, JobInv, Protocol, Fits, ActivationHeld, RollbackOnce, GatewayInv, WriteOrder, Admitted, Sent, AtWork, IsCommitted, OpFits, CallsFit, Calls, Commits, NoOp, Down, Target
<1>6. RollbackOnce'
  BY <1>1, TypesFit DEF OthersKeep, JobInv, Protocol, Fits, RollbackOnce, ActivationHeld, Sent, AtWork, OpFits, CallsFit, Calls, Commits, Awaited, NoOp, AnswerFits
<1>7. Acknowledged'
  BY <1>1, TypesFit DEF OthersKeep, JobInv, Protocol, Fits, Acknowledged, RouterKept, ActivationHeld, RollbackOnce, Sent, AtWork, Awaited, IsCommitted, GatewayInv, WriteOrder, Admitted, Target, Served, OpFits, CallsFit, Calls, Commits, NoOp, Down, JobFits
<1>8. ASSUME Quiet' PROVE InStep' /\ Activating' /\ Undoable'
  <2>1. Quiet
    BY <1>1, <1>8, TypesFit DEF OthersKeep, JobInv, Protocol, Fits, OpFits, CallsFit, Quiet, Awaited, Calls, Commits, NoOp
  <2>2. InStep /\ Activating /\ Undoable
    BY <2>1 DEF JobInv, Protocol
  <2>3. InStep'
    BY <1>1, <1>8, <2>1, <2>2, ActiveFrame, TypesFit DEF OthersKeep, JobInv, Protocol, Fits, InStep, Quiet, Awaited, Acknowledged, ActivationHeld, Undoable, OpFits, Served, Early, Free, IsCommitted, Target, GatewayInv, WriteOrder, NoOp, Down, Calls
  <2>4. Activating'
    BY <1>1, <1>8, <2>1, <2>2, ActiveFrame, TypesFit DEF OthersKeep, JobInv, Protocol, Fits, OpFits, Activating, Quiet, Awaited, Acknowledged, RollbackOnce, AtWork, Between, NoOp, Served, Target, GatewayInv, WriteOrder, Down, Calls
  <2>5. Undoable'
    BY <1>1, <1>8, <2>1, <2>2, ActiveFrame, TypesFit DEF OthersKeep, JobInv, Protocol, Fits, OpFits, Undoable, Quiet, Awaited, Acknowledged, RollbackOnce, AtWork, IsCommitted, NoOp, Served, Target, GatewayInv, WriteOrder, Down, Calls
  <2> QED
    BY <2>3, <2>4, <2>5
<1> QED
  BY <1>2, <1>3, <1>4, <1>5, <1>6, <1>7, <1>8 DEF Protocol

(* Whatever the gateway had written, it serves after the restart.           *)
LEMMA GatewayCrashesStep ==
  ASSUME JobInv, GatewayCrashes
  PROVE  Protocol'
<1>1. /\ memory.up /\ op' = NoOp /\ UNCHANGED disk /\ OthersKeep
      /\ memory'.active = None /\ memory'.previous = None /\ memory'.router = None /\ ~memory'.up
      /\ calls' = calls \cap Commits
      /\ stray' = (stray \/ (op # NoOp /\ ~Awaited(op.call)))
      /\ answer' = IF job.stage \in {"activate", "rollback"} /\ answer = "none" THEN "error" ELSE answer
  BY DEF GatewayCrashes, GatewayCrash, Down, GatewayOthers, OthersKeep
<1>2. Numbered' /\ StageFits'
  BY <1>1, OthersFrame DEF JobInv, Protocol
<1>3. RouterKept'
  BY <1>1, TypesFit DEF OthersKeep, JobInv, Protocol, Fits, RouterKept, GatewayInv, WriteOrder, Target, Down, NoOp, OpFits
<1>4. Fresh'
  <2>2. \A r \in Releases : Unused(r) => Unused(r)'
    BY <1>1, NoneAssumption DEF OthersKeep, Unused, IsCommitted
  <2>3. job.stage \in {"validate", "quiesce"} => job.release \in Releases
    BY TypesFit DEF JobInv, Fits, JobFits
  <2>4. job.stage \in {"validate", "quiesce"} => Unused(job.release)'
    BY <1>1, <2>3, NoneAssumption DEF JobInv, Protocol, Fresh, OthersKeep, Unused, IsCommitted
  <2> QED
    BY <1>1, <2>2, <2>4 DEF JobInv, Protocol, Fresh, OthersKeep
<1>5. ActivationHeld'
  BY <1>1, TypesFit DEF OthersKeep, JobInv, Protocol, Fits, ActivationHeld, RollbackOnce, GatewayInv, WriteOrder, Admitted, Sent, AtWork, IsCommitted, OpFits, CallsFit, Calls, Commits, NoOp, Down, Target
<1>6. RollbackOnce'
  BY <1>1, TypesFit DEF OthersKeep, JobInv, Protocol, Fits, RollbackOnce, ActivationHeld, Sent, AtWork, OpFits, CallsFit, Calls, Commits, Awaited, NoOp, AnswerFits
<1>7. Acknowledged'
  BY <1>1, TypesFit DEF OthersKeep, JobInv, Protocol, Fits, Acknowledged, RouterKept, ActivationHeld, RollbackOnce, Sent, AtWork, Awaited, IsCommitted, GatewayInv, WriteOrder, Admitted, Target, Served, OpFits, CallsFit, Calls, Commits, NoOp, Down, JobFits
<1>8. ASSUME Quiet' PROVE InStep' /\ Activating' /\ Undoable'
  <2>1. Quiet
    BY <1>1, <1>8, TypesFit DEF OthersKeep, JobInv, Protocol, Fits, OpFits, CallsFit, Quiet, Awaited, Calls, Commits, NoOp
  <2>2. InStep /\ Activating /\ Undoable
    BY <2>1 DEF JobInv, Protocol
  <2>3. InStep'
    BY <1>1, <1>8, <2>1, <2>2, ActiveFrame, TypesFit DEF OthersKeep, JobInv, Protocol, Fits, InStep, Quiet, Awaited, Acknowledged, ActivationHeld, Undoable, OpFits, Served, Early, Free, IsCommitted, Target, GatewayInv, WriteOrder, NoOp, Down, Calls
  <2>4. Activating'
    BY <1>1, <1>8, <2>1, <2>2, ActiveFrame, TypesFit DEF OthersKeep, JobInv, Protocol, Fits, OpFits, Activating, Quiet, Awaited, Acknowledged, RollbackOnce, AtWork, Between, NoOp, Served, Target, GatewayInv, WriteOrder, Down, Calls
  <2>5. Undoable'
    BY <1>1, <1>8, <2>1, <2>2, ActiveFrame, TypesFit DEF OthersKeep, JobInv, Protocol, Fits, OpFits, Undoable, Quiet, Awaited, Acknowledged, RollbackOnce, AtWork, IsCommitted, NoOp, Served, Target, GatewayInv, WriteOrder, Down, Calls
  <2> QED
    BY <2>3, <2>4, <2>5
<1> QED
  BY <1>2, <1>3, <1>4, <1>5, <1>6, <1>7, <1>8 DEF Protocol

LEMMA GatewayStartsStep ==
  ASSUME JobInv, GatewayStarts
  PROVE  Protocol'
<1>1. /\ ~memory.up /\ op = NoOp
      /\ memory'.active = disk.active /\ memory'.previous = disk.previous
      /\ memory'.router = disk.active /\ memory'.up
      /\ UNCHANGED <<disk, op, calls, answer, stray>> /\ OthersKeep
  BY DEF GatewayStarts, GatewayStart, Loaded, GatewayOthers, OthersKeep, JobInv, GatewayInv, WriteOrder
<1>2. Numbered' /\ StageFits'
  BY <1>1, OthersFrame DEF JobInv, Protocol
<1>3. RouterKept'
  BY <1>1, TypesFit DEF OthersKeep, JobInv, Protocol, Fits, RouterKept, GatewayInv, WriteOrder, Target, Down, NoOp, OpFits
<1>4. Fresh'
  BY <1>1, TypesFit DEF OthersKeep, JobInv, Protocol, Fits, Fresh, Unused, IsCommitted, Down, Target, OpFits, NoOp
<1>5. ActivationHeld'
  BY <1>1, TypesFit DEF OthersKeep, JobInv, Protocol, Fits, ActivationHeld, RollbackOnce, GatewayInv, WriteOrder, Admitted, Sent, AtWork, IsCommitted, OpFits, CallsFit, Calls, Commits, NoOp, Down, Target
<1>6. RollbackOnce'
  BY <1>1, TypesFit DEF OthersKeep, JobInv, Protocol, Fits, RollbackOnce, ActivationHeld, Sent, AtWork, OpFits, CallsFit, Calls, Commits, Awaited, NoOp, AnswerFits
<1>7. Acknowledged'
  BY <1>1, TypesFit DEF OthersKeep, JobInv, Protocol, Fits, Acknowledged, RouterKept, ActivationHeld, RollbackOnce, Sent, AtWork, Awaited, IsCommitted, GatewayInv, WriteOrder, Admitted, Target, Served, OpFits, CallsFit, Calls, Commits, NoOp, Down, JobFits
<1>8. ASSUME Quiet' PROVE InStep' /\ Activating' /\ Undoable'
  <2>1. Quiet
    BY <1>1, <1>8, TypesFit DEF OthersKeep, JobInv, Protocol, Fits, OpFits, CallsFit, Quiet, Awaited, Calls, Commits, NoOp
  <2>2. InStep /\ Activating /\ Undoable
    BY <2>1 DEF JobInv, Protocol
  <2>3. InStep'
    BY <1>1, <1>8, <2>1, <2>2, ActiveFrame, TypesFit DEF OthersKeep, JobInv, Protocol, Fits, InStep, Quiet, Awaited, Acknowledged, ActivationHeld, Undoable, OpFits, Served, Early, Free, IsCommitted, Target, GatewayInv, WriteOrder, NoOp, Down, Calls
  <2>4. Activating'
    BY <1>1, <1>8, <2>1, <2>2, ActiveFrame, TypesFit DEF OthersKeep, JobInv, Protocol, Fits, OpFits, Activating, Quiet, Awaited, Acknowledged, RollbackOnce, AtWork, Between, NoOp, Served, Target, GatewayInv, WriteOrder, Down, Calls
  <2>5. Undoable'
    BY <1>1, <1>8, <2>1, <2>2, ActiveFrame, TypesFit DEF OthersKeep, JobInv, Protocol, Fits, OpFits, Undoable, Quiet, Awaited, Acknowledged, RollbackOnce, AtWork, IsCommitted, NoOp, Served, Target, GatewayInv, WriteOrder, Down, Calls
  <2> QED
    BY <2>3, <2>4, <2>5
<1> QED
  BY <1>2, <1>3, <1>4, <1>5, <1>6, <1>7, <1>8 DEF Protocol


(* An activation is never unneeded: nobody sends it twice.  What the        *)
(* gateway declines is lost, as far as the job can tell.                   *)
LEMMA GatewayDeclinesStep ==
  ASSUME JobInv, NEW c \in Calls, GatewayDeclines(c)
  PROVE  Protocol'
<1>1. c \in calls /\ memory.up
  BY DEF GatewayDeclines
<1>2. ~Unneeded(c)
  BY <1>1 DEF JobInv, Protocol, ActivationHeld, Unneeded, Sent, Calls
<1>3. Lose(c)
  BY <1>1, <1>2 DEF GatewayDeclines, Lose
<1> QED
  BY <1>3, LoseStep

(* Only the newest job's release can be committed once it is committed, and *)
(* what a job does not wait for makes the catalog stray.                   *)
LEMMA CatalogCommitsStep ==
  ASSUME JobInv, NEW c \in Commits, CatalogCommits(c)
  PROVE  Protocol'
<1> DEFINE x == c.release
<1>1. /\ c = [action |-> "commit", release |-> x] /\ x \in Releases /\ x # None /\ Sent("commit", x)
      /\ calls' = calls \ {c} /\ UNCHANGED <<disk, memory, op, job>>
      /\ releases[x] # Unprepared
  <2>1. c = [action |-> "commit", release |-> x] /\ x \in Releases /\ x # None /\ Sent("commit", x)
    BY NoneAssumption DEF Commits, CatalogCommits, Sent
  <2>2. calls' = calls \ {c} /\ UNCHANGED <<disk, memory, op, job>>
    BY DEF CatalogCommits, gateway
  <2>3. releases[x] # Unprepared
    BY <2>1 DEF JobInv, Protocol, Fresh, Unused, Sent
  <2> QED
    BY <2>1, <2>2, <2>3
<1>2. RouterKept' /\ StageFits'
  BY <1>1 DEF JobInv, Protocol, RouterKept, StageFits
<1>3. CASE NotCommit(c) /\ ~releases[x].committed
  <2>1. Lose(c)
    BY <1>1, <1>3 DEF NotCommit, Lose, CatalogCommits, GatewayOthers, Sent
  <2> QED
    BY <2>1, LoseStep
<1>4. CASE NotCommit(c) /\ releases[x].committed
  <2>1. /\ IsCommitted(x) /\ OthersKeep
        /\ answer' = (IF Awaited(c) THEN "ok" ELSE answer)
        /\ stray' = (stray \/ ~Awaited(c))
    BY <1>1, <1>4 DEF NotCommit, Executed, OthersKeep, IsCommitted
  <2>2. Numbered'
    BY <2>1, OthersFrame DEF JobInv, Protocol
  <2>3. Fresh'
    BY <1>1, <2>1 DEF JobInv, Protocol, Fresh, Unused, IsCommitted, OthersKeep
  <2>4. ActivationHeld'
    BY <1>1, <2>1 DEF JobInv, Protocol, ActivationHeld, Sent, AtWork, IsCommitted, OthersKeep
  <2>5. RollbackOnce'
    BY <1>1, <2>1 DEF JobInv, Protocol, RollbackOnce, Sent, AtWork, OthersKeep, Awaited
  <2>6. Acknowledged'
    BY <1>1, <2>1, ActiveFrame DEF JobInv, Protocol, Acknowledged, Served, IsCommitted, Awaited, OthersKeep
  <2>7. ASSUME Quiet' PROVE InStep' /\ Activating' /\ Undoable'
    <3>1. Quiet /\ Awaited(c)
      BY <1>1, <2>1, <2>7 DEF Quiet, Awaited, OthersKeep
    <3>2. InStep /\ Activating /\ Undoable
      BY <3>1 DEF JobInv, Protocol
    <3>3. InStep'
      BY <1>1, <2>1, <3>2, ActiveFrame DEF InStep, Served, IsCommitted, OthersKeep, Free
    <3>4. Activating' /\ Undoable'
      BY <1>1, <2>1, <3>1, <3>2, ActiveFrame
      DEF Awaited, Activating, Undoable, Served, IsCommitted, OthersKeep
    <3> QED
      BY <3>3, <3>4
  <2> QED
    BY <1>2, <2>2, <2>3, <2>4, <2>5, <2>6, <2>7 DEF Protocol
<1>5. CASE Commit(c)
  <2> DEFINE n == Len(catalog.versions)
  <2>1. /\ ~releases[x].committed /\ catalog.active = releases[x].old
        /\ catalog' = [versions |-> Append(catalog.versions, x), active |-> releases[x].version]
        /\ releases' = [releases EXCEPT ![x].committed = TRUE]
        /\ answer' = (IF Awaited(c) THEN "ok" ELSE answer)
        /\ stray' = (stray \/ ~Awaited(c))
    BY <1>5 DEF Commit, Committable, Executed
  <2>2. /\ catalog.versions \in Seq(Releases) /\ n \in Nat
        /\ releases \in [Releases -> [version : Nat, old : Nat, committed : BOOLEAN]]
    BY DEF JobInv, TypeOK
  <2>3. releases[x].version = n + 1 /\ catalog.active = n /\ releases[x].old = n
    BY <1>1, <2>1, <2>2 DEF JobInv, Protocol, Numbered
  <2>4. /\ catalog'.active = n + 1 /\ Len(catalog'.versions) = n + 1 /\ catalog'.versions[n + 1] = x
    BY <1>1, <2>1, <2>2, <2>3
  <2>5. ActiveRelease' = x
    BY <2>2, <2>4 DEF ActiveRelease
  <2>6. \A r \in Releases : /\ releases'[r].version = releases[r].version
                            /\ releases'[r].old = releases[r].old
                            /\ r # x => releases'[r] = releases[r]
                            /\ releases'[r].committed <=> (releases[r].committed \/ r = x)
                            /\ releases'[r] = Unprepared => releases[r] = Unprepared
    BY <1>1, <2>1, <2>2 DEF Unprepared
  <2>7. \A r \in Releases : IsCommitted(r)' <=> (IsCommitted(r) \/ r = x)
    BY <1>1, <2>6 DEF IsCommitted
  <2>8. ~IsCommitted(x) /\ IsCommitted(x)'
    BY <1>1, <2>1, <2>7 DEF IsCommitted
  (* Had the newest job's release been committed, x would be too old. *)
  <2>9. ~IsCommitted(job.release)
    BY <1>1, <2>2, <2>3 DEF JobInv, Protocol, Numbered
  <2>10. job.release \in Releases \cup {None}
    BY TypesFit DEF JobInv, Fits, JobFits
  <2>11. IsCommitted(job.release)' <=> job.release = x
    BY <1>1, <2>6, <2>9, <2>10 DEF IsCommitted
  <2>12. Numbered'
    <3>1. ASSUME NEW r \in Releases
          PROVE  /\ releases'[r] = Unprepared \/ releases'[r].version = releases'[r].old + 1
                 /\ releases'[r].old < n + 1
      <4>1. releases[r].old <= n /\ releases[r].old \in Nat
        BY <2>2 DEF JobInv, Protocol, Numbered
      <4>2. releases'[r].old < n + 1
        BY <2>2, <2>6, <4>1
      <4>3. releases[r] = Unprepared \/ releases[r].version = releases[r].old + 1
        BY DEF JobInv, Protocol, Numbered
      <4>4. releases'[r] = Unprepared \/ releases'[r].version = releases'[r].old + 1
        BY <1>1, <2>6, <4>3
      <4> QED
        BY <4>2, <4>4
    <3>2. \A r \in Releases : releases'[r].old \in Nat
      BY <2>2, <2>6
    <3>3. catalog'.active = Len(catalog'.versions)
      BY <2>4
    <3>4. \A r \in Releases : /\ releases'[r] = Unprepared \/ releases'[r].version = releases'[r].old + 1
                              /\ releases'[r].old <= Len(catalog'.versions)
                              /\ releases'[r].old < Len(catalog'.versions)
      BY <2>2, <2>4, <3>1, <3>2
    <3> QED
      BY <2>5, <2>8, <2>11, <1>1, <3>3, <3>4 DEF Numbered
  <2>13. Fresh'
    <3>1. \A r \in Releases : releases'[r] = Unprepared => r # x
      BY <1>1, <2>6
    <3>2. job.stage \in {"validate", "quiesce"} => job.release # x
      BY <1>1 DEF JobInv, Protocol, Fresh, Unused, Sent
    <3> QED
      BY <1>1, <2>6, <2>7, <3>1, <3>2, TypesFit DEF JobInv, Protocol, Fresh, Unused, IsCommitted, Fits, JobFits
  <2>14. ActivationHeld'
    <3>1. \A r \in Releases : Sent("activate", r) \/ (AtWork("activate", r) /\ op.stage # "storing") => r # x
      BY <1>1 DEF JobInv, Protocol, ActivationHeld
    <3>2. job.stage \in {"validate", "quiesce", "activate", "verify"} => job.release # x
      BY <1>1 DEF JobInv, Protocol, ActivationHeld
    <3> QED
      BY <1>1, <2>7, <2>11, <3>1, <3>2 DEF JobInv, Protocol, ActivationHeld, Sent, AtWork
  <2>15. RollbackOnce'
    BY <1>1, <2>1 DEF JobInv, Protocol, RollbackOnce, Sent, AtWork, Awaited
  <2>16. Acknowledged'
    BY <1>1, <2>1, <2>8, <2>9 DEF JobInv, Protocol, Acknowledged, Served, Awaited
  <2>17. ASSUME Quiet' PROVE InStep' /\ Activating' /\ Undoable'
    <3>1. Quiet /\ Awaited(c) /\ job.release = x /\ job.stage \in {"commit", "reconcile"}
      <4>1. ~stray /\ Awaited(c)
        BY <2>1, <2>17 DEF Quiet
      <4>2. Quiet
        BY <1>1, <2>17, <4>1 DEF Quiet, Awaited
      <4> QED
        BY <1>1, <4>1, <4>2 DEF Awaited
    <3>2. InStep
      BY <3>1 DEF JobInv, Protocol
    <3>3. Served' = Served /\ Served.active = x /\ job.status \notin {"failed", "cancelled"}
      BY <1>1, <3>1, <3>2 DEF JobInv, Protocol, InStep, Acknowledged, StageFits, Served
    <3>4. InStep' /\ Activating' /\ Undoable'
      BY <1>1, <2>8, <3>1, <3>3 DEF InStep, Activating, Undoable, Early
    <3> QED
      BY <3>4
  <2> QED
    BY <1>2, <2>12, <2>13, <2>14, <2>15, <2>16, <2>17 DEF Protocol
<1> QED
  BY <1>3, <1>4, <1>5 DEF CatalogCommits

----------------------------------------------------------------------------
(* The types *)

CallTypes == calls \subseteq Calls \cup Commits /\ answer \in {"none", "ok", "error"}
JobTypes ==
  /\ job \in [status : {"none", "running", "succeeded", "failed", "cancelled", "needs_recovery"},
              stage : Stages, release : Releases \cup {None}]
  /\ job.stage \notin {"prepare", "ended"} => job.release # None
CatalogTypes ==
  /\ catalog.versions \in Seq(Releases) /\ catalog.active \in 0..Len(catalog.versions)
  /\ releases \in [Releases -> [version : Nat, old : Nat, committed : BOOLEAN]]
RestTypes == blocked \in BOOLEAN /\ stray \in BOOLEAN /\ crashes \in 0..MaxCrashes

LEMMA TypeParts ==
  TypeOK <=> GatewayTypes /\ JobTypes /\ CatalogTypes /\ CallTypes /\ RestTypes
  BY DEF TypeOK, GatewayTypes, JobTypes, CatalogTypes, CallTypes, RestTypes

LEMMA JobTyped == ASSUME JobTypes, [Next]_vars PROVE JobTypes'
<1> USE DEF JobTypes
<1>1. CASE GatewaySteps
  BY <1>1 DEF GatewaySteps, GatewayAccepts, GatewayDeclines, GatewayWorks, GatewayDone, GatewayFails,
     GatewayCrashes, GatewayStarts, GatewayOthers
<1>2. CASE Submit \/ Resume
  BY <1>2 DEF Submit, Resume, Stage, Stages
<1>11. CASE NotBegun \/ NotResumed \/ ActivationUnknown
  BY <1>11 DEF NotBegun, NotResumed, ActivationUnknown, End, Stages
<1>9. CASE LookUpFails \/ RollbackUnknown \/ Reconciled \/ NotReconciled
  BY <1>9 DEF LookUpFails, RollbackUnknown, Reconciled, NotReconciled, Stage, End, Stages
<1>10. CASE OperationsCrash
  <2>1. PICK status \in {"needs_recovery", job.status} :
          job' = [job EXCEPT !.status = status, !.stage = "ended"]
    BY <1>10 DEF OperationsCrash, End
  <2> QED
    BY <2>1 DEF Stages
<1>3. CASE Prepare
  <2>1. PICK r \in Releases : job' = [job EXCEPT !.stage = "validate", !.release = r]
    BY <1>3 DEF Prepare
  <2> QED
    BY <2>1, NoneAssumption DEF Stages
<1>4. CASE Validate \/ Quiesce \/ Activated \/ Verify \/ NotVerified \/ CommitUnknown \/ Recommitted
  BY <1>4 DEF Validate, Quiesce, Activated, Verify, NotVerified, CommitUnknown, Recommitted, Stage,
     Send, Stages
<1>5. CASE NotQuiesced \/ Committed \/ LookUp \/ RolledBack
  BY <1>5 DEF NotQuiesced, Committed, LookUp, RolledBack, Stage, Send, Stages
<1>6. CASE Reconcile \/ ReconcileCommitted
  BY <1>6 DEF Reconcile, ReconcileCommitted, Reconcilable, Stage, Send, Stages
<1>7. ASSUME NEW c \in Calls \cup Commits, CatalogCommits(c) \/ Lose(c)
      PROVE  JobTypes'
  BY <1>7 DEF CatalogCommits, Lose, GatewayOthers
<1>8. CASE UNCHANGED vars
  BY <1>8 DEF vars
<1> QED
  BY <1>1, <1>2, <1>3, <1>4, <1>5, <1>6, <1>7, <1>8, <1>9, <1>10, <1>11 DEF Next, JobSteps

LEMMA CallsTyped == ASSUME CallTypes, JobTypes, [Next]_vars PROVE CallTypes'
<1> USE DEF CallTypes, Calls, Commits
<1>1. job.stage \notin {"prepare", "ended"} => job.release \in Releases
  BY DEF JobTypes
<1>2. CASE GatewaySteps
  BY <1>2 DEF GatewaySteps, GatewayAccepts, GatewayDeclines, GatewayWorks, GatewayDone, GatewayFails,
     GatewayCrashes, GatewayStarts, Executed, Unexecuted
<1>3. CASE Quiesce \/ Verify \/ NotVerified \/ LookUp
  BY <1>1, <1>3 DEF Quiesce, Verify, NotVerified, LookUp, Send
<1>4. CASE Reconcile
  BY <1>4 DEF Reconcile, Reconcilable, Send, JobTypes
<1>5. CASE JobSteps /\ ~(Quiesce \/ Verify \/ NotVerified \/ LookUp \/ Reconcile)
  <2>1. UNCHANGED <<calls, answer>>
    BY <1>5 DEF JobSteps, Submit, Prepare, Validate, NotBegun, NotQuiesced, Activated,
       ActivationUnknown, Committed, CommitUnknown, LookUpFails, RolledBack, RollbackUnknown, Resume,
       NotResumed, OperationsCrash, ReconcileCommitted, Recommitted, Reconciled, NotReconciled
  <2> QED
    BY <2>1
<1>6. ASSUME NEW c \in Calls \cup Commits, CatalogCommits(c) \/ Lose(c)
      PROVE  CallTypes'
  BY <1>6 DEF CatalogCommits, Commit, NotCommit, Lose, Executed, Unexecuted
<1>7. CASE UNCHANGED vars
  BY <1>7 DEF vars
<1> QED
  BY <1>2, <1>3, <1>4, <1>5, <1>6, <1>7 DEF Next

LEMMA CatalogTyped == ASSUME CatalogTypes, JobTypes, [Next]_vars, TypeOK, Protocol PROVE CatalogTypes'
<1>1. CASE Prepare
  <2>1. PICK r \in Releases : releases' = [releases EXCEPT ![r] = Prepared(r)]
    BY <1>1 DEF Prepare
  <2>2. Prepared(r) \in [version : Nat, old : Nat, committed : BOOLEAN]
    BY DEF Prepared, CatalogTypes
  <2>3. catalog' = catalog
    BY <1>1 DEF Prepare, JobOthers
  <2> QED
    BY <2>1, <2>2, <2>3 DEF CatalogTypes
<1>2. ASSUME NEW c \in Commits, CatalogCommits(c), Commit(c)
      PROVE  CatalogTypes'
  <2> DEFINE x == c.release
  <2>1. /\ x \in Releases /\ releases[x].old = catalog.active /\ [action |-> "commit", release |-> x] \in calls
        /\ catalog' = [versions |-> Append(catalog.versions, x), active |-> releases[x].version]
        /\ releases' = [releases EXCEPT ![x].committed = TRUE]
    BY <1>2 DEF CatalogCommits, Commit, Committable, Commits
  <2>2. releases[x] # Unprepared
    BY <2>1 DEF Protocol, Fresh, Unused
  <2>3. releases[x].version = Len(catalog.versions) + 1
    BY <2>1, <2>2 DEF Protocol, Numbered
  <2>4. releases' \in [Releases -> [version : Nat, old : Nat, committed : BOOLEAN]]
    BY <2>1 DEF CatalogTypes
  <2>5. catalog'.versions \in Seq(Releases) /\ catalog'.active \in 0..Len(catalog'.versions)
    BY <2>1, <2>3 DEF CatalogTypes
  <2> QED
    BY <2>4, <2>5 DEF CatalogTypes
<1>3. CASE UNCHANGED <<catalog, releases>>
  BY <1>3 DEF CatalogTypes
<1>4. CASE GatewaySteps
  BY <1>3, <1>4 DEF GatewaySteps, GatewayAccepts, GatewayDeclines, GatewayWorks, GatewayDone, GatewayFails,
     GatewayCrashes, GatewayStarts, GatewayOthers
<1>5. CASE JobSteps /\ ~Prepare
  <2>1. UNCHANGED <<catalog, releases>>
    BY <1>5 DEF JobSteps, JobOthers, Submit, Validate, NotBegun, Quiesce, NotQuiesced, Activated,
       ActivationUnknown, Verify, NotVerified, Committed, CommitUnknown, LookUp, LookUpFails, RolledBack,
       RollbackUnknown, Resume, NotResumed, OperationsCrash, Reconcile, ReconcileCommitted, Recommitted,
       Reconciled, NotReconciled
  <2> QED
    BY <1>3, <2>1
<1>6. ASSUME NEW c \in Calls \cup Commits, (CatalogCommits(c) /\ NotCommit(c)) \/ Lose(c)
      PROVE  CatalogTypes'
  BY <1>3, <1>6 DEF NotCommit, Lose, GatewayOthers
<1>7. CASE UNCHANGED vars
  BY <1>3, <1>7 DEF vars
<1>8. ASSUME NEW c \in Commits, CatalogCommits(c) PROVE CatalogTypes'
  BY <1>2, <1>6, <1>8 DEF CatalogCommits
<1> QED
  BY <1>1, <1>4, <1>5, <1>6, <1>7, <1>8 DEF Next

LEMMA RestTyped == ASSUME RestTypes, [Next]_vars PROVE RestTypes'
<1> USE CrashesAssumption
<1>1. stray' \in BOOLEAN
  <2> USE DEF RestTypes
  <2>1. CASE GatewaySteps
    BY <2>1, Zenon DEF GatewaySteps, GatewayAccepts, GatewayDeclines, GatewayWorks, GatewayDone,
       GatewayFails, GatewayCrashes, GatewayStarts, Executed, Unexecuted
  <2>2. CASE JobSteps
    BY <2>2, Zenon DEF JobSteps, JobOthers, Submit, Prepare, Validate, NotBegun, Quiesce, NotQuiesced, Activated,
       ActivationUnknown, Verify, NotVerified, Committed, CommitUnknown, LookUp, LookUpFails, RolledBack,
       RollbackUnknown, Resume, NotResumed, OperationsCrash, Reconcile, ReconcileCommitted, Recommitted,
       Reconciled, NotReconciled
  <2>3. ASSUME NEW c \in Calls \cup Commits, CatalogCommits(c) \/ Lose(c) PROVE stray' \in BOOLEAN
    BY <2>3, Zenon DEF CatalogCommits, Commit, NotCommit, Lose, Executed, Unexecuted
  <2>4. CASE UNCHANGED vars
    BY <2>4, Zenon DEF vars
  <2> QED
    BY <2>1, <2>2, <2>3, <2>4 DEF Next
<1>2. blocked' \in BOOLEAN
  <2> USE DEF RestTypes
  <2>1. CASE GatewaySteps
    BY <2>1, Zenon DEF GatewaySteps, GatewayAccepts, GatewayDeclines, GatewayWorks, GatewayDone,
       GatewayFails, GatewayCrashes, GatewayStarts, GatewayOthers
  <2>2. CASE NotResumed \/ NotReconciled
    BY <2>2 DEF NotResumed, NotReconciled
  <2>3. CASE JobSteps /\ ~NotResumed /\ ~NotReconciled
    BY <2>3, Zenon DEF JobSteps, Submit, Prepare, Validate, NotBegun, Quiesce, NotQuiesced, Activated,
       ActivationUnknown, Verify, NotVerified, Committed, CommitUnknown, LookUp, LookUpFails, RolledBack,
       RollbackUnknown, Resume, OperationsCrash, Reconcile, ReconcileCommitted, Recommitted, Reconciled
  <2>4. ASSUME NEW c \in Calls \cup Commits, CatalogCommits(c) \/ Lose(c) PROVE blocked' \in BOOLEAN
    BY <2>4, Zenon DEF CatalogCommits, Lose, GatewayOthers
  <2>5. CASE UNCHANGED vars
    BY <2>5, Zenon DEF vars
  <2> QED
    BY <2>1, <2>2, <2>3, <2>4, <2>5 DEF Next
<1>3. crashes' = crashes \/ (crashes < MaxCrashes /\ crashes' = crashes + 1)
  <2>1. CASE GatewaySteps
    BY <2>1 DEF GatewaySteps, GatewayAccepts, GatewayDeclines, GatewayWorks, GatewayDone,
       GatewayFails, GatewayCrashes, GatewayStarts
  <2>2. CASE JobSteps
    BY <2>2 DEF JobSteps, JobOthers, Submit, Prepare, Validate, NotBegun, Quiesce, NotQuiesced, Activated,
       ActivationUnknown, Verify, NotVerified, Committed, CommitUnknown, LookUp, LookUpFails, RolledBack,
       RollbackUnknown, Resume, NotResumed, OperationsCrash, Reconcile, ReconcileCommitted, Recommitted,
       Reconciled, NotReconciled
  <2>3. ASSUME NEW c \in Calls \cup Commits, CatalogCommits(c) \/ Lose(c) PROVE crashes' = crashes
    BY <2>3 DEF CatalogCommits, Lose
  <2> QED
    BY <2>1, <2>2, <2>3 DEF Next, vars
<1>4. crashes' \in 0..MaxCrashes
  BY <1>3 DEF RestTypes
<1> QED
  BY <1>1, <1>2, <1>4 DEF RestTypes

----------------------------------------------------------------------------
(* The theorems *)

LEMMA JobInvStarts == ASSUME Init PROVE JobInv
<1>1. GatewayInv
  BY GatewayStarting DEF Init
<1>2. TypeOK
  <2>1. GatewayTypes
    BY <1>1 DEF GatewayInv
  <2>2. JobTypes /\ CallTypes
    BY DEF Init, JobTypes, CallTypes, Stages
  <2>3. CatalogTypes
    BY DEF Init, CatalogTypes, Unprepared
  <2>4. RestTypes
    <3>1. blocked \in BOOLEAN /\ stray \in BOOLEAN
      BY Zenon DEF Init
    <3>2. crashes \in 0..MaxCrashes
      BY CrashesAssumption DEF Init
    <3> QED
      BY <3>1, <3>2 DEF RestTypes
  <2> QED
    BY <2>1, <2>2, <2>3, <2>4, TypeParts
<1>3. RouterKept /\ StageFits
  BY DEF Init, GatewayInit, Down, NoOp, RouterKept, StageFits, Early
<1>4. Numbered
  BY DEF Init, Numbered, ActiveRelease, IsCommitted, Unprepared
<1>5. Fresh
  BY NoneAssumption DEF Init, GatewayInit, Blank, Down, Fresh, Unused, IsCommitted, Unprepared
<1>6. ActivationHeld /\ RollbackOnce /\ Acknowledged
  BY DEF Init, GatewayInit, ActivationHeld, RollbackOnce, Acknowledged, Sent, AtWork
<1>7. InStep
  BY DEF Init, GatewayInit, Down, InStep, Served, ActiveRelease, Early, Free, IsCommitted
<1>8. Activating /\ Undoable
  BY DEF Init, Activating, Undoable
<1> QED
  BY <1>1, <1>2, <1>3, <1>4, <1>5, <1>6, <1>7, <1>8 DEF JobInv, Protocol

LEMMA JobActionStep == ASSUME JobInv, JobSteps PROVE Protocol'
<1> USE DEF JobOthers, gateway, JobKeeps, Moves, Silent
<1>1. job = [status |-> job.status, stage |-> job.stage, release |-> job.release]
  BY DEF JobInv, TypeOK
<1>2. CASE ActivationUnknown \/ LookUpFails \/ RollbackUnknown \/ NotResumed
  BY <1>1, <1>2, HeldStep DEF ActivationUnknown, LookUpFails, RollbackUnknown, NotResumed, End
<1>3. CASE NotReconciled
  BY <1>1, <1>3, EndedStep DEF NotReconciled, Stage
<1>4. CASE OperationsCrash
  <2>1. CASE job.status = "running" \/ job.stage = "reconcile"
    <3>1. job.stage # "reconciled"
      BY <2>1 DEF JobInv, Protocol, StageFits
    <3> QED
      BY <1>1, <1>4, <2>1, <3>1, HeldStep DEF OperationsCrash, End
  <2>2. CASE ~(job.status = "running" \/ job.stage = "reconcile")
    <3>1. job.stage \in {"resume", "reconciled"}
      BY <1>4, <2>2, TypesFit DEF OperationsCrash, JobInv, Protocol, StageFits, Fits, JobFits, Stages, Early
    <3> QED
      BY <1>1, <1>4, <2>2, <3>1, EndedStep DEF OperationsCrash, End
  <2> QED
    BY <2>1, <2>2
<1>5. CASE LookUp
  <2>1. IsCommitted(job.release) <=> releases[job.release].committed
    BY <1>5, TypesFit DEF LookUp, IsCommitted, JobInv, Fits, JobFits
  <2>2. CASE releases[job.release].committed
    BY <1>1, <1>5, <2>1, <2>2, LookUpFoundStep DEF LookUp
  <2>3. CASE ~releases[job.release].committed
    BY <1>1, <1>5, <2>1, <2>3, LookUpMissingStep DEF LookUp, Send, Sends, Stage
  <2> QED
    BY <2>2, <2>3
<1>6. CASE Submit \/ Prepare \/ Validate \/ NotBegun \/ Quiesce \/ NotQuiesced \/ Activated \/ Verify
           \/ NotVerified \/ Committed \/ CommitUnknown \/ RolledBack \/ Resume
  BY <1>6, SubmitStep, PrepareStep, ValidateStep, NotBegunStep, QuiesceStep, NotQuiescedStep,
     ActivatedStep, VerifyStep, NotVerifiedStep, CommittedStep, CommitUnknownStep, RolledBackStep, ResumeStep
<1>7. CASE Reconcile \/ ReconcileCommitted \/ Recommitted \/ Reconciled
  BY <1>7, ReconcileStep, ReconcileCommittedStep, RecommittedStep, ReconciledStep
<1> QED
  BY <1>2, <1>3, <1>4, <1>5, <1>6, <1>7 DEF JobSteps

LEMMA GatewayActionStep == ASSUME JobInv, GatewaySteps PROVE Protocol'
  BY GatewayAcceptsStep, GatewayDeclinesStep, PersistsStep, StoresReleaseStep, GatewayDoneStep,
     GatewayFailsStep, GatewayCrashesStep, GatewayStartsStep DEF GatewaySteps, GatewayWorks

LEMMA StutterStep == ASSUME JobInv, UNCHANGED vars PROVE Protocol'
<1>1. UNCHANGED <<disk, memory, op, job, catalog, releases, calls, answer, stray>>
  BY DEF vars, gateway
<1>2. RouterKept' /\ Numbered' /\ StageFits' /\ Fresh'
  BY <1>1 DEF JobInv, Protocol, RouterKept, Numbered, StageFits, Fresh, ActiveRelease, IsCommitted, Unused
<1>3. ActivationHeld' /\ RollbackOnce'
  BY <1>1 DEF JobInv, Protocol, ActivationHeld, RollbackOnce, Sent, AtWork, IsCommitted
<1>4. Served' = Served /\ ActiveRelease' = ActiveRelease
  BY <1>1 DEF Served, ActiveRelease
<1>5. Acknowledged'
  BY <1>1, <1>4 DEF JobInv, Protocol, Acknowledged, IsCommitted
<1>6. Quiet' => InStep' /\ Activating' /\ Undoable'
  <2>1. Quiet' => Quiet
    BY <1>1 DEF Quiet, Awaited
  <2>2. InStep => InStep'
    BY <1>1, <1>4 DEF InStep, IsCommitted, Free
  <2>3. Activating => Activating'
    BY <1>1, <1>4 DEF Activating, AtWork, Between
  <2>4. Undoable => Undoable'
    BY <1>1, <1>4 DEF Undoable, AtWork, IsCommitted
  <2> QED
    BY <2>1, <2>2, <2>3, <2>4 DEF JobInv, Protocol
<1> QED
  BY <1>2, <1>3, <1>5, <1>6 DEF Protocol

LEMMA JobInvKept == ASSUME JobInv, [Next]_vars PROVE JobInv'
<1>1. GatewayInv'
  BY StepIsGatewayStep, GatewayStep DEF JobInv
<1>2. TypeOK'
  <2>1. JobTypes' /\ CatalogTypes' /\ CallTypes' /\ RestTypes'
    BY TypeParts, JobTyped, CatalogTyped, CallsTyped, RestTyped DEF JobInv
  <2> QED
    BY <1>1, <2>1 DEF GatewayInv, TypeOK, GatewayTypes, JobTypes, CatalogTypes, CallTypes, RestTypes
<1>3. Protocol'
  BY JobActionStep, GatewayActionStep, CatalogCommitsStep, LoseStep, StutterStep DEF Next
<1> QED
  BY <1>1, <1>2, <1>3 DEF JobInv

(* The inductive invariant of the publication of models.                     *)
THEOREM PublicationInvariance == Spec => []JobInv
  BY JobInvStarts, JobInvKept, PTL DEF Spec

(* Every variable of the publication of models keeps its type, the gateway's *)
(* lock is held by one call at most, and a job that waits for a call or      *)
(* works on a release has one (operations main.py, Workflows.run).           *)
THEOREM PublicationTypeCorrectness == Spec => []TypeOK
<1>1. JobInv => TypeOK
  BY DEF JobInv
<1> QED
  BY <1>1, PublicationInvariance, PTL

(* While an acknowledged release may still be rolled back, the gateway holds *)
(* the release the catalog calls active as the one to return to              *)
(* (model_gateway state.py, rollback; operations main.py:418-429).           *)
THEOREM ReleaseToReturnTo == Spec => []ReturnKept
<1>1. JobInv => ReturnKept
  <2> SUFFICES ASSUME JobInv, job.stage \in {"verify", "commit", "lookup"},
                      ~releases[job.release].committed, memory.up, ~stray
               PROVE  memory.active = job.release /\ memory.previous = ActiveRelease
    BY DEF ReturnKept
  <2>1. op = NoOp /\ Served.active = job.release
    BY DEF JobInv, Protocol, Acknowledged
  <2>2. Undoable
    BY <2>1 DEF Quiet, NoOp, JobInv, Protocol
  <2>3. Served.previous = ActiveRelease
    BY <2>2 DEF Undoable, IsCommitted
  <2> QED
    BY <2>1, <2>3 DEF Served
<1> QED
  BY <1>1, PublicationInvariance, PTL

(* When no models job is open, the gateway serves the release of the         *)
(* catalog's active version, through every crash, error and time-out, as     *)
(* long as no call is executed after its caller gave it up (operations       *)
(* main.py, Workflows.run and reconcile).                                    *)
THEOREM GatewayAndCatalogAgree == Spec => []Agreement
<1>1. JobInv => Agreement
  <2> SUFFICES ASSUME JobInv, Free, job.stage = "ended", memory.up, op = NoOp, ~stray
               PROVE  memory.router = ActiveRelease
    BY DEF Agreement
  <2>1. InStep
    BY DEF Quiet, NoOp, JobInv, Protocol
  <2>2. Served.active = ActiveRelease
    BY <2>1 DEF InStep
  <2>3. memory.router = memory.active
    BY DEF JobInv, Protocol, RouterKept, NoOp
  <2> QED
    BY <2>2, <2>3 DEF Served
<1> QED
  BY <1>1, PublicationInvariance, PTL

====
