---------------------------- MODULE Publication ----------------------------
(***************************************************************************)
(* The publication of one agent's configuration across three services: the *)
(* agent.apply workers of operations (JobStore), the version list of       *)
(* catalog_service, and the block, the staged version and the bundle cache *)
(* of sandbox_manager with the users' requests it admits.                  *)
(*                                                                         *)
(* A call to sandbox_manager waits for the agent's lock in a FIFO queue    *)
(* and is carried out whether or not its caller still waits: a timeout or  *)
(* a lost answer is an error at the caller only.  A commit sent to the     *)
(* catalog is likewise carried out at any later time, or never.            *)
(***************************************************************************)
EXTENDS JobStore, SequencesExt

CONSTANTS
  Contents,     \* the drafts an administrator publishes
  Clients,      \* user requests in flight at a time
  MaxFaults,    \* bound: lost or late calls and crashes of sandbox_manager
  MaxReconciles \* bound: reconcile requests

ASSUME OneAgent == \E a \in Agents : Agents = {a}
ASSUME AgentApplyOnly == Kinds = {"agent.apply"}
ASSUME JobsFinite == IsFiniteSet(Jobs)

NoContent == "no content"
ASSUME ContentsAssumption == NoContent \notin Contents

Callers == Workers \cup Jobs   \* a reconcile() calls in the name of its job
Nobody == "nobody"             \* the caller of a command that stopped waiting
ASSUME CallersAssumption == Nobody \notin Callers /\ Workers \cap Jobs = {}

Numbers == 1..(Cardinality(Jobs) + 1)
Version(n, c) == [n |-> n, c |-> c]
NoVersion == Version(0, NoContent)
NoRelease == [n |-> 0, c |-> NoContent, old |-> 0, prev |-> 0]

VARIABLES
  release,    \* catalog: the prepared release of each job [n, c, old], and the number
              \* of the bundle its worker read first (prev, run()'s "previous")
  versions,   \* catalog: contents of the committed versions; the last is active
  committed,  \* catalog: jobs whose release is marked committed
  commits,    \* catalog: releases whose commit call is under way
  cached,     \* sandbox_manager: versions/<n>/<agent>, never rewritten
  blocked,    \* sandbox_manager: the agent is in admission.blocked and blocks
  override,   \* sandbox_manager: staged version in applied.json, 0 if none
  verified,   \* sandbox_manager: the agent's row of the verified table, 0 if none
  queue,      \* sandbox_manager: commands at the agent's lock, the first holds it
  draining,   \* sandbox_manager: the first command blocked the agent and drains
  serving,    \* the version each client's request runs on
  reply,      \* the answer each caller has received
  evidence,   \* reconcile(): the evidence call a job waits for
  faults, reconciles, \* bounds
  proved      \* history: releases that were verified while they were staged

catalog == <<release, versions, committed, commits>>
sandbox == <<cached, blocked, override, verified, draining>>
bounds  == <<faults, reconciles>>
rest    == <<evidence, bounds, proved>>
pubVars == <<vars, catalog, sandbox, queue, serving, reply, rest>>

ActiveNumber == Len(versions)
ActiveVersion == Version(ActiveNumber, versions[ActiveNumber])
CommittedVersions == {Version(n, versions[n]) : n \in DOMAIN versions}
Staged == Version(override, cached[override])

(* install_bundle: a number's directory is written once; the same number   *)
(* with other content is refused.                                          *)
Installable(v) == cached[v.n] \in {NoContent, v.c}
Install(v) == cached' = [cached EXCEPT ![v.n] = v.c]

(* RemoteCatalog.load: the staged version, or the catalog's active one,    *)
(* which every load installs.                                              *)
Loadable == override # 0 \/ Installable(ActiveVersion)
Loaded == IF override # 0 THEN Staged ELSE ActiveVersion
Load == IF Loadable THEN Install(Loaded) ELSE UNCHANGED cached

PubInit ==
  /\ Init
  /\ release = [j \in Jobs |-> NoRelease]
  /\ \E c \in Contents : versions = <<c>>
  /\ committed = {} /\ commits = {}
  /\ cached = [n \in Numbers |-> NoContent]
  /\ blocked = FALSE /\ override = 0 /\ verified = 0
  /\ queue = <<>> /\ draining = FALSE
  /\ serving = [c \in Clients |-> NoVersion]
  /\ reply = [x \in Callers |-> "none"]
  /\ evidence = [j \in Jobs |-> "none"]
  /\ faults = 0 /\ reconciles = 0 /\ proved = {}

----------------------------------------------------------------------------
(* operations: the workers *)

(* The stages whose call is a command at the agent's lock. *)
Commands == {"quiesce", "apply", "verify", "compensate", "recheck", "resume"}

Command(x, j, op) == [by |-> x, job |-> j, op |-> op]
Orphaned(X) == [i \in DOMAIN queue |->
                 IF queue[i].by \in X THEN [queue[i] EXCEPT !.by = Nobody] ELSE queue[i]]

(* The worker makes the call of the stage it has just entered. *)
Send(w) ==
  LET pc == worker'[w].pc
      j  == worker'[w].job
  IN /\ queue' = IF pc \in Commands THEN Append(Orphaned({w}), Command(w, j, pc))
                                    ELSE Orphaned({w})
     /\ commits' = IF pc = "commit" THEN commits \cup {j} ELSE commits
     /\ reply' = [reply EXCEPT ![w] = IF pc \in Commands \cup {"commit"} THEN "wait" ELSE "none"]

(* Mutant: the looked-up release is taken for committed unread. *)
InspectedUnread(j) == TRUE
Inspected(j) == j \in committed

(* What the answer of each stage's call says when it is no error. *)
Answered(w) ==
  LET pc == worker[w].pc IN
  CASE pc \in Commands \cup {"commit"} -> reply[w] = "ok"
    [] pc = "inspect"                  -> Inspected(worker[w].job)
    [] OTHER                           -> TRUE

(* The worker reads the active bundle and then calls releases/prepare: the *)
(* next number, the draft, and the version the commit will compare the     *)
(* active one with.  A commit may fall between the two reads.              *)
Prepare(w) ==
  LET j == worker[w].job IN
  CASE worker'[w].pc = "prepare"  -> release' = [release EXCEPT ![j].prev = ActiveNumber]
    [] worker'[w].pc = "validate" ->
         \E c \in Contents, p \in release[j].prev .. ActiveNumber :
           release' = [release EXCEPT ![j] =
                         [n |-> ActiveNumber + 1, c |-> c, old |-> ActiveNumber, prev |-> p]]
    [] OTHER -> UNCHANGED release

WorkerAnswered(w) ==
  /\ w \notin cancelling /\ Answered(w)
  /\ OnAnswer(w)
  /\ Prepare(w) /\ Send(w)
  /\ UNCHANGED <<versions, committed, sandbox, serving, rest>>

(* An agent that was published before always has a bundle to compensate    *)
(* with; an inspection that fails leaves the commit unknown.               *)
WorkerFailed(w) ==
  LET pc == worker[w].pc IN
  /\ w \notin cancelling
  /\ pc \in Commands \cup {"commit"} => reply[w] = "err"
  /\ OnError(w)
  /\ pc = "verify" => Compensate(w)
  /\ pc = "inspect" => Give(w) \/ (Compensate(w) /\ ~Inspected(worker[w].job))
  /\ Send(w)
  /\ UNCHANGED <<release, versions, committed, sandbox, serving, rest>>

Fault == faults < MaxFaults /\ faults' = faults + 1

(* The caller's timeout expires or the answer is lost; the command stays.  *)
TimeOut(x) ==
  /\ reply[x] = "wait" /\ Fault
  /\ reply' = [reply EXCEPT ![x] = "err"]
  /\ queue' = Orphaned({x})
  /\ UNCHANGED <<vars, catalog, sandbox, serving, evidence, reconciles, proved>>

(* The command never reaches sandbox_manager, or the commit the catalog.   *)
Lose(x) ==
  /\ reply[x] = "wait" /\ Fault
  /\ reply' = [reply EXCEPT ![x] = "err"]
  /\ \/ /\ \E i \in DOMAIN queue :
             queue[i].by = x /\ ~(i = 1 /\ draining) /\ queue' = RemoveAt(queue, i)
        /\ UNCHANGED commits
     \/ /\ x \in Workers /\ worker[x].pc = "commit"
        /\ commits' = commits \ {worker[x].job}
        /\ UNCHANGED queue
  /\ UNCHANGED <<vars, release, versions, committed, sandbox, serving, evidence,
                 reconciles, proved>>

(* Stop, restart and crash of operations: its calls lose their callers.    *)
Operations ==
  \/ /\ \E j \in Jobs : Submit(j) \/ Cancel(j)
     /\ UNCHANGED <<queue, commits, reply, evidence>>
  \/ Stop /\ UNCHANGED <<queue, commits, reply, evidence>>
  \/ \E w \in Workers : DeliverCancel(w) /\ Send(w) /\ UNCHANGED evidence
  \/ /\ Restart \/ Crash
     /\ queue' = Orphaned(Callers)
     /\ reply' = [x \in Callers |-> "none"]
     /\ evidence' = [j \in Jobs |-> "none"]
     /\ UNCHANGED commits

OperationsStep ==
  /\ Operations
  /\ UNCHANGED <<release, versions, committed, sandbox, serving, bounds, proved>>

----------------------------------------------------------------------------
(* catalog_service: the conditional commit *)

CommitAccepted(j) == j \in committed \/ ActiveNumber = release[j].old
(* Mutant: a commit that is repeated appends the version again. *)
CommitRepeated(j) ==
  IF CommitAccepted(j)
    THEN versions' = Append(versions, release[j].c) /\ committed' = committed \cup {j}
    ELSE UNCHANGED <<versions, committed>>
Commit(j) ==
  IF j \notin committed /\ CommitAccepted(j)
    THEN versions' = Append(versions, release[j].c) /\ committed' = committed \cup {j}
    ELSE UNCHANGED <<versions, committed>>

CommitRun(j) ==
  /\ j \in commits /\ commits' = commits \ {j}
  /\ Commit(j)
  /\ reply' = [x \in Callers |->
                IF x \in Workers /\ worker[x] = [job |-> j, pc |-> "commit"] /\ reply[x] = "wait"
                  THEN IF CommitAccepted(j) THEN "ok" ELSE "err"
                  ELSE reply[x]]
  /\ UNCHANGED <<vars, release, sandbox, queue, serving, rest>>

----------------------------------------------------------------------------
(* sandbox_manager: the command that holds the agent's lock *)

First == queue[1]
Answer(a) ==
  /\ queue' = Tail(queue)
  /\ reply' = IF First.by = Nobody THEN reply ELSE [reply EXCEPT ![First.by] = a]

Idle == \A c \in Clients : serving[c] = NoVersion
(* Mutant: the drain returns without waiting. *)
DrainSkipped == TRUE
Drained == Idle

(* quiesce and apply persist the block first, then wait for the requests.  *)
Block ==
  /\ queue # <<>> /\ ~draining
  /\ First.op \in {"quiesce", "apply", "compensate"}
  /\ blocked' = TRUE /\ draining' = TRUE
  /\ UNCHANGED <<vars, catalog, cached, override, verified, queue, serving, reply, rest>>

DrainTimeOut ==
  /\ draining /\ draining' = FALSE
  /\ Answer("err")
  /\ UNCHANGED <<vars, catalog, cached, blocked, override, verified, serving, rest>>

Quiesced ==
  /\ draining /\ Drained /\ First.op = "quiesce"
  /\ draining' = FALSE
  /\ Answer("ok")
  /\ UNCHANGED <<vars, catalog, cached, blocked, override, verified, serving, rest>>

(* The bundle of an apply; a compensation applies the previous one. *)
Bundle(q) ==
  LET r == release[q.job] IN
  IF q.op = "apply" THEN Version(r.n, r.c) ELSE Version(r.prev, versions[r.prev])

(* apply: forget the verification, install and stage the bundle, remove    *)
(* the agent's containers, which may fail half-way.                        *)
Apply ==
  LET v == Bundle(First) IN
  /\ draining /\ Drained /\ First.op \in {"apply", "compensate"}
  /\ draining' = FALSE /\ verified' = 0
  /\ IF Installable(v)
       THEN /\ Install(v) /\ override' = v.n
            /\ \E a \in {"ok", "err"} : Answer(a)
       ELSE Answer("err") /\ UNCHANGED <<cached, override>>
  /\ UNCHANGED <<vars, catalog, blocked, serving, rest>>

(* verify: start the agent's sandboxes on the loaded version. *)
Verify ==
  /\ queue # <<>> /\ First.op \in {"verify", "recheck"}
  /\ \/ /\ Loadable /\ Answer("ok")
        /\ verified' = Loaded.n /\ Load
        /\ proved' = IF Loaded = Version(release[First.job].n, release[First.job].c)
                       THEN proved \cup {First.job} ELSE proved
     \/ Answer("err") /\ Load /\ UNCHANGED <<verified, proved>>
  /\ UNCHANGED <<vars, catalog, blocked, override, draining, serving, evidence, bounds>>

(* resume: a staged version is unstaged only when it is the catalog's      *)
(* active one, which is installed to compare them; otherwise the block     *)
(* stays.                                                                  *)
Resumable == override = 0 \/ (Installable(ActiveVersion) /\ override = ActiveNumber)
(* Mutant: the block is lifted before the staged version is looked at. *)
StillBlockedFirst(ok) == FALSE
StillBlocked(ok) == blocked /\ ~ok
Resume ==
  /\ queue # <<>> /\ First.op = "resume"
  /\ blocked' = StillBlocked(Resumable)
  /\ override' = IF Resumable THEN 0 ELSE override
  /\ Answer(IF Resumable THEN "ok" ELSE "err")
  /\ IF override # 0 /\ Installable(ActiveVersion) THEN Install(ActiveVersion)
                                                   ELSE UNCHANGED cached
  /\ UNCHANGED <<vars, catalog, verified, draining, serving, rest>>

SandboxStep == Block \/ DrainTimeOut \/ Quiesced \/ Apply \/ Verify \/ Resume

(* A crash ends the requests and the commands; the block, the staged       *)
(* version, the cache and the verification are on disk.                    *)
SandboxCrash ==
  /\ Fault
  /\ queue' = <<>> /\ draining' = FALSE
  /\ serving' = [c \in Clients |-> NoVersion]
  /\ reply' = [x \in Callers |->
                IF \E i \in DOMAIN queue : queue[i].by = x THEN "err" ELSE reply[x]]
  /\ UNCHANGED <<vars, catalog, cached, blocked, override, verified, evidence, reconciles,
                 proved>>

----------------------------------------------------------------------------
(* The users' requests *)

(* operations admits no request while a job of the agent awaits recovery. *)
AdmissionOpen == \A j \in Jobs : status[j] \notin Held

(* Mutant: acquire() does not look at the block. *)
AdmittedBlocked == AdmissionOpen
Admitted == ~blocked /\ AdmissionOpen

(* A mutating request, and the execution it starts in the session. *)
Admit(c) ==
  /\ serving[c] = NoVersion
  /\ Admitted /\ Loadable
  /\ serving' = [serving EXCEPT ![c] = Loaded]
  /\ Load
  /\ UNCHANGED <<vars, catalog, blocked, override, verified, draining, queue, reply, rest>>

EndRequest(c) ==
  /\ serving[c] # NoVersion
  /\ serving' = [serving EXCEPT ![c] = NoVersion]
  /\ UNCHANGED <<vars, catalog, sandbox, queue, reply, rest>>

----------------------------------------------------------------------------
(* operations: reconcile() *)

RecBegin(j) ==
  /\ ReconcileBegin(j)
  /\ reconciles < MaxReconciles /\ reconciles' = reconciles + 1
  /\ evidence' = [evidence EXCEPT ![j] = "check"]
  /\ UNCHANGED <<catalog, sandbox, queue, serving, reply, faults, proved>>

(* The release was committed, or application-status shows its number as    *)
(* the loaded and verified one.                                            *)
Shown(j) == Loadable /\ verified = Loaded.n /\ verified = release[j].n

CallResume(j) ==
  /\ evidence' = [evidence EXCEPT ![j] = "resume"]
  /\ queue' = Append(queue, Command(j, j, "resume"))
  /\ reply' = [reply EXCEPT ![j] = "wait"]
  /\ UNCHANGED vars

RecFail(j) ==
  /\ ReconcileFailed(j)
  /\ evidence' = [evidence EXCEPT ![j] = "none"]
  /\ reply' = [reply EXCEPT ![j] = "none"]
  /\ queue' = Orphaned({j})

RecNext(j, e) ==
  /\ evidence' = [evidence EXCEPT ![j] = e]
  /\ UNCHANGED <<vars, queue, reply>>

RecCheck(j) ==
  /\ evidence[j] = "check"
  /\ \/ j \in committed /\ CallResume(j)
     \/ j \notin committed /\ RecNext(j, "status")
     \/ RecFail(j)
  /\ UNCHANGED <<catalog, sandbox, serving, bounds, proved>>

RecObserve(j) ==
  /\ evidence[j] = "status"
  /\ (Shown(j) /\ RecNext(j, "commit")) \/ RecFail(j)
  /\ Load
  /\ UNCHANGED <<catalog, blocked, override, verified, draining, serving, bounds, proved>>

(* The commit of a reconcile; its answer may be lost after it took effect. *)
RecCommit(j) ==
  /\ evidence[j] = "commit"
  /\ \/ Commit(j) /\ ((CommitAccepted(j) /\ CallResume(j)) \/ RecFail(j))
     \/ UNCHANGED <<versions, committed>> /\ RecFail(j)
  /\ UNCHANGED <<release, commits, sandbox, serving, bounds, proved>>

RecEnd(j) ==
  /\ evidence[j] = "resume"
  /\ \/ reply[j] = "err" /\ RecFail(j)
     \/ /\ reply[j] = "ok" /\ ReconcileDone(j)
        /\ evidence' = [evidence EXCEPT ![j] = "none"]
        /\ reply' = [reply EXCEPT ![j] = "none"]
        /\ UNCHANGED queue
  /\ UNCHANGED <<catalog, sandbox, serving, bounds, proved>>

Reconcile(j) == RecCheck(j) \/ RecObserve(j) \/ RecCommit(j) \/ RecEnd(j)

PubNext ==
  \/ OperationsStep \/ SandboxStep \/ SandboxCrash
  \/ \E w \in Workers : WorkerAnswered(w) \/ WorkerFailed(w)
  \/ \E x \in Callers : TimeOut(x) \/ Lose(x)
  \/ \E j \in Jobs : CommitRun(j) \/ RecBegin(j) \/ Reconcile(j)
  \/ \E c \in Clients : Admit(c) \/ EndRequest(c)

PubSpec == PubInit /\ [][PubNext]_pubVars

(* A command at the lock and a commit that arrived are carried out, tasks  *)
(* and cancellations run, a stopped service restarts.  No client and no    *)
(* administrator is obliged to act.                                        *)
PubFairness ==
  /\ \A w \in Workers : WF_pubVars(WorkerAnswered(w) \/ WorkerFailed(w))
  /\ \A j \in Jobs : WF_pubVars(Reconcile(j)) /\ WF_pubVars(CommitRun(j))
  /\ WF_pubVars(SandboxStep)
  /\ WF_pubVars(OperationsStep /\ (Restart \/ \E w \in Workers : DeliverCancel(w)))

PubFairSpec == PubSpec /\ PubFairness

----------------------------------------------------------------------------
(* Properties *)

(* Type correctness of the catalog's and the sandbox manager's state.      *)
PubTypeOK ==
  /\ TypeOK
  /\ release \in [Jobs -> [n : Numbers, c : Contents, old : Numbers, prev : Numbers]
                          \cup {[NoRelease EXCEPT !.prev = n] : n \in Numbers \cup {0}}]
  /\ versions \in Seq(Contents) /\ Len(versions) \in Numbers
  /\ committed \subseteq Jobs /\ commits \subseteq Jobs
  /\ cached \in [Numbers -> Contents \cup {NoContent}]
  /\ blocked \in BOOLEAN /\ draining \in BOOLEAN
  /\ override \in Numbers \cup {0} /\ verified \in Numbers \cup {0}
  /\ queue \in Seq([by : Callers \cup {Nobody}, job : Jobs, op : Commands])
  /\ serving \in [Clients -> [n : Numbers, c : Contents] \cup {NoVersion}]
  /\ reply \in [Callers -> {"none", "wait", "ok", "err"}]
  /\ evidence \in [Jobs -> {"none", "check", "status", "commit", "resume"}]
  /\ faults \in Nat /\ reconciles \in Nat /\ proved \subseteq Jobs

(* No request is ever served by a version the catalog has not committed,   *)
(* whichever calls were lost, late or repeated and whoever crashed.        *)
ServedCommitted == \A c \in Clients : serving[c] # NoVersion => serving[c] \in CommittedVersions

(* "Block and drain first, then apply and verify; only after the catalog   *)
(* commit is the temporary version released" (sandbox_manager/docs): as    *)
(* long as a version is staged the agent is blocked, through late and lost *)
(* resumes, other jobs' commands, compensations and crashes.               *)
StagedBehindBlock == override # 0 => blocked

(* As long as a version is staged nobody's request runs: those admitted    *)
(* before the block have ended, and none is admitted behind it.            *)
StagedUnderNobody == override # 0 => Idle

(* A publication that succeeded, by itself or by reconciliation, is the    *)
(* catalog's: its release is committed under its own number and content.   *)
SucceededCommitted ==
  \A j \in Jobs : status[j] = "succeeded" =>
    j \in committed /\ Version(release[j].n, release[j].c) \in CommittedVersions

(* A block of the agent is lifted or somebody is left to lift it: a job    *)
(* that is still executing or that an administrator must reconcile.        *)
BlockOwned == blocked ~> (~blocked \/ \E j \in Jobs : status[j] \in Executing \cup Held)

----------------------------------------------------------------------------
(* Sentences of the documentation that do not hold (README, Findings).     *)

(* "A service restart enters needs_recovery" (operations/docs): when       *)
(* nothing of a publication is left running and the agent is still         *)
(* blocked, some row says that it has to be recovered.                     *)
BlockRecorded ==
  blocked /\ queue = <<>> /\ phase = "up" /\ Free = Workers
    => \E j \in Jobs : status[j] \in Held

(* "Only when the original release version is found verified ... is the    *)
(* commit made up" (operations/docs): every release the catalog committed  *)
(* was itself verified while it was staged.                                *)
CommittedProved == committed \subseteq proved

(* "An HTTP timeout cannot conclude that the remote did not execute"       *)
(* (contracts/README.md): a job reported failed has not changed the        *)
(* catalog's active version.                                               *)
FailedNotCommitted == \A j \in Jobs : status[j] = "failed" => j \notin committed

(* "catalog prepares an immutable version" (contracts/README.md): the      *)
(* number a release is applied under is not another release's directory.   *)
ApplyInstallable == draining /\ First.op = "apply" => Installable(Bundle(First))
=============================================================================
