----------------------------- MODULE AgentFiles -----------------------------
(***************************************************************************)
(* The files of one agent: what file_service does to them (main.py,        *)
(* files.py, workspace.py, coordination.py) while operations deletes the   *)
(* agent (Workflows.run, retry_deletion) and the containers of             *)
(* sandbox_manager write the same directories without asking anybody.      *)
(* A file is a name and a size; its time tells writes apart.               *)
(***************************************************************************)
EXTENDS Naturals, FiniteSets, Functions

CONSTANTS
  Users, Names,
  Requests,   \* uploads, and allocations, listings or downloads
  Quota,      \* max_user_workspace_gb
  MaxSize,    \* max_upload_mb
  MaxExecutions, \* bound: a deletion and its confirmed retries
  MaxWrites,  \* bound: writes of containers
  MaxCrashes  \* bound: restarts of file_service and of operations

(* Who holds the guard, beside the requests. *)
Nobody == "nobody"
TheCleanup == "cleanup"

ASSUME AgentFilesAssumption ==
  /\ Quota \in Nat /\ MaxSize \in Nat
  /\ MaxExecutions \in Nat /\ MaxWrites \in Nat /\ MaxCrashes \in Nat
  /\ IsFiniteSet(Names) /\ IsFiniteSet(Requests)
  /\ {Nobody, TheCleanup} \cap Requests = {}

Executions == 1..MaxExecutions

VARIABLES
  job,        \* operations: the status of the deletion
  worker,     \* where its task waits
  execution,  \* the number of its execution_id
  impact,     \* the fingerprint read for the preview
  expected,   \* the fingerprint each execution was submitted with
  blocked, running, \* sandbox_manager: the block, the users whose container runs
  guard,      \* file_service: who holds the agent's guard
  request,    \* uploads and allocations: where they wait
  cleanup,    \* the cleanup call of each execution: where it waits
  receipt,    \* the cleanups journal
  doc, left,  \* workspace: sizes of the files, and of the temporary files of requests
              \* that were interrupted
  state,      \* state directory: is there an OpenCode database
  stamp,      \* the time of the last write
  directory,  \* do a user's directories exist
  writes, crashes \* bounds

operations == <<job, worker, execution, impact, expected>>
sandbox    == <<blocked, running>>
service    == <<guard, request, cleanup, receipt>>
disk       == <<doc, left, state, stamp, directory>>
vars == <<operations, sandbox, service, disk, writes, crashes>>

NoImpact == [u \in Users |-> <<"none">>]
Idle == [pc |-> "idle"]
NoFiles == [n \in Names |-> 0]
NoneLeft == [r \in Requests |-> 0]

(* The statuses of a deletion that admission looks for. *)
Pending == job \in {"queued", "applying", "needs_recovery"}

Used(u) == SumFunction(doc[u]) + SumFunction(left[u])
Empty(u) == doc[u] = NoFiles /\ left[u] = NoneLeft /\ ~state[u]

(* agent_impact(): every regular file with its size and time. *)
Impact == [u \in Users |-> IF Empty(u) THEN <<>> ELSE <<doc[u], left[u], state[u], stamp[u]>>]

Init ==
  /\ job = "none" /\ worker = "none" /\ execution = 0
  /\ impact = NoImpact /\ expected = [e \in Executions |-> NoImpact]
  /\ blocked = FALSE /\ running = {}
  /\ guard = Nobody
  /\ request = [r \in Requests |-> Idle]
  /\ cleanup = [e \in Executions |-> "none"] /\ receipt = [e \in Executions |-> "none"]
  /\ doc = [u \in Users |-> NoFiles] /\ left = [u \in Users |-> NoneLeft]
  /\ state = [u \in Users |-> FALSE] /\ stamp = [u \in Users |-> 0]
  /\ directory = [u \in Users |-> FALSE]
  /\ writes = 0 /\ crashes = 0

----------------------------------------------------------------------------
(* file_service serves uploads, allocations, listings and downloads *)

Wait(r, pc) == request' = [request EXCEPT ![r].pc = pc]
Answer(r, outcome) == request' = [request EXCEPT ![r] = [pc |-> outcome]]
Written(u) == stamp' = [stamp EXCEPT ![u] = @ + 1]

Send(r) ==
  /\ request[r] = Idle
  /\ \E u \in Users :
       \/ request' = [request EXCEPT ![r] = [pc |-> "sent", kind |-> "allocate", user |-> u]]
       \/ \E n \in Names, s \in 1..MaxSize :
            request' = [request EXCEPT ![r] = [pc |-> "sent", kind |-> "upload", user |-> u,
                                               name |-> n, size |-> s, base |-> 0, written |-> 0]]
  /\ UNCHANGED <<operations, sandbox, guard, cleanup, receipt, disk, writes, crashes>>

(* guard(), then admission(). *)
Enter(r) ==
  /\ request[r].pc = "sent" /\ guard = Nobody
  /\ guard' = r /\ Wait(r, "asking")
  /\ UNCHANGED <<operations, sandbox, cleanup, receipt, disk, writes, crashes>>

(* Mutant: the guard is not taken. *)
AsksUnguarded(r) == request[r].pc \in {"sent", "asking"}
Asks(r) == request[r].pc = "asking"

(* file_admission(): asked while the guard is held, and answered before    *)
(* the request goes on; it may also not be answered.                       *)
Asked(r) ==
  /\ Asks(r) /\ ~Pending
  /\ Wait(r, "admitted")
  /\ UNCHANGED <<operations, sandbox, guard, cleanup, receipt, disk, writes, crashes>>

Holders == {"asking", "admitted", "measuring", "writing"}
Freed(r) == guard' = IF guard = r THEN Nobody ELSE guard

(* Mutant: a request that fails does not free the guard. *)
FreedNever(r) == guard' = guard
FreedOnError(r) == Freed(r)

(* Refused, unavailable, a wrong path, or a disk error: the temporary file *)
(* is removed.                                                             *)
Fails(r) ==
  /\ request[r].pc \in Holders
  /\ Answer(r, "error") /\ FreedOnError(r)
  /\ UNCHANGED <<operations, sandbox, cleanup, receipt, disk, writes, crashes>>

(* ensure_user_layout() *)
Layout(u) == directory' = [directory EXCEPT ![u] = TRUE]

(* An allocation, a listing or a download creates the directories, too. *)
OpenScope(r) ==
  LET q == request[r] IN
  /\ q.pc = "admitted" /\ q.kind = "allocate"
  /\ Layout(q.user)
  /\ Answer(r, "ok") /\ Freed(r)
  /\ UNCHANGED <<operations, sandbox, cleanup, receipt, doc, left, state, stamp, writes, crashes>>

(* An upload also opens the parent of its target and reads the size of the *)
(* file it replaces.                                                       *)
OpenTarget(r) ==
  LET q == request[r] IN
  /\ q.pc = "admitted" /\ q.kind = "upload"
  /\ Layout(q.user)
  /\ request' = [request EXCEPT ![r].pc = "measuring", ![r].base = doc[q.user][q.name]]
  /\ UNCHANGED <<operations, sandbox, guard, cleanup, receipt, doc, left, state, stamp,
                 writes, crashes>>

(* _tree_size(), less the file that is replaced. *)
Measure(r) ==
  LET q == request[r] IN
  /\ q.pc = "measuring"
  /\ request' = [request EXCEPT ![r].pc = "writing", ![r].base = Used(q.user) - @]
  /\ UNCHANGED <<operations, sandbox, guard, cleanup, receipt, disk, writes, crashes>>

(* Mutant: the quota is looked at before the chunk is added. *)
FitsBefore(q) == q.written <= MaxSize /\ q.base + q.written <= Quota
Fits(q) == q.written + 1 <= MaxSize /\ q.base + q.written + 1 <= Quota

(* One chunk; one that does not fit fails the upload. *)
Write(r) ==
  LET q == request[r] IN
  /\ q.pc = "writing" /\ q.written < q.size
  /\ IF Fits(q) THEN request' = [request EXCEPT ![r].written = @ + 1] /\ UNCHANGED guard
                ELSE Answer(r, "error") /\ Freed(r)
  /\ UNCHANGED <<operations, sandbox, cleanup, receipt, disk, writes, crashes>>

(* os.replace() *)
Replace(r) ==
  LET q == request[r] IN
  /\ q.pc = "writing" /\ q.written = q.size
  /\ doc' = [doc EXCEPT ![q.user][q.name] = q.size] /\ Written(q.user)
  /\ Answer(r, "ok") /\ Freed(r)
  /\ UNCHANGED <<operations, sandbox, cleanup, receipt, left, state, directory, writes, crashes>>

----------------------------------------------------------------------------
(* sandbox_manager: containers of the agent's users *)

(* acquire(): admitted neither while a block stands nor while a deletion   *)
(* is pending, nor once the agent is deleted; the directories are there.   *)
Acquire(u) ==
  /\ u \notin running /\ directory[u]
  /\ ~blocked /\ ~Pending /\ job # "succeeded"
  /\ running' = running \cup {u}
  /\ UNCHANGED <<operations, blocked, service, disk, writes, crashes>>

(* The container writes its session database, or a user's file again. *)
ContainerWrites(u) ==
  /\ u \in running /\ directory[u] /\ writes < MaxWrites
  /\ state' = [state EXCEPT ![u] = TRUE] /\ Written(u)
  /\ writes' = writes + 1
  /\ UNCHANGED <<operations, sandbox, service, doc, left, directory, crashes>>

----------------------------------------------------------------------------
(* operations deletes the agent *)

(* deletion_impact() of file_service waits for the guard. *)
Preview ==
  /\ job \notin {"queued", "applying", "succeeded"} /\ execution < MaxExecutions
  /\ guard = Nobody /\ impact = NoImpact
  /\ impact' = Impact
  /\ UNCHANGED <<job, worker, execution, expected, sandbox, service, disk, writes, crashes>>

(* submit() and retry_deletion(): the fingerprint was read before, and     *)
(* another execution_id is taken.                                          *)
Submit ==
  /\ impact # NoImpact
  /\ job' = "queued" /\ worker' = "queued"
  /\ execution' = execution + 1
  /\ expected' = [expected EXCEPT ![execution + 1] = impact] /\ impact' = NoImpact
  /\ UNCHANGED <<sandbox, service, disk, writes, crashes>>

Begin ==
  /\ worker = "queued"
  /\ job' = "applying" /\ worker' = "sandbox"
  /\ UNCHANGED <<execution, impact, expected, sandbox, service, disk, writes, crashes>>

(* cancel(), before the task begins. *)
Cancel ==
  /\ worker = "queued"
  /\ job' = "cancelled" /\ worker' = "none"
  /\ UNCHANGED <<execution, impact, expected, sandbox, service, disk, writes, crashes>>

(* The command "delete" blocks the agent, drains it and removes its        *)
(* containers.                                                             *)
DeleteSandboxes ==
  /\ worker = "sandbox"
  /\ blocked' = TRUE /\ running' = {}
  /\ worker' = "files"
  /\ UNCHANGED <<job, execution, impact, expected, service, disk, writes, crashes>>

CleanFiles ==
  /\ worker = "files"
  /\ cleanup' = [cleanup EXCEPT ![execution] = "sent"]
  /\ worker' = "cleaning"
  /\ UNCHANGED <<job, execution, impact, expected, sandbox, guard, request, receipt, disk,
                 writes, crashes>>

FilesCleaned ==
  /\ worker = "cleaning" /\ cleanup[execution] = "ok"
  /\ worker' = "catalog"
  /\ UNCHANGED <<job, execution, impact, expected, sandbox, service, disk, writes, crashes>>

(* The tombstone of the catalog. *)
Delete ==
  /\ worker = "catalog"
  /\ job' = "succeeded" /\ worker' = "none"
  /\ UNCHANGED <<execution, impact, expected, sandbox, service, disk, writes, crashes>>

(* A call is refused, or not answered in time: it goes on without a caller *)
(* (the sandbox command may have blocked the agent already).               *)
WorkerFails ==
  /\ worker \in {"sandbox", "cleaning", "catalog"}
  /\ job' = "needs_recovery" /\ worker' = "none"
  /\ blocked' \in {blocked, worker = "sandbox" \/ blocked}
  /\ running' \in IF worker = "sandbox" /\ blocked' THEN SUBSET running ELSE {running}
  /\ UNCHANGED <<execution, impact, expected, service, disk, writes, crashes>>

----------------------------------------------------------------------------
(* file_service cleans up *)

Cleanup(e, pc) == cleanup' = [cleanup EXCEPT ![e] = pc]
Refuse(e) == Cleanup(e, "error") /\ guard' = Nobody

(* guard(); the request id of an execution is sent once, so that replay()  *)
(* finds nothing.                                                          *)
CleanupEnter(e) ==
  /\ cleanup[e] = "sent" /\ guard = Nobody
  /\ guard' = TheCleanup /\ Cleanup(e, "asking")
  /\ UNCHANGED <<operations, sandbox, request, receipt, disk, writes, crashes>>

(* cleanup_authorization() *)
Authorized(e) == job = "applying" /\ execution = e

CleanupAsked(e) ==
  /\ cleanup[e] = "asking"
  /\ \/ Authorized(e) /\ Cleanup(e, "authorized") /\ UNCHANGED guard
     \/ Refuse(e)
  /\ UNCHANGED <<operations, sandbox, request, receipt, disk, writes, crashes>>

(* Mutant: what is there now is not compared with the preview. *)
AsPreviewedUnread(e) == TRUE
AsPreviewed(e) == Impact = expected[e]

CleanupBegin(e) ==
  /\ cleanup[e] = "authorized"
  /\ IF AsPreviewed(e)
       THEN /\ receipt' = [receipt EXCEPT ![e] = "begun"]
            /\ Cleanup(e, "removing") /\ UNCHANGED guard
       ELSE Refuse(e) /\ UNCHANGED receipt
  /\ UNCHANGED <<operations, sandbox, request, disk, writes, crashes>>

(* rmtree() of the workspaces, then of the state, which may fail.          *)
RemoveWorkspaces(e) ==
  /\ cleanup[e] = "removing"
  /\ doc' = [u \in Users |-> NoFiles] /\ left' = [u \in Users |-> NoneLeft]
  /\ Cleanup(e, "removing state")
  /\ UNCHANGED <<operations, sandbox, guard, request, receipt, state, stamp, directory,
                 writes, crashes>>

RemoveState(e) ==
  /\ cleanup[e] = "removing state"
  /\ state' = [u \in Users |-> FALSE] /\ directory' = [u \in Users |-> FALSE]
  /\ receipt' = [receipt EXCEPT ![e] = "done"]
  /\ Cleanup(e, "ok") /\ guard' = Nobody
  /\ UNCHANGED <<operations, sandbox, request, doc, left, stamp, writes, crashes>>

RemoveFails(e) ==
  /\ cleanup[e] \in {"removing", "removing state"}
  /\ Refuse(e)
  /\ UNCHANGED <<operations, sandbox, request, receipt, disk, writes, crashes>>

----------------------------------------------------------------------------
(* Restarts *)

Crash == crashes < MaxCrashes /\ crashes' = crashes + 1

(* lifespan(): a deletion that was under way has to be recovered.          *)
(* Mutant: it is interrupted, as if nothing had been applied.              *)
RecoveredInterrupted == IF job = "applying" THEN "interrupted" ELSE job
Recovered == IF job = "applying" THEN "needs_recovery" ELSE job

RestartOperations ==
  /\ Crash
  /\ job' = Recovered
  /\ worker' = IF worker = "queued" THEN worker ELSE "none"
  /\ impact' = NoImpact
  /\ UNCHANGED <<execution, expected, sandbox, service, disk, writes>>

(* Temporary files stay where they are; a removal may have happened in     *)
(* part, its receipt has no result.                                        *)
Interrupted(u, r) ==
  request[r].pc = "writing" /\ request[r].user = u /\ request[r].written > 0

RestartFileService ==
  /\ Crash
  /\ left' = [u \in Users |-> [r \in Requests |->
                IF Interrupted(u, r) THEN request[r].written ELSE left[u][r]]]
  /\ stamp' = [u \in Users |->
                IF \E r \in Requests : Interrupted(u, r) THEN stamp[u] + 1 ELSE stamp[u]]
  /\ request' = [r \in Requests |-> IF request[r].pc \in {"idle", "ok"} THEN request[r]
                                    ELSE [pc |-> "error"]]
  /\ cleanup' = [e \in Executions |-> IF cleanup[e] \in {"none", "ok"} THEN cleanup[e]
                                      ELSE "error"]
  /\ guard' = Nobody
  /\ UNCHANGED <<operations, sandbox, receipt, doc, state, directory, writes>>

----------------------------------------------------------------------------
(* The specification *)

RequestStep(r) ==
  \/ Enter(r) \/ Asked(r) \/ Fails(r) \/ OpenScope(r)
  \/ OpenTarget(r) \/ Measure(r) \/ Write(r) \/ Replace(r)
CleanupStep(e) ==
  \/ CleanupEnter(e) \/ CleanupAsked(e) \/ CleanupBegin(e)
  \/ RemoveWorkspaces(e) \/ RemoveState(e) \/ RemoveFails(e)
WorkerStep ==
  Begin \/ DeleteSandboxes \/ CleanFiles \/ FilesCleaned \/ Delete \/ WorkerFails

Next ==
  \/ \E r \in Requests : Send(r) \/ RequestStep(r)
  \/ \E e \in Executions : CleanupStep(e)
  \/ \E u \in Users : Acquire(u) \/ ContainerWrites(u)
  \/ Preview \/ Submit \/ Cancel \/ WorkerStep
  \/ RestartOperations \/ RestartFileService

Spec == Init /\ [][Next]_vars

(* The event loops of both services run; the guard is an asyncio.Lock.     *)
Fairness ==
  /\ \A r \in Requests : WF_vars(RequestStep(r))
  /\ \A e \in Executions : WF_vars(CleanupStep(e))
  /\ WF_vars(WorkerStep)
FairSpec == Spec /\ Fairness

----------------------------------------------------------------------------
(* Properties *)

TypeOK ==
  /\ job \in {"none", "queued", "applying", "succeeded", "needs_recovery", "cancelled"}
  /\ worker \in {"none", "queued", "sandbox", "files", "cleaning", "catalog"}
  /\ execution \in 0..MaxExecutions
  /\ blocked \in BOOLEAN /\ running \subseteq Users
  /\ guard \in Requests \cup {TheCleanup, Nobody}
  /\ \A r \in Requests : request[r].pc \in {"idle", "sent", "ok", "error"} \cup Holders
  /\ cleanup \in [Executions -> {"none", "sent", "asking", "authorized", "removing",
                                 "removing state", "ok", "error"}]
  /\ receipt \in [Executions -> {"none", "begun", "done"}]
  /\ doc \in [Users -> [Names -> 0..MaxSize]] /\ left \in [Users -> [Requests -> 0..MaxSize]]
  /\ state \in [Users -> BOOLEAN] /\ directory \in [Users -> BOOLEAN] /\ stamp \in [Users -> Nat]
  /\ writes \in 0..MaxWrites /\ crashes \in 0..MaxCrashes

(* Only what the administrator saw in the preview is removed: from the     *)
(* comparison until the removal begins nothing of the agent changes,       *)
(* neither by an upload nor by a container (file_service/main.py:175-205). *)
RemovesPreviewed == \A e \in Executions : cleanup[e] = "removing" => Impact = expected[e]

(* Once the files of a deletion are removed, nothing comes back as long as *)
(* the deletion is pending, whatever request was admitted before it.       *)
CleanedEmpty ==
  \A e \in Executions : receipt[e] = "done" /\ e = execution /\ Pending =>
    \A u \in Users : Empty(u) /\ ~directory[u]

(* Uploads keep a user within the quota, also next to what interrupted     *)
(* uploads left behind; these exceed it by one upload at most              *)
(* (files.py:62-121).                                                      *)
QuotaKept ==
  \A u \in Users : SumFunction(doc[u]) <= Quota /\ Used(u) <= Quota + MaxSize

(* Every request and every cleanup is answered: nobody keeps the guard,    *)
(* whatever is refused or breaks off (coordination.py:50-53).              *)
GuardFreed ==
  /\ \A r \in Requests : request[r].pc = "sent" ~> request[r].pc \in {"ok", "error"}
  /\ \A e \in Executions : cleanup[e] = "sent" ~> cleanup[e] \in {"ok", "error"}
=============================================================================
