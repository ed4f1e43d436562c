------------------------------ MODULE LoadTest ------------------------------
(***************************************************************************)
(* Load tests: the run and the cleanup of operations (load_tests.py,       *)
(* load_test_store.py), the requests they send to sandbox_manager, which   *)
(* acquires a sandbox for each test user (backend.acquire), and the        *)
(* storage file_service allocates to it and removes (main.py,              *)
(* coordination.py).  Three processes that crash on their own: a call      *)
(* outlives its caller, an answer may be lost.  An action is the code of   *)
(* one process between two awaits; taking a lock is joined to the check    *)
(* that is made first under it.                                            *)
(***************************************************************************)
EXTENDS Naturals, FiniteSets

CONSTANTS
  Tests,      \* load tests, created at most once each
  Users,      \* the loadtest- users of all tests
  TestOf,     \* the test that owns a user
  BatchSize,  \* sessions prepared at a time (4)
  MaxCleanups, \* bound: cleanups asked for, per test
  MaxCrashes, \* bound: restarts of any of the three services
  MaxDockerFaults \* bound: Docker refuses to remove a container that failed

ASSUME LoadTestAssumption ==
  /\ TestOf \in [Users -> Tests]
  /\ BatchSize \in Nat \ {0}
  /\ MaxCleanups \in Nat /\ MaxCrashes \in Nat /\ MaxDockerFaults \in Nat

Calls == {"session", "message", "abort"}
Attempts == 1..MaxCleanups
UsersOf(t) == {u \in Users : TestOf[u] = t}

(* ACTIVE, and the phases of a user that still waits for something. *)
Active == {"queued", "preparing", "running", "cancelling"}
LivePhases == {"queued", "preparing", "ready", "running"}

VARIABLES
  status, cancelRequested, capacityBlocked, cleanup, \* a test's row
  storage, phase, \* a user's row
  runner,     \* run(): where it waits
  cancelling, \* task.cancel(): "no", "scheduled", and "due" once run() took one more step
  lock,       \* runtime.lock: the test that runs or is cleaned, or none
  child,      \* _prepare and _generate: where they wait
  cleaner, attempt, \* _cleanup: where it waits, and its number
  call,       \* sandbox_manager: the handler of each request of a user
  alloc,      \* file_service: the allocation that handler asked for
  container, row, routes, \* Docker; the rows of sandboxes and sessions
  sweep,      \* sandbox_manager: the cleanup call of each attempt
  removal,    \* file_service: the cleanup call of each attempt
  receipt, directory, \* the cleanups journal; the user's directories
  crashes, dockerFaults \* bounds

tests   == <<status, cancelRequested, capacityBlocked, cleanup>>
users   == <<storage, phase>>
tasks   == <<runner, cancelling, lock, child, cleaner, attempt>>
sandbox == <<call, container, row, routes, sweep, dockerFaults>>
files   == <<alloc, removal, receipt, directory>>
vars == <<tests, users, tasks, sandbox, files, crashes>>

Nobody == "nobody"

Init ==
  /\ status = [t \in Tests |-> "none"]
  /\ cancelRequested = [t \in Tests |-> FALSE]
  /\ capacityBlocked = [t \in Tests |-> FALSE]
  /\ cleanup = [t \in Tests |-> "retained"]
  /\ storage = [u \in Users |-> "none"] /\ phase = [u \in Users |-> "none"]
  /\ runner = [t \in Tests |-> "idle"] /\ cancelling = [t \in Tests |-> "no"]
  /\ lock = Nobody
  /\ child = [u \in Users |-> "done"]
  /\ cleaner = [t \in Tests |-> "idle"] /\ attempt = [t \in Tests |-> 0]
  /\ call = [u \in Users |-> [k \in Calls |-> "none"]]
  /\ alloc = [u \in Users |-> [k \in Calls |-> "none"]]
  /\ container = [u \in Users |-> FALSE] /\ row = [u \in Users |-> "none"]
  /\ routes = [u \in Users |-> FALSE]
  /\ sweep = [u \in Users |-> [a \in Attempts |-> "none"]]
  /\ removal = [u \in Users |-> [a \in Attempts |-> "none"]]
  /\ receipt = [u \in Users |-> "none"] /\ directory = [u \in Users |-> FALSE]
  /\ crashes = 0 /\ dockerFaults = 0

(* The state of several users at once: F(u) for those in S. *)
For(f, S, F(_)) == [u \in Users |-> IF u \in S THEN F(u) ELSE f[u]]
Answered(u, k) == call[u][k] \in {"ok", "error"}

----------------------------------------------------------------------------
(* sandbox_manager and file_service serve a test user *)

Call(u, k, pc) == call' = [call EXCEPT ![u][k] = pc]
Alloc(u, k, pc) == alloc' = [alloc EXCEPT ![u][k] = pc]

(* backend._locks: acquire() and the cleanup hold a user's lock. *)
UserLocked(u) ==
  \/ \E k \in Calls : call[u][k] \in {"allocating", "allocated", "creating"}
  \/ \E a \in Attempts : sweep[u][a] = "removing"

(* active_request_leases(): acquired and not yet released. *)
Leased(u) == \E k \in Calls : call[u][k] \in {"leased", "binding"}

(* FileCoordination.guard, one per agent. *)
Guarded ==
  \E u \in Users : \/ \E k \in Calls : alloc[u][k] = "checked"
                   \/ \E a \in Attempts : removal[u][a] = "removing"

(* resources_for() of operations, file-admission of a test user. *)
Retained(u) == storage[u] = "retained"

(* admission of operations: no resources, and so no sandbox, for the       *)
(* username of a test whose storage is not retained.                       *)
Admission(u) == Retained(u)

(* acquire(): admission is asked again under the user's lock, then         *)
(* file_service allocates the directories.  Any other reason to refuse is  *)
(* the second disjunct.                                                    *)
Admit(u, k) ==
  /\ call[u][k] = "sent" /\ ~UserLocked(u)
  /\ \/ Admission(u) /\ Call(u, k, "allocating") /\ Alloc(u, k, "queued")
     \/ Call(u, k, "error") /\ UNCHANGED alloc
  /\ UNCHANGED <<tests, users, tasks, container, row, routes, sweep, dockerFaults,
                 removal, receipt, directory, crashes>>

AllocChecked(u, k) ==
  /\ alloc[u][k] = "queued" /\ ~Guarded
  /\ Alloc(u, k, IF Retained(u) THEN "checked" ELSE "refused")
  /\ UNCHANGED <<tests, users, tasks, sandbox, removal, receipt, directory, crashes>>

(* user_scope() and resolve_user_path() create what is missing, the user's *)
(* directories included.                                                   *)
Allocated(u) == [directory EXCEPT ![u] = TRUE]

AllocDone(u, k) ==
  /\ alloc[u][k] = "checked"
  /\ directory' = Allocated(u)
  /\ Alloc(u, k, "ok")
  /\ UNCHANGED <<tests, users, tasks, sandbox, removal, receipt, crashes>>

(* The answer, an error, or no answer in time: the allocation goes on.     *)
(* bindings.ensure() allocates the session's directory under the lease.    *)
AllocAnswered(u, k) ==
  /\ call[u][k] \in {"allocating", "binding"}
  /\ \/ alloc[u][k] = "ok" /\ Call(u, k, IF call[u][k] = "binding" THEN "ok" ELSE "allocated")
     \/ Call(u, k, "error")
  /\ UNCHANGED <<tests, users, tasks, container, row, routes, sweep, dockerFaults, files, crashes>>

(* A running container that answers is used; otherwise it is removed. *)
Reuse(u, k) ==
  /\ call[u][k] = "allocated" /\ container[u]
  /\ \/ /\ row' = [row EXCEPT ![u] = "known"]
        /\ Call(u, k, "leased") /\ UNCHANGED container
     \/ /\ container' = [container EXCEPT ![u] = FALSE]
        /\ UNCHANGED <<row, call>>
  /\ UNCHANGED <<tests, users, tasks, routes, sweep, dockerFaults, files, crashes>>

(* The row "creating" names no container; _create_container asks for the   *)
(* resources again, and a refusal leaves the row as it is.                 *)
StartCreate(u, k) ==
  /\ call[u][k] = "allocated" /\ ~container[u]
  /\ row' = [row EXCEPT ![u] = "blank"]
  /\ Call(u, k, IF Admission(u) THEN "creating" ELSE "error")
  /\ UNCHANGED <<tests, users, tasks, container, routes, sweep, dockerFaults, files, crashes>>

Created(u, k) ==
  /\ call[u][k] = "creating"
  /\ \/ /\ container' = [container EXCEPT ![u] = TRUE]
        /\ row' = [row EXCEPT ![u] = "known"]
        /\ Call(u, k, "leased") /\ UNCHANGED dockerFaults
     \/ Call(u, k, "error") /\ UNCHANGED <<container, row, dockerFaults>>
     \/ /\ dockerFaults < MaxDockerFaults
        /\ dockerFaults' = dockerFaults + 1
        /\ container' = [container EXCEPT ![u] = TRUE]
        /\ Call(u, k, "error") /\ UNCHANGED row
  /\ UNCHANGED <<tests, users, tasks, routes, sweep, files, crashes>>

(* OpenCode answers; a new session is recorded, and bound to a directory.  *)
Serve(u, k) ==
  /\ call[u][k] = "leased"
  /\ \/ /\ k = "session"
        /\ routes' = [routes EXCEPT ![u] = TRUE]
        /\ Call(u, k, "binding") /\ Alloc(u, k, "queued")
     \/ /\ Call(u, k, "error") /\ UNCHANGED <<routes, alloc>>
     \/ /\ k # "session"
        /\ Call(u, k, "ok") /\ UNCHANGED <<routes, alloc>>
  /\ UNCHANGED <<tests, users, tasks, container, row, sweep, dockerFaults,
                 removal, receipt, directory, crashes>>

----------------------------------------------------------------------------
(* sandbox_manager and file_service clean up after a test user *)

Sweep(u, a, pc) == sweep' = [sweep EXCEPT ![u][a] = pc]
Removal(u, a, pc) == removal' = [removal EXCEPT ![u][a] = pc]

(* Mutant: the cleanup does not take the user's lock. *)
SweepUnlocked(u) == TRUE
SweepEnters(u) == ~UserLocked(u)

(* cleanup(): under the user's lock; active leases refuse it. *)
SweepStart(u, a) ==
  /\ sweep[u][a] = "queued" /\ SweepEnters(u)
  /\ Sweep(u, a, IF Leased(u) THEN "error" ELSE "removing")
  /\ UNCHANGED <<tests, users, tasks, call, container, row, routes, dockerFaults, files, crashes>>

(* Only the container the row names is removed, then the rows.             *)
SweepEnd(u, a) ==
  /\ sweep[u][a] = "removing"
  /\ \/ /\ container' = [container EXCEPT ![u] = @ /\ row[u] # "known"]
        /\ row' = [row EXCEPT ![u] = "none"]
        /\ routes' = [routes EXCEPT ![u] = FALSE]
        /\ Sweep(u, a, "ok")
     \/ Sweep(u, a, "error") /\ UNCHANGED <<container, row, routes>>
  /\ UNCHANGED <<tests, users, tasks, call, dockerFaults, files, crashes>>

(* cleanup-authorization of operations for a test user. *)
Authorized(u) == cleanup[TestOf[u]] = "cleaning" /\ storage[u] = "cleaning"

(* cleanup_user() under the guard: the receipt of the same request answers *)
(* it, or refuses it when it has no result; otherwise a receipt is begun.  *)
RemovalStart(u, a) ==
  /\ removal[u][a] = "queued" /\ ~Guarded
  /\ \/ /\ receipt[u] # "none"
        /\ Removal(u, a, IF receipt[u] = "done" THEN "ok" ELSE "error")
        /\ UNCHANGED receipt
     \/ /\ receipt[u] = "none" /\ Authorized(u)
        /\ receipt' = [receipt EXCEPT ![u] = "begun"]
        /\ Removal(u, a, "removing")
     \/ /\ receipt[u] = "none" /\ ~Authorized(u)
        /\ Removal(u, a, "error") /\ UNCHANGED receipt
  /\ UNCHANGED <<tests, users, tasks, sandbox, alloc, directory, crashes>>

(* Removed; or a removal that fails leaves the receipt without a result.   *)
RemovalEnd(u, a) ==
  /\ removal[u][a] = "removing"
  /\ \/ /\ directory' = [directory EXCEPT ![u] = FALSE]
        /\ receipt' = [receipt EXCEPT ![u] = "done"]
        /\ Removal(u, a, "ok")
     \/ Removal(u, a, "error") /\ UNCHANGED <<directory, receipt>>
  /\ UNCHANGED <<tests, users, tasks, sandbox, alloc, crashes>>

----------------------------------------------------------------------------
(* operations runs a test *)

(* A step of run(): none after the cancellation is due. *)
Step(t) ==
  /\ cancelling[t] # "due"
  /\ cancelling' = [cancelling EXCEPT ![t] = IF @ = "scheduled" THEN "due" ELSE @]
To(t, pc) == runner' = [runner EXCEPT ![t] = pc]
SetStatus(t, st) == status' = [status EXCEPT ![t] = st]

(* The finally clause: whoever still waits is cancelled or interrupted.    *)
Leave(t, blocked, ph) ==
  LET left == {u \in UsersOf(t) : ph[u] \in LivePhases}
      last == IF cancelRequested[t] \/ blocked THEN "cancelled" ELSE "interrupted"
  IN  /\ phase' = [u \in Users |-> IF u \in left THEN last ELSE ph[u]]
      /\ To(t, "idle") /\ lock' = IF lock = t THEN Nobody ELSE lock

(* admit_start(): an earlier start with its request id is answered with     *)
(* that test; catalog and capacity may refuse any.                         *)
Admissible(t) == status[t] = "none"

(* create(): one active test at a time; the cleanups are not looked at.     *)
(* The rows of the test and of its users are one transaction.              *)
CreateRows(t) ==
  /\ \A s \in Tests : status[s] \notin Active
  /\ SetStatus(t, "queued")
  /\ storage' = For(storage, UsersOf(t), LAMBDA u : "retained")
  /\ phase' = For(phase, UsersOf(t), LAMBDA u : "queued")

Start(t) ==
  /\ Admissible(t) /\ CreateRows(t)
  /\ To(t, "lock")
  /\ UNCHANGED <<cancelRequested, capacityBlocked, cleanup, cancelling, lock, child, cleaner,
                 attempt, sandbox, files, crashes>>

(* runtime.lock, the catalog is read again and compared, then each batch   *)
(* waits for a capacity sample.  The status overwrites "cancelling" when   *)
(* the cancellation has not been delivered yet.                            *)
Begin(t) ==
  /\ runner[t] = "lock" /\ lock = Nobody
  /\ lock' = t /\ Step(t) /\ To(t, "refresh")
  /\ UNCHANGED <<tests, users, child, cleaner, attempt, sandbox, files, crashes>>

Refreshed(t) ==
  /\ runner[t] = "refresh" /\ Step(t)
  /\ \/ /\ SetStatus(t, "preparing") /\ To(t, "capacity")
        /\ UNCHANGED <<phase, lock>>
     \/ /\ SetStatus(t, "failed") /\ Leave(t, FALSE, phase)
  /\ UNCHANGED <<cancelRequested, capacityBlocked, cleanup, storage, child, cleaner, attempt,
                 sandbox, files, crashes>>

(* The next batch; with a cancellation due its coroutines never start.     *)
Batches(t) ==
  LET queued == {u \in UsersOf(t) : phase[u] = "queued"}
  IN  {S \in SUBSET queued : Cardinality(S) = IF Cardinality(queued) < BatchSize
                                              THEN Cardinality(queued) ELSE BatchSize}
Launch(t, S, k, pc, ph) ==
  LET started == IF cancelling[t] = "scheduled" THEN {} ELSE S
  IN  /\ child' = For(child, started, LAMBDA u : pc)
      /\ phase' = For(phase, started, LAMBDA u : ph)
      /\ call' = For(call, started, LAMBDA u : [call[u] EXCEPT ![k] = "sent"])

Prepare(t) ==
  /\ runner[t] = "capacity" /\ Step(t)
  /\ \E S \in Batches(t) : /\ S # {}
                           /\ Launch(t, S, "session", "preparing", "preparing")
  /\ To(t, "preparing")
  /\ UNCHANGED <<tests, storage, lock, cleaner, attempt, container, row, routes, sweep,
                 dockerFaults, files, crashes>>

Prepared(t) ==
  /\ runner[t] = "preparing" /\ Step(t)
  /\ \A u \in UsersOf(t) : child[u] = "done"
  /\ To(t, "capacity")
  /\ UNCHANGED <<tests, users, lock, child, cleaner, attempt, sandbox, files, crashes>>

(* check_capacity() finds too little for the users that remain; all of      *)
(* them are refused.                                                       *)
Refused(t) ==
  For(phase, {u \in UsersOf(t) : phase[u] = "queued"}, LAMBDA u : "prepare_failed")


(* capacity_check(): the users not yet prepared fail with it. *)
Blocked(t) ==
  /\ runner[t] = "capacity" /\ Step(t)
  /\ SetStatus(t, "failed")
  /\ \/ /\ capacityBlocked' = [capacityBlocked EXCEPT ![t] = TRUE]
        /\ Leave(t, TRUE, Refused(t))
     \/ UNCHANGED capacityBlocked /\ Leave(t, FALSE, phase)
  /\ UNCHANGED <<cancelRequested, cleanup, storage, child, cleaner, attempt, sandbox, files, crashes>>

Generate(t) ==
  LET ready == {u \in UsersOf(t) : phase[u] = "ready"} IN
  /\ runner[t] = "capacity" /\ Batches(t) = {{}} /\ Step(t)
  /\ IF ready = {}
       THEN /\ SetStatus(t, "failed") /\ Leave(t, FALSE, phase)
            /\ UNCHANGED <<child, call>>
       ELSE /\ SetStatus(t, "running") /\ To(t, "generating")
            /\ Launch(t, ready, "message", "generating", "running")
            /\ UNCHANGED lock
  /\ UNCHANGED <<cancelRequested, capacityBlocked, cleanup, storage, cleaner, attempt,
                 container, row, routes, sweep, dockerFaults, files, crashes>>

(* A cancellation due may still reach run() as it closes its client. *)
Generated(t) ==
  /\ runner[t] = "generating" /\ Step(t)
  /\ \A u \in UsersOf(t) : child[u] = "done"
  /\ \/ SetStatus(t, IF \A u \in UsersOf(t) : phase[u] = "succeeded"
                       THEN "completed" ELSE "completed_with_errors")
     \/ cancelling[t] = "scheduled" /\ SetStatus(t, "cancelled")
  /\ Leave(t, capacityBlocked[t], phase)
  /\ UNCHANGED <<cancelRequested, capacityBlocked, cleanup, storage, child, cleaner, attempt,
                 sandbox, files, crashes>>

(* _prepare and _generate of one user *)
Child(u, pc) == child' = [child EXCEPT ![u] = pc]
Phase(u, ph) == phase' = [phase EXCEPT ![u] = ph]
ChildUnchanged == <<tests, storage, runner, cancelling, lock, cleaner, attempt,
                    container, row, routes, sweep, dockerFaults, files, crashes>>

(* The session is answered: in time; or late, after the time-out or the    *)
(* cancellation, which wait for it.                                        *)
SessionAnswered(u) ==
  /\ child[u] \in {"preparing", "late", "settling"} /\ Answered(u, "session")
  /\ Phase(u, CASE child[u] = "settling" -> "cancelled"
                [] child[u] = "preparing" /\ call[u]["session"] = "ok" -> "ready"
                [] OTHER -> "prepare_failed")
  /\ Child(u, "done")
  /\ UNCHANGED <<call, ChildUnchanged>>

PrepareTimeout(u) ==
  /\ child[u] = "preparing" /\ Child(u, "late")
  /\ UNCHANGED <<phase, call, ChildUnchanged>>

(* The message is answered, with an empty or failed reply as well; an      *)
(* error and a time-out abort the session first.                           *)
MessageAnswered(u) ==
  /\ child[u] = "generating" /\ call[u]["message"] = "ok"
  /\ \E ph \in {"succeeded", "failed"} : Phase(u, ph)
  /\ Child(u, "done")
  /\ UNCHANGED <<call, ChildUnchanged>>

Abort(u, pc) ==
  /\ Child(u, pc) /\ Call(u, "abort", "sent")
  /\ UNCHANGED <<phase, ChildUnchanged>>

MessageFailed(u) ==
  child[u] = "generating" /\ call[u]["message"] = "error" /\ Abort(u, "abort_failed")
(* Mutant: the wait for a message is not bounded. *)
GenerateUnbounded(u) == FALSE
GenerateTimeout(u) ==
  child[u] = "generating" /\ Abort(u, "abort_timed_out")

Aborting == {"abort_failed", "abort_timed_out", "abort_cancelled"}
Aborted(u) ==
  /\ child[u] \in Aborting
  /\ Phase(u, CASE child[u] = "abort_failed" -> "failed"
                [] child[u] = "abort_timed_out" -> "timed_out"
                [] child[u] = "abort_cancelled" -> "cancelled")
  /\ Child(u, "done")
  /\ UNCHANGED <<call, ChildUnchanged>>

(* cancel(): only once; run() gets the cancellation after its next step or *)
(* before.  A test in Active always has its run().                         *)
Cancel(t) ==
  /\ status[t] \in Active /\ ~cancelRequested[t] /\ runner[t] # "idle"
  /\ SetStatus(t, "cancelling")
  /\ cancelRequested' = [cancelRequested EXCEPT ![t] = TRUE]
  /\ cancelling' = [cancelling EXCEPT ![t] = "scheduled"]
  /\ UNCHANGED <<capacityBlocked, cleanup, users, runner, lock, child, cleaner, attempt,
                 sandbox, files, crashes>>

(* CancelledError in run(), through gather() in its children: a child that *)
(* waits in its own except clause lets it pass and leaves its phase.       *)
Cancelled(pc) ==
  CASE pc = "preparing" -> "settling"
    [] pc = "generating" -> "abort_cancelled"
    [] OTHER -> "done"

Deliver(t) ==
  /\ runner[t] \notin {"idle", "unwinding"} /\ cancelling[t] # "no"
  /\ To(t, "unwinding")
  /\ child' = For(child, UsersOf(t), LAMBDA u : Cancelled(child[u]))
  /\ call' = For(call, {u \in UsersOf(t) : child[u] = "generating"},
                 LAMBDA u : [call[u] EXCEPT !["abort"] = "sent"])
  /\ UNCHANGED <<tests, users, cancelling, lock, cleaner, attempt,
                 container, row, routes, sweep, dockerFaults, files, crashes>>

Unwound(t) ==
  /\ runner[t] = "unwinding" /\ \A u \in UsersOf(t) : child[u] = "done"
  /\ SetStatus(t, "cancelled")
  /\ Leave(t, capacityBlocked[t], phase)
  /\ UNCHANGED <<cancelRequested, capacityBlocked, cleanup, storage, cancelling, child,
                 cleaner, attempt, sandbox, files, crashes>>

----------------------------------------------------------------------------
(* operations cleans up after a test *)

CleanerTo(t, pc) == cleaner' = [cleaner EXCEPT ![t] = pc]

Cleanup(t) ==
  /\ status[t] \notin Active \cup {"none"} /\ runner[t] = "idle" /\ cleaner[t] = "idle"
  /\ cleanup[t] \in {"retained", "failed"} /\ attempt[t] < MaxCleanups
  /\ cleanup' = [cleanup EXCEPT ![t] = "cleaning"]
  /\ storage' = For(storage, {u \in UsersOf(t) : storage[u] # "cleaned"}, LAMBDA u : "cleaning")
  /\ attempt' = [attempt EXCEPT ![t] = @ + 1]
  /\ CleanerTo(t, "lock")
  /\ UNCHANGED <<status, cancelRequested, capacityBlocked, phase, runner, cancelling, lock, child,
                 sandbox, files, crashes>>

CleanerLocked(t) ==
  /\ cleaner[t] = "lock" /\ lock = Nobody
  /\ lock' = t /\ CleanerTo(t, "next")
  /\ UNCHANGED <<tests, users, runner, cancelling, child, attempt, sandbox, files, crashes>>

(* sandbox_manager first, then file_service, one user after the other. *)
CleanSandbox(t) ==
  /\ cleaner[t] = "next"
  /\ \E u \in UsersOf(t) : storage[u] # "cleaned" /\ Sweep(u, attempt[t], "queued")
  /\ CleanerTo(t, "sandbox")
  /\ UNCHANGED <<tests, users, runner, cancelling, lock, child, attempt,
                 call, container, row, routes, dockerFaults, files, crashes>>

CleanFiles(t) ==
  /\ cleaner[t] = "sandbox"
  /\ \E u \in UsersOf(t) :
       storage[u] # "cleaned" /\ sweep[u][attempt[t]] = "ok" /\ Removal(u, attempt[t], "queued")
  /\ CleanerTo(t, "files")
  /\ UNCHANGED <<tests, users, runner, cancelling, lock, child, attempt, sandbox,
                 alloc, receipt, directory, crashes>>

UserCleaned(t) ==
  /\ cleaner[t] = "files"
  /\ \E u \in UsersOf(t) : /\ storage[u] # "cleaned" /\ removal[u][attempt[t]] = "ok"
                           /\ storage' = [storage EXCEPT ![u] = "cleaned"]
  /\ CleanerTo(t, "next")
  /\ UNCHANGED <<tests, phase, runner, cancelling, lock, child, attempt, sandbox, files, crashes>>

TestCleaned(t) ==
  /\ cleaner[t] = "next" /\ \A u \in UsersOf(t) : storage[u] = "cleaned"
  /\ cleanup' = [cleanup EXCEPT ![t] = "cleaned"]
  /\ lock' = Nobody /\ CleanerTo(t, "idle")
  /\ UNCHANGED <<status, cancelRequested, capacityBlocked, users, runner, cancelling, child,
                 attempt, sandbox, files, crashes>>

(* A call refused, or not answered within 180 s: it may still take effect. *)
CleanupFails(t) ==
  /\ cleaner[t] \in {"sandbox", "files"}
  /\ cleanup' = [cleanup EXCEPT ![t] = "failed"]
  /\ lock' = Nobody /\ CleanerTo(t, "idle")
  /\ UNCHANGED <<status, cancelRequested, capacityBlocked, users, runner, cancelling, child,
                 attempt, sandbox, files, crashes>>

----------------------------------------------------------------------------
(* Restarts *)

Crash == crashes < MaxCrashes /\ crashes' = crashes + 1

(* Mutant: recover() knows the tests that run, not those being cancelled.  *)
RecoverRunning(t) == status[t] \in {"queued", "preparing", "running"}
Recovers(t) == status[t] \in Active

(* Mutants: recover() leaves the cleanup that was under way; it writes the *)
(* status of a test into the status of its cleanup.                        *)
LeftCleaning(t) == cleanup[t]
UncleanedInterrupted(t) == IF cleanup[t] = "cleaning" THEN "interrupted" ELSE cleanup[t]
Uncleaned(t) == IF cleanup[t] = "cleaning" THEN "failed" ELSE cleanup[t]

(* operations: its tasks are lost, recover() closes their rows. *)
RestartOperations ==
  LET lost == {u \in Users : Recovers(TestOf[u]) /\ phase[u] \in LivePhases} IN
  /\ Crash
  /\ status' = [t \in Tests |-> IF Recovers(t) THEN "interrupted" ELSE status[t]]
  /\ phase' = For(phase, lost, LAMBDA u : "interrupted")
  /\ cleanup' = [t \in Tests |-> Uncleaned(t)]
  /\ runner' = [t \in Tests |-> "idle"] /\ cleaner' = [t \in Tests |-> "idle"]
  /\ cancelling' = [t \in Tests |-> "no"] /\ lock' = Nobody
  /\ child' = [u \in Users |-> "done"]
  /\ UNCHANGED <<cancelRequested, capacityBlocked, storage, attempt, sandbox, files>>

(* sandbox_manager: a container being created or removed may be there;     *)
(* backend.reconcile() writes the rows of those it finds.                  *)
RestartSandboxManager ==
  /\ Crash
  /\ \E there \in [Users -> BOOLEAN] :
       /\ \A u \in Users :
            \/ there[u] = container[u]
            \/ there[u] /\ \E k \in Calls : call[u][k] = "creating"
            \/ ~there[u] /\ UserLocked(u)
       /\ container' = there
       /\ row' = [u \in Users |-> IF there[u] THEN "known" ELSE row[u]]
  /\ call' = [u \in Users |-> [k \in Calls |->
                IF call[u][k] \in {"none", "ok"} THEN call[u][k] ELSE "error"]]
  /\ sweep' = [u \in Users |-> [a \in Attempts |->
                IF sweep[u][a] \in {"none", "ok"} THEN sweep[u][a] ELSE "error"]]
  /\ UNCHANGED <<tests, users, tasks, routes, dockerFaults, files>>

(* file_service: the receipts stay, a removal under way may have happened. *)
RestartFileService ==
  /\ Crash
  /\ \E there \in [Users -> BOOLEAN] :
       /\ \A u \in Users : \/ there[u] = directory[u]
                           \/ ~there[u] /\ \E a \in Attempts : removal[u][a] = "removing"
       /\ directory' = there
  /\ alloc' = [u \in Users |-> [k \in Calls |->
                IF alloc[u][k] \in {"none", "ok"} THEN alloc[u][k] ELSE "refused"]]
  /\ removal' = [u \in Users |-> [a \in Attempts |->
                IF removal[u][a] \in {"none", "ok"} THEN removal[u][a] ELSE "error"]]
  /\ UNCHANGED <<tests, users, tasks, sandbox, receipt>>

----------------------------------------------------------------------------
(* The specification *)

Restart == RestartOperations \/ RestartSandboxManager \/ RestartFileService

SandboxStep(u, k) ==
  \/ Admit(u, k) \/ AllocAnswered(u, k)
  \/ Reuse(u, k) \/ StartCreate(u, k) \/ Created(u, k) \/ Serve(u, k)
FilesStep(u, k) == AllocChecked(u, k) \/ AllocDone(u, k)
CleanStep(u, a) ==
  SweepStart(u, a) \/ SweepEnd(u, a) \/ RemovalStart(u, a) \/ RemovalEnd(u, a)

RunStep(t) ==
  \/ Begin(t) \/ Refreshed(t) \/ Prepare(t) \/ Prepared(t) \/ Blocked(t)
  \/ Generate(t) \/ Generated(t) \/ Deliver(t) \/ Unwound(t)
ChildStep(u) ==
  \/ SessionAnswered(u) \/ PrepareTimeout(u)
  \/ MessageAnswered(u) \/ MessageFailed(u) \/ GenerateTimeout(u) \/ Aborted(u)
CleanerStep(t) ==
  \/ CleanerLocked(t) \/ CleanSandbox(t) \/ CleanFiles(t) \/ UserCleaned(t)
  \/ TestCleaned(t) \/ CleanupFails(t)

Next ==
  \/ \E t \in Tests : Start(t) \/ Cancel(t) \/ Cleanup(t) \/ RunStep(t) \/ CleanerStep(t)
  \/ \E u \in Users : ChildStep(u) \/ \E k \in Calls : SandboxStep(u, k) \/ FilesStep(u, k)
  \/ \E u \in Users, a \in Attempts : CleanStep(u, a)
  \/ Restart

Spec == Init /\ [][Next]_vars

(* sandbox_manager's waits are bounded (start time-out, HTTP time-outs),   *)
(* except the one for a model's answer, which only its caller bounds.      *)
ServedInTime(u, k) ==
  \/ Admit(u, k) \/ AllocAnswered(u, k) \/ Reuse(u, k) \/ StartCreate(u, k) \/ Created(u, k)
  \/ k = "session" /\ Serve(u, k)
Fairness ==
  /\ \A t \in Tests : WF_vars(RunStep(t)) /\ WF_vars(CleanerStep(t))
  /\ \A u \in Users : /\ WF_vars(ChildStep(u))
                      /\ \A k \in Calls : WF_vars(ServedInTime(u, k)) /\ WF_vars(FilesStep(u, k))
                      /\ \A a \in Attempts : WF_vars(CleanStep(u, a))
FairSpec == Spec /\ Fairness

----------------------------------------------------------------------------
(* Properties *)

TypeOK ==
  /\ status \in [Tests -> Active \cup {"none", "completed", "completed_with_errors", "failed",
                                       "cancelled", "interrupted"}]
  /\ cancelRequested \in [Tests -> BOOLEAN] /\ capacityBlocked \in [Tests -> BOOLEAN]
  /\ cleanup \in [Tests -> {"retained", "cleaning", "cleaned", "failed"}]
  /\ storage \in [Users -> {"none", "retained", "cleaning", "cleaned"}]
  /\ phase \in [Users -> LivePhases \cup {"none", "prepare_failed", "succeeded", "failed",
                                          "timed_out", "cancelled", "interrupted"}]
  /\ runner \in [Tests -> {"idle", "lock", "refresh", "capacity", "preparing", "generating",
                           "unwinding"}]
  /\ cancelling \in [Tests -> {"no", "scheduled", "due"}]
  /\ lock \in Tests \cup {Nobody}
  /\ child \in [Users -> {"done", "preparing", "late", "settling", "generating"} \cup Aborting]
  /\ cleaner \in [Tests -> {"idle", "lock", "next", "sandbox", "files"}]
  /\ attempt \in [Tests -> 0..MaxCleanups]
  /\ call \in [Users -> [Calls -> {"none", "sent", "allocating", "allocated", "creating", "leased",
                                   "binding", "ok", "error"}]]
  /\ alloc \in [Users -> [Calls -> {"none", "queued", "checked", "ok", "refused"}]]
  /\ container \in [Users -> BOOLEAN] /\ row \in [Users -> {"none", "blank", "known"}]
  /\ routes \in [Users -> BOOLEAN]
  /\ sweep \in [Users -> [Attempts -> {"none", "queued", "removing", "ok", "error"}]]
  /\ removal \in [Users -> [Attempts -> {"none", "queued", "removing", "ok", "error"}]]
  /\ receipt \in [Users -> {"none", "begun", "done"}] /\ directory \in [Users -> BOOLEAN]
  /\ crashes \in 0..MaxCrashes /\ dockerFaults \in 0..MaxDockerFaults

(* Nothing of a user comes back after its cleanup is reported done: no     *)
(* session route, no directory, and no container or row unless Docker once *)
(* refused to remove a container, whatever late request or allocation was  *)
(* still on its way (backend.py:270-276, load_tests.py:480).               *)
CleanedGone ==
  \A u \in Users : storage[u] = "cleaned" =>
    /\ ~routes[u] /\ ~directory[u]
    /\ dockerFaults = 0 => ~container[u] /\ row[u] = "none"

(* A test without its run() is in no active status and none of its users   *)
(* still waits: otherwise no test could be started (load_test_store.py:154)*)
(* nor this one cleaned (load_tests.py:435).                               *)
EndedSettled ==
  \A t \in Tests : runner[t] = "idle" =>
    /\ status[t] \notin Active
    /\ \A u \in UsersOf(t) : phase[u] \notin LivePhases

(* Every test ends, and every cleanup that starts is done or refused, also *)
(* when an answer never comes or a service restarts (load_tests.py:387-418). *)
TestEnds == \A t \in Tests : status[t] \in Active ~> status[t] \notin Active
CleanupEnds == \A t \in Tests : cleanup[t] = "cleaning" ~> cleanup[t] # "cleaning"
=============================================================================
