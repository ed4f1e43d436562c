# A TLA+ model of Opencode Cloud

Opencode Cloud runs OpenCode sandboxes for many users and lets administrators
publish, archive, restore and delete the agents those sandboxes run.  Seven
Python services cooperate over HTTP; the state that matters lives in four SQLite
files, a few JSON files and the memory of single-process asyncio services.  This
directory models the part of it that is hardest to test: which administrator's
job may touch which agent when, what happens to a publication whose calls are
lost, late or interrupted, whether a user's sandbox can be taken away under a
running request, whose session runs where, what a deletion removes, what the
catalogue may refer to, and whether the model gateway serves what the catalogue
says.

Paths below are relative to the repository.  `PROJECT.json` maps every definition
to the lines it models.

## 1. Inventory

### Components, their state and their operations

| component | state | operations | hard behaviour |
|---|---|---|---|
| `operations/src/store.py` job table | one row per job: kind, target, scope, status, attempts, release id | `submit`, `retry_deletion`, `transition`, `update`, `state` | admission check and insert are one transaction; unchecked `update` next to checked `transition` |
| `operations/main.py` workflows | one asyncio task per job | `run`, `checkpoint`, `reconcile`, cancel, retry, lifespan start and stop | every `await` is a point of crash, cancellation or lost answer; compensation; a finally clause that may rewrite the row |
| `operations/src/load_tests.py`, `load_test_store.py` | runs and users of load tests, `runtime.lock` | create, run, cancel, cleanup, recover | double cancellation, a container created after its deletion |
| `operations/src/recovery.py` | failure counts, attempt windows | `tick`, policy | decisions on stale records; limits |
| `catalog_service/main.py` | agents, versions, active version, drafts, releases | prepare, status, conditional commit, lifecycle | numbers, late and repeated commits |
| `catalog_service/src/management.py`, `admin_api.py`, `transfers.py`, `agent_templates.py`, `compiler.py` | one document: drafts, resources, models, templates, releases, a revision | edits under an optimistic revision, imports, exports | references between drafts, versions and resources; requests that read before their transaction; files removed inside one |
| `sandbox_manager/main.py` | block table, `applied.json`, verified table, command journal, admission counters | block, drain, apply, verify, resume, actions | separate durable writes; commands that outlive their caller |
| `sandbox_manager/catalog_client.py` | bundle cache `versions/<n>/<agent>` | load, install, stage, unstage | the cache is immutable, the numbers are not unique |
| `sandbox_manager/backend.py`, `health.py`, `native_router.py` | leases, observers, per-user locks, containers, `last_active_at` | acquire, release, streams, health check, eviction | check-then-await-then-act on counters; restarts |
| `sandbox_manager/registry.py`, `session_binding.py` | sandbox and session rows | batches, reconcile at start | batches of several requests |
| `model_gateway/main.py`, `src/state.py` | `active.json`, a router in memory | activate, rollback | crash between the two; calls that outlive their caller |
| `file_service/main.py`, `coordination.py`, `files.py`, `workspace.py` | files, journal of cleanups, per-agent locks | allocate, upload, cleanup | an interrupted cleanup; containers write without asking |
| `api_gateway`, `observability`, `admin_web`, `agent_runtime`, `shared_libs`, `config`, `build_image` | none that other parts depend on | | |

### Interactions

* The administrator's endpoints of `operations` write the job table and spawn a
  task.  The task calls `catalog_service` (prepare, commit, lifecycle),
  `model_gateway` (activate, rollback), `sandbox_manager` (quiesce, apply,
  verify, resume, archive, delete) and `file_service` (cleanup), one call at a
  time, each with a timeout of 180 s (`operations/main.py:40`).
* `sandbox_manager` asks `catalog_service` for the active bundle whenever it
  needs one, and asks `operations` whether an agent admits requests
  (`operations-admission`, closed while a row needs recovery).
* A user's request goes from `api_gateway` to `sandbox_manager`'s router, which
  checks the block, acquires a lease, and forwards it to the user's container.
* The lifecycle commands, the health check, the administrator's action on one
  sandbox and the users' requests share the containers, the per-user locks and
  the admission counters inside one event loop.

### What makes each component correct

* *Job table*: overlapping jobs are never under way together; operations and load
  tests exclude each other; a row that left execution does not come back; an
  uncertain outcome keeps its lease; an accepted cancellation is honoured; every
  queued job is settled.
* *Publication*: users run only on committed versions; a version is staged only
  behind the block and while nobody's request runs; a job that says "succeeded" is
  committed; a block always has an owner.
* *Sandboxes*: the counters are exact; nothing idle-only removes a container under
  a request or an execution; nobody is admitted between the drain and the resume;
  commands end and requests are answered.
* *Load tests*: nothing of a test user comes back after its cleanup; a test whose
  controller died is settled; tests and cleanups end.
* *Files*: a deletion removes what its preview showed and nothing reappears while
  it is pending; the quota holds; nobody keeps the agent's guard.
* *Catalogue*: what a draft names exists and may be used; a retired id stays
  retired; every model a request is admitted with is served; a form saves over what
  it showed.
* *Model gateway*: file, memory and router change as one; with no job open it serves
  the release of the catalogue's active version.
* *Sessions*: whoever was told that a session is his has its route, and a routed
  session runs for its owner, in its own directory.

The hazards list in `PROJECT.json` names each dangerous line with the properties
that watch it, or the reason none does.

## 2. Modules

```
JobStore        JobStoreProofs         MCJobStore
   ^
Publication     PublicationProofs      MCPublication
SandboxLeases   SandboxLeasesProofs    MCSandboxLeases
SessionRoutes   SessionRoutesProofs    MCSessionRoutes
LoadTest        LoadTestProofs         MCLoadTest
AgentFiles      AgentFilesProofs       MCAgentFiles
Catalog         CatalogProofs          MCCatalog

AtomicRegister <-- GatewayConfig <-- ModelRelease
                ModelReleaseProofs     MCModelRelease
```

The first column is the model, the second the TLAPS proofs, the third the instances
for TLC.  `PublicationProofs` EXTENDS `JobStoreProofs`, too; `ModelReleaseProofs` also
proves that `GatewayConfig` implements `AtomicRegister` (`Register == INSTANCE
AtomicRegister`).

`Publication` EXTENDS `JobStore`: it reuses the workers' actions unchanged and
conjoins to each the effect of the call the worker made and the answer it got.
Every behaviour of `Publication` is a behaviour of `JobStore` (the theorem
`PublicationImplementsJobStore`), so what is proved of the job table holds in it.
`SandboxLeases` looks at the inside of the drain that `Publication` takes as
`Idle`.

The services meet in several modules, each from one side.  `JobStore` takes every
call's outcome as nondeterministic; `Publication`, `ModelRelease`, `AgentFiles` and
`Catalog` give four kinds of job the effects of their calls on the other services;
`LoadTest` has all three services a test touches.

A few operators ("Mutant: ...", "A bug: ...") stand before the definition they vary.  They are
plausible slips in the code, used only to show that each checked property fails
when the slip is made; no action refers to them.

### JobStore

*State.*  `kind`, `scope`, `released`, `status`, `retries` are the columns of the
row that decide anything; `worker` holds the asyncio tasks with a program counter
that names the remote call a task is suspended at; `reconciling` the open
reconcile requests; `cancelling` the tasks whose `task.cancel()` has not been
delivered; `pinned` the agents of the active load test; `phase` the lifespan.
`touched` and `accepted` are history variables.

*Actions.*  One action is the code between two awaits.

| code | action |
|---|---|
| `JobStore.submit` + spawn | `Submit` |
| `retry_deletion` + spawn | `RetryDeletion` |
| cancel endpoint | `Cancel` |
| `run`: an answer, `checkpoint()`, next call | `Advance`, `StopCancelled`, `Refuse` |
| `run`: last answer, "succeeded" | `Succeed` |
| `run`: failed commit looked up | `LookUp` |
| `run`: `except Exception`, compensation | `FailCall`, `Reapplied`, `Compensated`, `NotCompensated` |
| `run`: `finally`, resume | `Finally` in every ending, `Resumed`, `NotResumed` |
| `reconcile` | `ReconcileBegin`, `ReconcileDone`, `ReconcileFailed` |
| load-test admission, end | `LoadStart`, `LoadEnd` |
| lifespan stop, delivery of `CancelledError` | `Stop`, `DeliverCancel` |
| lifespan start, crash | `Restart`, `Crash` |

The cancel endpoint is a plain `def`: it runs in a threadpool and can fall between
two adjacent checkpoints of the event loop.  That is why "begin" is a stage of its
own.  A call's outcome is nondeterministic; what a call does is left to the
composition.

*Abstractions.*  Payloads, progress texts, timestamps, previews and fingerprints
are left out; a preview that fails is a `FailCall`.  A request id is the job.

### Publication

*State.*  Of `catalog_service`: the version list (contents; the last is active),
each job's prepared release with the version it was prepared against, which
releases are committed, and the commit calls under way.  Of `sandbox_manager`: the
block, the staged version (`applied.json`), the verified row, the immutable bundle
cache, the FIFO of commands at the agent's lock.  Plus what each user's request
runs on and each caller's answer.

*Delivery.*  A command of `sandbox_manager` sits in the lock's queue and is carried
out whether its caller still waits or not (`Orphaned`); `TimeOut` and `Lose` are
errors at the caller.  A commit is carried out at any time after it was sent, or
never.  A crash of `operations` orphans its calls; a crash of `sandbox_manager`
drops its queue and its requests and keeps the disk.

*Numbers.*  `catalog_service` numbers a release `len(versions)+1`, so an abandoned
release and the next one share a number; the cache refuses other content under a
number it knows.  The model keeps both facts, and three findings come from them.

### SandboxLeases

*State.*  The requests with their program counters; `admission.requests` and
`admission.acquiring`; the per-user locks; `in_use` and `event_subscribers`; the
containers and whether a session executes in them; `last_active_at`; the health
check, the administrator's action and the lifecycle command with theirs.

*Actions.*  One per segment between awaits of `acquire`, `release`, the stream's
cleanup, `_check_sandbox`, `sandbox_action`, `drain`, `remove_records`.  Docker and
OpenCode may answer anything at any time, containers exit, sessions end; a removal in
`remove_records` may fail before or after Docker removed the container
(`RemoveRecordFails`).

*History.*  `drained` is set where a drain ends and cleared by the resume.  The block
alone would not do: the requests admitted before it may still enter until the drain
has waited for them.

### LoadTest

*State.*  Of `operations`: the rows of tests and users, where `run()`, its children
and `_cleanup` wait, `runtime.lock`, and whether a cancellation is scheduled or due.
Of `sandbox_manager`: the handler of each request of a user (new session, message,
abort), containers, rows, routes, and its cleanup calls.  Of `file_service`: the
allocation each handler asked for, its cleanup calls, the journal, the directories.

*Actions.*  One per segment between awaits: `Start` ... `Generated` are `run()`,
`SessionAnswered` ... `Aborted` its children, `CleanerLocked` ... `CleanupFails` the
cleanup, `Admit` ... `Serve` the handlers of `sandbox_manager`, `AllocChecked`,
`AllocDone`, `RemovalStart`, `RemovalEnd` those of `file_service`.  Each service
restarts on its own; what the others already asked of each other goes on.

*Abstractions.*  A graceful stop is a crash.  Capacity and catalogue may refuse at
any check.  `reconcile()` at the start of `sandbox_manager` succeeds before it
serves.  Other jobs, which hold `runtime.lock` too, only delay.

### AgentFiles

One agent, its users, uploads and other requests, the deletion job with its preview,
confirmed retries and cleanup calls, and the containers that write the same
directories.  `guard` is `FileCoordination.guard`, one lock for the agent.  A file is
a name with a size; `stamp` is the time the fingerprint contains; `left` is what
each interrupted upload leaves.  The kind "allocate" stands for listings and downloads,
too: they enter, ask and create the directories like it, and change nothing else.
Left out: `agent.delete-empty`, and what containers write against the quota, which the
code does not bound either.

### Catalog

*State.*  `doc` is the document, `revision` its revision.  A request that reads,
does something else and then edits (`ReadForm`/`SubmitForm`, `ReadResource`/
`PublishResource`, `Preview`/`CommitImport`) is kept in `request`; all others are one
transaction and one action.  `open` are releases whose job is under way, `late` those
committed after their job had ended, `intent` a deletion with what its preview
showed, `removing` and `lost` the compiled files a deletion removes inside its
transaction.

*Legacy models.*  While the gateway has no active version, or one without models
(`Fallback`), `prepare()` compares an agent with the document's models marked legacy
(`Available`).  Only the provider "legacy" is reserved, so the mark may be saved on any
model; an import refuses it.

*Abstractions.*  A model is enabled, enabled without a key, enabled and marked legacy,
or disabled; a resource has a content; a configuration names models and bound versions.
One request with two steps at a time.  What an import contains is chosen when it is
committed.

### AtomicRegister, GatewayConfig, ModelRelease

`AtomicRegister` is the promise of `model_gateway/docs/README.md`: value and previous
value change together.  `GatewayConfig` is the code: under a lock, build a router,
replace the file, store the release, store the router; a restart reads the file.
Readers see the memory while the gateway is up, and what a start would load while
it is not (`Served`): that is the refinement mapping.  `ModelRelease` composes it
with the jobs of `models.apply` and the catalogue's commits: calls are sent,
executed later, perhaps after their caller gave up (`stray`), or never.

*Abstractions.*  The overlap of a job's last resume with the next job is left to
`JobStore`.  Reconciliations of older failed jobs are left out.  A release's content
is its id.

### SessionRoutes

An owner is an agent and a user.  `routes` is the sessions table, `native` where each
owner's OpenCode executes each session (nowhere, elsewhere, in its own directory);
ids may collide between owners.  `pending`, `batch`, `results`, `worker` are the
`SessionRecorder`; `binding` the locks of `SessionBindings`.  `acknowledged` is
history: the owner who was answered that a session is his.  A session without a
route is forwarded as it is (kind "unrouted").  Sessions are never deleted natively;
rows and routes removed by cleanups are in `LoadTest`.

## 3. Runs

| run | instance | shows |
|---|---|---|
| `jobs` | 2 jobs of any of 7 kinds, 3 tasks, 2 agents, 1 retry, 2 stops or crashes, 1 load test | type invariant, target lease, load-test lease, uncertain outcomes held, cancellations honoured, no resurrection |
| `jobs_settle` | 2 jobs, 1 agent, apply and delete, 1 restart, fair | every executing job is settled |
| `publication` | 2 publications, 2 contents, 1 request, 2 faults, 1 restart, 1 reconcile | only committed versions are served; a version is staged behind the block and under nobody's request; success means committed |
| `publication_settles` | 2 publications, 1 content, 1 fault, 1 reconcile, fair | a block is lifted or owned |
| `leases` | 1 user, 2 requests, 1 tick, fair | exact counters, no removal under a request, everyone settles |
| `drain` | 2 users, 2 requests, 1 restart | the same removal property and, from the end of a drain to the resume, no new lease and no new execution, over two containers removed in turn |
| `load_tests` | 1 test, 1 user, 2 cleanups, 1 restart of any service, 1 Docker fault, fair | nothing comes back after a cleanup; a test without controller is settled; tests and cleanups end |
| `files` | 1 user, 2 names, 2 requests, quota 2, 2 executions, 1 container write, 1 crash, fair | only what was previewed is removed; nothing comes back; the quota; nobody keeps the guard |
| `catalog` | 1 model, 2 agents, 2 resources, 2 releases, 4 edits on a published catalogue or on a legacy one | references stay whole, admitted models are served once the gateway has models, forms save over what they showed |
| `models` | 3 releases, 3 crashes | the gateway is an atomic register; it agrees with the catalogue; a rollback finds what to return to |
| `routes` | 2 owners, 2 sessions, 2 requests, batches of 2, any number of restarts | isolation of sessions; every record is answered |
| `history_lost` | 1 agent, 1 resource, 1 release, 5 edits | refutes a sentence of the documentation: section 6 |

### Bounds

Every bound is a CONSTANT whose name begins with `Max`, and appears in a guard.  The
proofs in section 5 hold for every value of it, so for safety the bounds only decide
what TLC sees; they matter for liveness and for the refutations.

* *Two jobs.*  Every lease property relates two rows; a third row adds no new kind
  of conflict, because admission looks at each other row alone.
* *Three tasks.*  A retry can be accepted while the previous execution's task waits
  for its resume, so one job can have two tasks; with the other job's task that is
  three.
* *Two stops or crashes*: the second falls into what the first left behind.
* *One load test, one retry*: each is enough to meet every job status.
* *Two agents* are needed for scopes that do not overlap, next to `"*"`.
* *Faults.*  Two, so that a lost call and a crash, or a late apply and a late
  commit, meet in one behaviour.
* *Two requests* in `SandboxLeases`: one in `release()`, one in `acquire()`.
  *Two users*: one container removed, one still to come.  *One tick* passes the
  idle timeout of one.
* *One user of a load test*: users of a test share the batch, the barrier and the
  lock, and nothing in the other services.  The safety properties also hold of the
  instance `Users = {u1, u2}`, `TestOf <- TwoUsers`, batches of one, one cleanup and
  no restart (4.3 million states); with restarts and liveness it is too large to be
  repeated with every change.  *Two cleanups*: a failed one is asked for again.
* *Two executions* of a deletion: the first and a confirmed retry.  *Quota 2, size
  up to 2*: an upload that fits alone, one that fits only because it replaces, and one
  that exceeds.
* *Four edits* after the published start (`Installed`) are enough to take away any
  reference: disable or unbind, archive, delete, commit.  Two more starts are on legacy
  models: a draft while the gateway has no version (`Migrated`, four edits: both
  releases prepared and committed), and an agent published on them while the gateway's
  version is empty (`Emptied`, three edits).  *Five* from a draft for `history_lost`.
* *Three releases*: one to return to, one active, one that fails or comes late.
* *Two owners, two sessions*: an id that both databases choose, and another next to it
  in the batch.

`CHECK_DEADLOCK FALSE` appears where the system may stop: the instances of
`JobStore` and `Publication` end when every job is settled and every bound is used
up; the same holds of `LoadTest`, `AgentFiles`, `Catalog` and `ModelRelease`, whose
requests and crashes are bounded.  `SandboxLeases` and `SessionRoutes` never stop and
are checked for deadlock.

Symmetry is declared only in runs without liveness; the permuted constants are
only compared for equality, and no definition of these modules CHOOSEs one whose
identity can be observed.  (`Start` picks the row of a task by CHOOSE from a set
with one element.)

### Mutants

For each property of a passing run `PROJECT.json` names a slip in a mapped
definition that makes TLC find the property violated: a dropped `"*"` in the
conflict test, `update()` for `transition()`, `apply_started` set after the call, a
drain that does not wait, a count that is read before an await and stored after it,
and so on.

## 4. Fairness

* *Workers* (`WF Step`, `DeliverCancel`): every call has a timeout, so it ends, and
  the event loop runs the task.  No fairness is assumed for the *kind* of answer.
* *A stopped service starts again* (`WF Restart`): the compose file written by
  `build_image/build.py:220` says `restart: unless-stopped`.  A crash includes the
  start that follows it.
* *Commands at the agent's lock* (`WF SandboxStep`) and *commits that arrived*: the
  lock is a FIFO and a drain has a deadline, so the command at its head ends.
* *A request waiting for a user's lock* (`SF TakeLock`): `asyncio.Lock` is FIFO; the
  model's lock is a value without a queue, so strong fairness stands for the order.
* *Health check and action* (`WF`): Docker and OpenCode calls have timeouts.
* *Load tests* (`WF` for `run()`, its children, the cleanup): they run in the event
  loop and every call they make is bounded, the message by its time-out
  (`load_tests.py:291`).  The handlers of `sandbox_manager` are fair
  (`ServedInTime`) except the one that waits for a model's answer, which only its
  caller bounds.
* *Files* (`WF` for requests, cleanups and the job's worker): the guard is an
  `asyncio.Lock`, and every call made under it has a time-out.
* *Session recorder* (`WF Recorder`): its worker runs in the event loop, and SQLite
  gives up waiting for its lock after ten seconds.
* Nothing obliges a client to close a stream, a session to end, an administrator to
  cancel, retry or reconcile, or a test to end.

## 5. Proofs

Eight modules, one per component, hold the proofs.  Every invariant that a passing
run checks is a theorem here, for every value of the constants, and so are the
action properties `NoResurrection`, `NeverUnderRequest`, `NoneAdmittedBlocked` and
`FormsUndisturbed` and the refinement `Atomic`.  The inductive invariants stand in the
proof modules; TLC checked each one on the instance of its run before it was proved.

The proofs have one lemma per action, or per group of actions that look the same to
the invariant ("the step moves one request and leaves the routes alone"), and a QED
that combines them.  The only assumptions are the named `ASSUME`s of the modules,
which TLC evaluates in every run: bounds are naturals, names of different things
differ (a user is not called `"nobody"`), sets that live in one process or in one
directory are finite.

### JobStore

| theorem | statement |
|---|---|
| `Invariance`, `TaskInvariance` | `Spec => []IInv`, `Spec => []TaskInv` |
| `TypeCorrectness` | `Spec => []TypeOK` |
| `TargetLease` | `Spec => []ExecutingExclusive` |
| `LoadTestLease` | `Spec => []LoadTestExclusive` |
| `NoRowResurrected` | `Spec => NoResurrection` |
| `UncertainTargetHeld` | `Spec => []UncertainHeld` |
| `CancellationHonoured` | `Spec => []CancelHonoured` |

`IInv` is `TypeOK`, the two leases, and

* `KindScope`: models.apply has scope `"*"`, and only it.  `retry_deletion()`
  compares scopes exactly (`scope = ? OR scope = '*'`), not symmetrically like
  `submit()`; it is safe only because a deletion is never on `"*"`.
* `TasksCancelled`: only running tasks are being cancelled; `DeliverCancel` would
  otherwise write the row of no job.

The leases are then inductive, because the only steps that take a row from outside
into the executing states are `Submit` and `RetryDeletion`; `EnteredExecuting` and
`UncheckedKeeps` say that a worker's step never does.  That same fact is
`NoRowResurrected`.

`TaskInv` says what a task knows of its row: at each stage which statuses the row can
have (`TaskFits`), that a row has one task (`OneTask`), that a reconciliation gathers
evidence without a task beside it (`EvidenceAlone`), that a row whose cancellation was
accepted is over (`AcceptedEnds`): cancelled, or failed or needing recovery when the call
that was under way, or the resume, failed after the cancellation.  `CancelHonoured`
speaks of the target, which such a job never begins to change.  Permanent deletions are exempt from the parts
that a confirmed retry breaks, since it gives one row two tasks: finding 1.  The
lease over an uncertain target needs all of it: a cancellation is honoured only in
front of the first call that changes something, and a crash turns a row that was
changing into one that needs recovery.

### Publication

| theorem | statement |
|---|---|
| `PublicationImplementsJobStore` | `PubSpec => Spec` |
| `PublicationInvariance`, `CatalogInvariance` | `PubSpec => []PubIInv`, `PubSpec => [](CatalogInv /\ SandboxTypes)` |
| `StagedOnlyBehindBlock` | `PubSpec => []StagedBehindBlock` |
| `NobodyWhileStaged` | `PubSpec => []StagedUnderNobody` |
| `OnlyCommittedServed` | `PubSpec => []ServedCommitted` |
| `SuccessIsCommitted` | `PubSpec => []SucceededCommitted` |
| `PublicationTypeCorrectness` | `PubSpec => []PubTypeOK` |

*The refinement* maps every variable of `JobStore` to itself: each step of the
composition is one step of the job table or leaves it alone.  It carries both
invariants of the table over, which the others need for what workers send.

`PubIInv` is the three properties of the sandboxes, `Shape` (the few types they need)
and `DrainBlocks`: while a command drains, the block is set and that command is the
first of the queue.  `Apply` is therefore behind the block, and no `Resume` runs in
the middle of it.  `OrphanedHead`, `AppendHead`, `RemoveHead` say that callers who
time out, send or lose commands never change the head.  Staging is the end of a
drain, admission needs the block lifted, `Resume` unstages whenever it unblocks; an
admitted request loads the active version, and the list of versions only grows.

`CatalogInv` follows a job into the catalogue.  `Path` is what stage a row and its
task may be at together; `Owned`, `QueuePrepared` and `Acked` tie the queue, the
commits under way and the answers to the stages; `NotYet` says that a job whose
commit was sent never prepares again, so its release does not change under a commit
that is late; `Few` that every version but the first belongs to a committed job,
which bounds the numbers (`Numbers == 1..Cardinality(Jobs)+1`, hence `JobsFinite`).
A worker that got the answer "ok" or found its version listed is then in `committed`.

### ModelRelease

| theorem | statement |
|---|---|
| `GatewayImplementsRegister` | `Spec => Atomic`, that is `Spec => Register!Spec` |
| `PublicationInvariance` | `Spec => []JobInv` |
| `PublicationTypeCorrectness` | `Spec => []TypeOK` |
| `ReleaseToReturnTo` | `Spec => []ReturnKept` |
| `GatewayAndCatalogAgree` | `Spec => []Agreement` |

The register needs `GatewayTypes /\ WriteOrder`: while nobody is between the two
writes, file and memory say the same; between them, the file holds the target of the
call at work, which is still one to be admitted.  Storing the release is the
register's step; every other step, a crash included, is that step or leaves `Served`
alone.

`JobInv` adds `Protocol`.  One half holds whatever happened: an activation still under
way is the newest job's, whose target is then held (`ActivationHeld`); a rollback is
sent and answered once (`RollbackOnce`); what an acknowledgement proves
(`Acknowledged`); a release not yet activated is known to nobody (`Fresh`).  The other
half, stage by stage what gateway and catalogue hold (`InStep`, `Activating`,
`Undoable`), holds while nothing is executed behind a caller's back (`Quiet`).  From
the two, `Agreement` and `ReturnKept`.

### SandboxLeases

| theorem | statement |
|---|---|
| `LeaseInvariance` | `Spec => [](TypeOK /\ CountersExact /\ IInv)` |
| `LeaseTypeCorrectness` | `Spec => []TypeOK` |
| `LeasesCounted` | `Spec => []CountersExact` |
| `ContainersRemovedIdle` | `Spec => NeverUnderRequest` |
| `NobodyAdmittedWhileBlocked` | `Spec => NoneAdmittedBlocked` |

A counter is the cardinality of a set of requests; `OneMoves` says how it changes when
one request moves, so each action need only say which sets its request leaves and
enters.  That no counter becomes negative is part of the types.  `IInv` is who holds
a user's lock (`LockInv`) and what each of the three that remove containers has
established and not lost since: the health check that nobody holds a lease
(`HealthInv`), an administrator's action that nobody uses the sandbox (`ActionInv`), a
lifecycle command that, once its drain found the counters at zero, nobody is using a
sandbox or about to (`CommandInv`).  The last holds until the resume, not only while the
command runs: `drained` implies the block, and that no sandbox is used or about to be
(`Deserted`).  After a quiesce, a failed removal or a restart nothing else keeps
requests out, and `NoneAdmittedBlocked` follows from it.  `Requests` is finite: a process has finitely many
requests in flight.

### LoadTest

| theorem | statement |
|---|---|
| `LoadTestTypeCorrectness` | `Spec => []TypeOK` |
| `EndedIsSettled` | `Spec => []EndedSettled` |
| `CleanupInvariance` | `Spec => []CleanInv` |
| `NothingOfACleanedUser` | `Spec => []CleanedGone` |

`CleanInv` holds for each user separately: a cleanup that began stays begun
(`StorageInv`); once a sweep of `sandbox_manager` was answered no request of the user
holds his sandbox or will be admitted to it, and he has no route, container or row
(`SweepInv`); the removal of files begins only after that, and only when no allocation
stands between its check and its directory (`RemovalInv`); "cleaned" is written when
both are done (`CleanedInv`).  `UserKept` says which steps leave a user's part
alone; the others are proved one by one.  `dockerFaults` excepts containers that Docker
refused to remove: section 6.

### AgentFiles

| theorem | statement |
|---|---|
| `FilesInvariance` | `Spec => []IInv` |
| `FilesTypeCorrectness` | `Spec => []TypeOK` |
| `OnlyPreviewedRemoved` | `Spec => []RemovesPreviewed` |
| `NothingComesBack` | `Spec => []CleanedEmpty` |
| `QuotaRespected` | `Spec => []QuotaKept` |

`IInv` rests on the guard: an admitted request and the cleanup at work hold it, so
there is one of them (`GuardHeld`); what an upload measured is still what its user
holds (`Measured`); when a cleanup is done no admitted request is left
(`NoneAdmitted`).  `TaskAt` and `Removed` say where the job waits and how far journal
and disk have come, `Stopped` that behind the first cleanup the agent is blocked and
nothing runs.  The quota is about the sum of a directory's files: `SumFunctionUpdate`,
`SumFunctionBound` and `SumZero` say what the fold of the community modules gives when
one value changes, and hold for every finite set of names.

### SessionRoutes

| theorem | statement |
|---|---|
| `RouteInvariance` | `Spec => []IInv` |
| `RoutesTypeCorrectness` | `Spec => []TypeOK` |
| `SessionsIsolated` | `Spec => []Isolation` |

`RequestInv` is what a request has established at each of its states, `RecorderInv`
that the requests that wait for their route are those of queue and batch, each once,
and that a good outcome in a batch has its route; `AcknowledgedInv` is `Isolation` for
the owner who was told.  All of it rests on routes never being overwritten, batch by
batch, which is a fact about the fold that writes a batch.

### Catalog

| theorem | statement |
|---|---|
| `CatalogInvariance` | `Spec => []IInv` |
| `CatalogTypeCorrectness` | `Spec => []TypeOK` |
| `ReferencesStayWhole` | `Spec => []ReferencesWhole` |
| `AdmittedIsServed` | `Spec => []GatewayServes` |
| `FormsReplaceWhatTheyRead` | `Spec => FormsUndisturbed` |

`Sound` gives the document its types and numbers versions by position; `Whole` is
`ReferencesWhole` without what restarts and removals add.  `FormInv`: while the
revision is the one a form carries, the draft is the one it showed.  `OpenInv` is the
core of `GatewayServes`: as long as no release commits after its job ended
(`late = {}`), what an active version may call is served once the gateway has models,
and a release under way keeps what its `prepare()` compared, because none that could
disturb it runs beside it.  `Serving` is conditional on `~Fallback`: agents published on
legacy models are served by nobody until the gateway's first models are committed, and
`prepare()` compares those with every active agent.  The constant agents are not named `"shared"`, `"*"` or `"nobody"`, which the
model uses for owners and targets that are no agent.

### What is only model-checked

* Liveness: `JobSettles`, `BlockOwned`, `EveryoneSettles`, `TestEnds`, `CleanupEnds`,
  `GuardFreed`, `RecordsAnswered`.  The prover has no rule for fairness and ENABLED.
* The refutations of section 6, which are counterexamples.

The prover cannot instantiate the library's induction theorems, whose parameter is an
operator, and so cannot state what a recursive definition computes on all data as one
induction.  Two facts needed it all the same, the sum over a directory and the fold
over a batch; both are proved with well-founded minimality in the form of a set
(`MinimalSet` in `AgentFilesProofs`, `MinimalSubset` in `SessionRoutesProofs`): among
the subsets of a finite set for which the claim fails there is a smallest one, and the
recursion's equation refutes it.

## 6. Findings

`history_lost` refutes docs/api.md:312 (a resource that a published version refers to
cannot be deleted): a release in flight is no reference, so a resource is deleted and
the later commit publishes a version bound to it.  The export of the whole catalogue
then fails.  `PROJECT.json` describes the behaviour.

Six more sentences of the repository do not hold.  Their properties stand at the end
of their modules; TLC refutes each within a minute, named as the INVARIANT or PROPERTY
of the configuration of `jobs`, `publication` or `leases` with the constants given.

1. `RetryOnlyInterrupted` (`JobStore`; 1 job, 3 tasks, "agent.delete", 2 retries): a
   confirmed retry is accepted while an earlier execution of the same deletion is
   still deleting (`store.py:145`: "Only interrupted permanent deletion accepts a newly
   confirmed retry").  The first worker's failing resume writes needs_recovery over the
   retried execution (`operations/main.py:469`).
2. `CommittedProved` (`Publication`): a reconciliation commits a
   release whose content was never the verified one, because it compares version
   numbers and numbers are reused (`operations/main.py:106-113`,
   `operations/docs/README.md:15`).
3. `FailedNotCommitted` (`Publication`): a commit that timed out takes effect after it
   was looked up, and the job is reported failed (`contracts/README.md:18`).
4. `ApplyInstallable` (`Publication`): the number of an abandoned release
   is given to the next one, which the cache then refuses
   (`catalog_service/main.py:266`, `sandbox_manager/catalog_client.py:50`).
5. `BlockRecorded` (`Publication`): a crash after the final status and
   before the resume leaves an agent blocked with no row that says so
   (`operations/docs/README.md:7`).
6. `EvictedAfterTimeout` (`SandboxLeases`; MaxTime 2): the health check uses a
   timestamp from before its probes, so a request in between does not postpone the
   eviction (`health.py:222`, `backend.py:341-342`).

Met while modelling, and not run:

* While the gateway has no active version, or an empty one, an agent is published on
  models that are only marked legacy (`catalog_service/main.py:259-261`); requests are
  admitted with them and offered them (`admin_api.py:85-87`), and no version of the
  gateway serves them.  `save_model` reserves the provider "legacy" and not the mark
  (`management.py:534`).  `GatewayServes` therefore begins with the gateway's first
  models.
* A call or a resume that fails writes "failed" or "needs_recovery" over a row whose
  cancellation was accepted (`operations/main.py:451-455`, 469): the job has changed
  nothing, but its row no longer says "cancelled".
* A row whose *late* resume failed needs recovery while another job may already
  execute on the same target (`operations/main.py:465-473`), so "needs recovery
  excludes other jobs" (`operations/docs/README.md:7`) does not hold.
* The end of an event stream drops the observer before the lease, with a database
  write in between (`native_router.py:516-522`), so a drained removal may be refused
  with "Sandbox has active leases" (`main.py:642`) although streams are said not to
  block (`backend.py:106-107`).
* A session whose route could not be recorded is forwarded unbound to wherever it
  executes (`native_router.py:241-306`), against `session_binding.py:54-55`.
* A cleanup that `file_service` began and did not finish refuses every repetition of
  its request id (`coordination.py:82-86`); a load test repeats its cleanup under the
  same id, so it can never be cleaned although `load_test_store.py:347` says "retry
  cleanup".  A failed creation whose container Docker refuses to remove leaves a
  container that no row names (`CleanedGone` excepts it: `dockerFaults`).
* A deletion looks at the lifecycle before it takes its lease
  (`operations/main.py:602-609`): an agent restored in between is deleted for good.
* A crash between the removal of compiled files and the commit of the deletion leaves
  a service that refuses to start (`catalog_service/main.py:423`, 146).
* `models.apply` that needs recovery before its activation can never be settled and
  blocks every agent (`operations/main.py:108-112`, scope "*").
* A request for inference captures the router before it awaits its body and reads the
  headers of the configuration that is active afterwards
  (`model_gateway/main.py:104-123`).
* Automatic recovery counts failures of sandboxes that are "unhealthy" or "missing",
  but asking for the detail of an exited container marks it "stopped"
  (`sandbox_manager/main.py:378-381`), so its count does not reach two; and what it
  checked before that await may be stale when it submits (`recovery.py:102`).

## 7. Not modelled, and the plan

Left out for good: `admin_web`, `observability`, `api_gateway`, `shared_libs`,
`config`, `build_image`, `agent_runtime` and the file-format conversions of
`catalog_service`: they keep no state the others rely on.  The planning scripts under
`.agents` are tools of the developers and no part of the system.

Left out so far:

1. Automatic recovery (`recovery.py`): windows, backoff and idle evidence.  Its job is
   one of `JobStore`'s sandbox actions, its evidence the counters of `SandboxLeases`.
2. The journal of executed commands of `sandbox_manager` (`main.py:694`) and the
   desired-state table of single sandboxes: the modelled callers use each id once.
3. `agent.delete-empty` in `AgentFiles`; capacity figures and the budget of creations.

No safety property of a run is left without a proof.  Worth stating and proving next:
that a row leaves the executing statuses only for an end or for needs_recovery (now
inside the lemmas of `JobStoreProofs`), and that whoever waits for a guard or a lock
waits for somebody who is at work, which the liveness properties rest on.
