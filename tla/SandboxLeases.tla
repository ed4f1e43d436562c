--------------------------- MODULE SandboxLeases ---------------------------
(***************************************************************************)
(* The sandboxes of one agent inside sandbox_manager: one container per    *)
(* user, the leases its requests hold (native_router.py, backend.acquire   *)
(* and release), the health check that evicts idle containers (health.py), *)
(* the lifecycle command that blocks the agent, drains it and removes its  *)
(* containers, and the administrator's action on one sandbox (main.py).    *)
(* Everything runs on one event loop: an action is the code between two    *)
(* awaits.  Docker and OpenCode answer in any way.                         *)
(***************************************************************************)
EXTENDS Naturals, FiniteSets

CONSTANTS
  Users,       \* the users of the agent, a sandbox record each
  Requests,    \* requests in flight at a time
  IdleTimeout, \* idle_timeout_seconds, in ticks
  MaxTime,     \* bound: ticks of the clock
  MaxRestarts  \* bound: restarts of sandbox_manager

ASSUME TimesAssumption == IdleTimeout \in Nat \ {0} /\ MaxTime \in Nat /\ MaxRestarts \in Nat

(* A process has finitely many requests in flight, and none is the name of *)
(* another holder of a user's lock.                                        *)
ASSUME RequestsAssumption ==
  IsFiniteSet(Requests) /\ Requests \cap {"free", "health", "action"} = {}

(* "create" records a session, which persists the activity; "read" is no   *)
(* mutation; "events" is a server-sent event stream.                       *)
RequestKinds == {"message", "create", "read", "events"}
Mutations == {"message", "create"}
Free == "free"
NotRunning == [pc |-> "idle"]

VARIABLES
  req,        \* requests: [pc], and [pc, user, kind] while they run
  requests,   \* admission.requests: the mutating requests
  acquiring,  \* admission.acquiring: the requests inside acquire()
  lock,       \* backend._locks: the holder of each user's lock
  inUse,      \* backend.in_use
  observers,  \* backend.event_subscribers
  container,  \* Docker: "none", "running" or "stopped"
  busy,       \* OpenCode: a session of the container executes
  last,       \* registry: last_active_at
  health,     \* the health check of each user: [pc], [pc, seen, due] while it runs
  action,     \* the administrator's action on each user's sandbox
  command,    \* the lifecycle command that holds the agent's lock
  blocked,    \* admission.blocked
  drained,    \* history: a drain has ended since, and no resume
  now, restarts \* the clock, and a bound

counters == <<requests, acquiring, inUse, observers>>
docker   == <<container, busy>>
tasks    == <<health, action, command>>
gate     == <<blocked, drained>>
vars == <<req, counters, lock, docker, last, tasks, gate, now, restarts>>

Init ==
  /\ req = [r \in Requests |-> NotRunning]
  /\ requests = 0 /\ acquiring = 0
  /\ lock = [u \in Users |-> Free]
  /\ inUse = [u \in Users |-> 0] /\ observers = [u \in Users |-> 0]
  /\ container \in [Users -> {"none", "running"}]
  /\ busy = [u \in Users |-> FALSE]
  /\ last = [u \in Users |-> 0]
  /\ health = [u \in Users |-> NotRunning] /\ action = [u \in Users |-> NotRunning]
  /\ command = NotRunning /\ blocked = FALSE /\ drained = FALSE
  /\ now = 0 /\ restarts = 0

(* active_request_leases(): a subscription is an observer, no execution. *)
RequestLeases(u) == IF inUse[u] > observers[u] THEN inUse[u] - observers[u] ELSE 0

Touch(u) == last' = [last EXCEPT ![u] = now]
Unlock(u) == lock' = [lock EXCEPT ![u] = Free]
Remove(u) ==
  /\ container' = [container EXCEPT ![u] = "none"]
  /\ busy' = [busy EXCEPT ![u] = FALSE]

----------------------------------------------------------------------------
(* A request: authorize, acquire, serve, release *)

To(r, pc) == req' = [req EXCEPT ![r].pc = pc]
Mutates(r) == IF req[r].kind \in Mutations THEN 1 ELSE 0
Unadmit(r) == requests' = IF requests > 0 THEN requests - Mutates(r) ELSE 0

(* authorize() runs in a thread: the block it saw may be set meanwhile. *)
Authorize(r) ==
  /\ req[r] = NotRunning /\ ~blocked
  /\ \E u \in Users, k \in RequestKinds :
       req' = [req EXCEPT ![r] = [pc |-> "authorized", user |-> u, kind |-> k]]
  /\ UNCHANGED <<counters, lock, docker, last, tasks, gate, now, restarts>>

Enter(r) ==
  /\ req[r].pc = "authorized"
  /\ requests' = requests + Mutates(r) /\ acquiring' = acquiring + 1
  /\ To(r, "queued")
  /\ UNCHANGED <<inUse, observers, lock, docker, last, tasks, gate, now, restarts>>

(* acquire() raises: the lock is released and the counters go back. *)
Refused(r) ==
  /\ req' = [req EXCEPT ![r] = NotRunning]
  /\ acquiring' = acquiring - 1 /\ Unadmit(r)
  /\ lock' = [u \in Users |-> IF lock[u] = r THEN Free ELSE lock[u]]
  /\ UNCHANGED <<inUse, observers, tasks, gate, now, restarts>>

(* Mutant: a request that waited for the lock does not look again. *)
StillAdmittedUnchecked == TRUE
StillAdmitted == ~blocked

(* Under the user's lock, before and after the admission check of          *)
(* operations, the block is looked at again.                               *)
TakeLock(r) ==
  LET u == req[r].user IN
  /\ req[r].pc = "queued" /\ lock[u] = Free
  /\ IF StillAdmitted
       THEN /\ lock' = [lock EXCEPT ![u] = r] /\ To(r, "admitted")
            /\ UNCHANGED <<counters, docker, last, tasks, gate, now, restarts>>
       ELSE Refused(r) /\ UNCHANGED <<docker, last>>

Admitted(r) ==
  /\ req[r].pc = "admitted"
  /\ \/ /\ StillAdmitted /\ To(r, "starting")
        /\ UNCHANGED <<counters, lock, docker, last, tasks, gate, now, restarts>>
     \/ Refused(r) /\ UNCHANGED <<docker, last>>

(* _acquire_locked: a running container is reused as it is; one that does  *)
(* not become ready is removed and created again.                          *)
Ensured(u) ==
  /\ container' = [container EXCEPT ![u] = "running"]
  /\ \/ container[u] = "running" /\ UNCHANGED <<busy, last>>
     \/ busy' = [busy EXCEPT ![u] = FALSE] /\ Touch(u)

Acquired(r) ==
  LET u == req[r].user IN
  /\ req[r].pc = "starting"
  /\ Ensured(u)
  /\ inUse' = [inUse EXCEPT ![u] = @ + 1]
  /\ acquiring' = acquiring - 1
  /\ Unlock(u)
  /\ To(r, IF req[r].kind = "events" THEN "connecting" ELSE "serving")
  /\ UNCHANGED <<requests, observers, tasks, gate, now, restarts>>

NotAcquired(r) ==
  LET u == req[r].user IN
  /\ req[r].pc = "starting"
  /\ \/ UNCHANGED <<docker, last>>
     \/ Remove(u) /\ Touch(u)
  /\ Refused(r)

(* prompt_async: the session's execution outlives the request. *)
Execute(r) ==
  LET u == req[r].user IN
  /\ req[r].pc = "serving" /\ req[r].kind = "message" /\ container[u] = "running"
  /\ busy' = [busy EXCEPT ![u] = TRUE]
  /\ UNCHANGED <<req, counters, lock, container, last, tasks, gate, now, restarts>>

RecordSession(r) ==
  /\ req[r].pc = "serving" /\ req[r].kind = "create"
  /\ Touch(req[r].user) /\ To(r, "recorded")
  /\ UNCHANGED <<counters, lock, docker, tasks, gate, now, restarts>>

Subscribe(r) ==
  /\ req[r].pc = "connecting"
  /\ observers' = [observers EXCEPT ![req[r].user] = @ + 1]
  /\ To(r, "streaming")
  /\ UNCHANGED <<requests, acquiring, inUse, lock, docker, last, tasks, gate, now,
                 restarts>>

(* The end of a request, up to the first await of release(): the last      *)
(* lease of a sandbox is kept until the idle timestamp is written, unless  *)
(* the activity was persisted already.                                     *)
End(r) ==
  LET u == req[r].user
      s == req[r].pc
      atOnce == inUse[u] > 1 \/ s = "recorded"
  IN /\ s \in {"serving", "recorded", "connecting", "streaming"}
     /\ Unadmit(r)
     /\ observers' = IF s = "streaming" THEN [observers EXCEPT ![u] = @ - 1] ELSE observers
     /\ IF atOnce THEN inUse' = [inUse EXCEPT ![u] = @ - 1] /\ req' = [req EXCEPT ![r] = NotRunning]
                  ELSE To(r, "touching") /\ UNCHANGED inUse
     /\ UNCHANGED <<acquiring, lock, docker, last, tasks, gate, now, restarts>>

TouchSandbox(r) ==
  /\ req[r].pc = "touching"
  /\ Touch(req[r].user) /\ To(r, "touched")
  /\ UNCHANGED <<counters, lock, docker, tasks, gate, now, restarts>>

(* Mutant: the count read before the write is stored after it. *)
RemainingCaptured(u) == 0
Remaining(u) == inUse[u] - 1

(* The write may have failed; the lease ends all the same. *)
Released(r) ==
  LET u == req[r].user IN
  /\ req[r].pc \in {"touching", "touched"}
  /\ inUse' = [inUse EXCEPT ![u] = Remaining(u)]
  /\ req' = [req EXCEPT ![r] = NotRunning]
  /\ UNCHANGED <<requests, acquiring, observers, lock, docker, last, tasks, gate, now,
                 restarts>>

Request(r) ==
  \/ Authorize(r) \/ Enter(r) \/ TakeLock(r) \/ Admitted(r) \/ Acquired(r) \/ NotAcquired(r)
  \/ Execute(r) \/ RecordSession(r) \/ Subscribe(r) \/ End(r) \/ TouchSandbox(r) \/ Released(r)

----------------------------------------------------------------------------
(* HealthMonitor._check_sandbox, under the user's lock *)

HealthTo(u, pc) == health' = [health EXCEPT ![u].pc = pc]
HealthEnd(u) == health' = [health EXCEPT ![u] = NotRunning] /\ Unlock(u)
IdleFor(u) == now - health[u].seen >= IdleTimeout

(* The record is read once; its timestamp is used until the check ends. *)
HealthBegin(u) ==
  /\ health[u] = NotRunning /\ lock[u] = Free
  /\ ~blocked /\ container[u] # "none"
  /\ lock' = [lock EXCEPT ![u] = "health"]
  /\ health' = [health EXCEPT ![u] =
                  [pc |-> "probing", seen |-> last[u], due |-> now - last[u] >= IdleTimeout]]
  /\ UNCHANGED <<req, counters, docker, last, action, command, gate, now, restarts>>

(* A stopped container is removed once idle; one that does not answer its  *)
(* probe is only counted.                                                  *)
HealthNotRunning(u) ==
  /\ health[u].pc = "probing"
  /\ IF health[u].due /\ inUse[u] = 0 /\ container[u] = "stopped"
       THEN Remove(u) /\ last' = [last EXCEPT ![u] = health[u].seen]
       ELSE UNCHANGED <<docker, last>>
  /\ HealthEnd(u)
  /\ UNCHANGED <<req, counters, action, command, gate, now, restarts>>

(* Mutant: only the timestamp decides whether the sandbox is idle. *)
HealthInUseIgnored(u) == FALSE
HealthInUse(u) == inUse[u] > 0

(* The probe answers: a sandbox in use is touched, one used lately left. *)
HealthProbed(u) ==
  /\ health[u].pc = "probing" /\ container[u] = "running"
  /\ CASE HealthInUse(u) -> Touch(u) /\ HealthEnd(u)
       [] ~HealthInUse(u) /\ ~IdleFor(u) -> HealthEnd(u) /\ UNCHANGED last
       [] OTHER -> HealthTo(u, "asking") /\ UNCHANGED <<lock, last>>
  /\ UNCHANGED <<req, counters, docker, action, command, gate, now, restarts>>

(* The sessions' statuses: an execution counts as activity. *)
HealthAsked(u) ==
  /\ health[u].pc = "asking"
  /\ \/ busy[u] /\ Touch(u) /\ HealthEnd(u)
     \/ ~busy[u] /\ HealthTo(u, "stopping") /\ UNCHANGED <<lock, last>>
     \/ HealthEnd(u) /\ UNCHANGED last
  /\ UNCHANGED <<req, counters, docker, action, command, gate, now, restarts>>

(* The eviction writes back the timestamp it read at the beginning; it has *)
(* nothing to do when a lifecycle command removed the container meanwhile. *)
HealthEvict(u) ==
  /\ health[u].pc = "stopping" /\ container[u] # "none"
  /\ Remove(u)
  /\ last' = [last EXCEPT ![u] = health[u].seen]
  /\ HealthEnd(u)
  /\ UNCHANGED <<req, counters, action, command, gate, now, restarts>>

HealthGone(u) ==
  /\ health[u].pc = "stopping" /\ container[u] = "none"
  /\ HealthEnd(u)
  /\ UNCHANGED <<req, counters, docker, last, action, command, gate, now, restarts>>

HealthGoesOn(u) ==
  HealthNotRunning(u) \/ HealthProbed(u) \/ HealthAsked(u) \/ HealthEvict(u) \/ HealthGone(u)

Health(u) == HealthBegin(u) \/ HealthGoesOn(u)

----------------------------------------------------------------------------
(* execution(): the counters are read first, the sessions' statuses later *)

(* Mutant: a request is idle until its sandbox serves it. *)
QuietServed(U) == \A u \in U : RequestLeases(u) = 0
Quiet(U) == requests = 0 /\ acquiring = 0 /\ \A u \in U : RequestLeases(u) = 0

(* sandbox_action(), under the user's lock: start ensures a container;     *)
(* stop, restart, recover and destroy want the sandbox idle, unless they   *)
(* are forced with a preview of the executions they end.                   *)
ActionTo(u, pc) == action' = [action EXCEPT ![u] = [pc |-> pc]]
ActionEnd(u) == action' = [action EXCEPT ![u] = NotRunning] /\ Unlock(u)

ActionBegin(u) ==
  /\ action[u] = NotRunning /\ lock[u] = Free
  /\ lock' = [lock EXCEPT ![u] = "action"]
  /\ \/ Quiet({u}) /\ ActionTo(u, "asking")
     \/ ActionTo(u, "starting") \/ ActionTo(u, "forced")
  /\ UNCHANGED <<req, counters, docker, last, health, command, gate, now, restarts>>

ActionAsked(u) ==
  /\ action[u].pc = "asking"
  /\ \/ ~busy[u] /\ RequestLeases(u) = 0 /\ ActionTo(u, "acting") /\ UNCHANGED lock
     \/ ActionEnd(u)
  /\ UNCHANGED <<req, counters, docker, last, health, command, gate, now, restarts>>

ActionStarted(u) ==
  /\ action[u].pc = "starting"
  /\ \/ Ensured(u)
     \/ UNCHANGED <<docker, last>>
  /\ ActionEnd(u)
  /\ UNCHANGED <<req, counters, health, command, gate, now, restarts>>

ActionDone(u) ==
  /\ action[u].pc \in {"acting", "forced"}
  /\ \E c \in {"none", "stopped", "running"} : container' = [container EXCEPT ![u] = c]
  /\ busy' = [busy EXCEPT ![u] = FALSE]
  /\ Touch(u)
  /\ ActionEnd(u)
  /\ UNCHANGED <<req, counters, health, command, gate, now, restarts>>

ActionGoesOn(u) == ActionAsked(u) \/ ActionStarted(u) \/ ActionDone(u)

Action(u) == ActionBegin(u) \/ ActionGoesOn(u)

----------------------------------------------------------------------------
(* The lifecycle command *)

(* Mutant: a command that ends leaves its parameters behind. *)
CommandEndsKept == command' = [command EXCEPT !.pc = "idle"]
CommandEnds == command' = NotRunning

(* quiesce only drains; apply, archive, delete, restart and stop remove    *)
(* the agent's containers as well.                                         *)
CommandBlock ==
  /\ command = NotRunning
  /\ blocked' = TRUE
  /\ \E removes \in BOOLEAN : command' = [pc |-> "drain", removes |-> removes]
  /\ UNCHANGED <<req, counters, lock, docker, last, health, action, drained, now, restarts>>

(* drain(): every record's counters are looked at before its sessions are  *)
(* asked; a round that finds one of them busy is repeated.                 *)
DrainBegin ==
  /\ command.pc = "drain"
  /\ Quiet(Users)
  /\ command' = [pc |-> "asking", removes |-> command.removes, todo |-> Users]
  /\ UNCHANGED <<req, counters, lock, docker, last, health, action, gate, now, restarts>>

DrainAsk(u) ==
  /\ command.pc = "asking" /\ u \in command.todo
  /\ command' = IF busy[u] THEN [pc |-> "drain", removes |-> command.removes]
                           ELSE [command EXCEPT !.todo = @ \ {u}]
  /\ UNCHANGED <<req, counters, lock, docker, last, health, action, gate, now, restarts>>

(* remove_records() checks a record's leases before it fetches its         *)
(* container, the first one in the step that ends the drain.               *)
CheckRecord(U) ==
  IF U = {} THEN CommandEnds
  ELSE \E u \in U : IF RequestLeases(u) > 0 THEN CommandEnds
                    ELSE command' = [pc |-> "removing", at |-> u, todo |-> U \ {u}]

Drained ==
  /\ command.pc = "asking" /\ command.todo = {}
  /\ IF requests > 0 \/ acquiring > 0
       THEN command' = [pc |-> "drain", removes |-> command.removes] /\ UNCHANGED drained
       ELSE CheckRecord(IF command.removes THEN Users ELSE {}) /\ drained' = TRUE
  /\ UNCHANGED <<req, counters, lock, docker, last, health, action, blocked, now, restarts>>

RemoveRecord ==
  /\ command.pc = "removing"
  /\ Remove(command.at) /\ Touch(command.at)
  /\ CheckRecord(command.todo)
  /\ UNCHANGED <<req, counters, lock, health, action, gate, now, restarts>>

(* Docker fails to show the container, or fails after it was told to       *)
(* remove it: the command ends, and the registry keeps its record.         *)
RemoveRecordFails ==
  /\ command.pc = "removing"
  /\ UNCHANGED docker \/ Remove(command.at)
  /\ CommandEnds
  /\ UNCHANGED <<req, counters, lock, last, health, action, gate, now, restarts>>

(* Mutant: the drain has no deadline. *)
DeadlineNone == FALSE
Deadline == command.pc \in {"drain", "asking"}

DrainTimedOut ==
  /\ Deadline /\ CommandEnds
  /\ UNCHANGED <<req, counters, lock, docker, last, health, action, gate, now, restarts>>

Resume ==
  /\ command = NotRunning /\ blocked' = FALSE /\ drained' = FALSE
  /\ UNCHANGED <<req, counters, lock, docker, last, tasks, now, restarts>>

Command ==
  \/ CommandBlock \/ DrainBegin \/ Drained \/ RemoveRecord \/ RemoveRecordFails
  \/ DrainTimedOut \/ Resume
  \/ \E u \in Users : DrainAsk(u)

----------------------------------------------------------------------------
(* The surroundings *)

SessionEnds(u) ==
  /\ busy[u] /\ busy' = [busy EXCEPT ![u] = FALSE]
  /\ UNCHANGED <<req, counters, lock, container, last, tasks, gate, now, restarts>>

ContainerExits(u) ==
  /\ container[u] = "running"
  /\ container' = [container EXCEPT ![u] = "stopped"]
  /\ busy' = [busy EXCEPT ![u] = FALSE]
  /\ UNCHANGED <<req, counters, lock, last, tasks, gate, now, restarts>>

Tick ==
  /\ now < MaxTime /\ now' = now + 1
  /\ UNCHANGED <<req, counters, lock, docker, last, tasks, gate, restarts>>

(* A restart forgets the leases and the tasks; containers, timestamps and  *)
(* blocks are persistent.                                                  *)
Restart ==
  /\ restarts < MaxRestarts /\ restarts' = restarts + 1
  /\ req' = [r \in Requests |-> NotRunning]
  /\ requests' = 0 /\ acquiring' = 0
  /\ lock' = [u \in Users |-> Free]
  /\ inUse' = [u \in Users |-> 0] /\ observers' = [u \in Users |-> 0]
  /\ health' = [u \in Users |-> NotRunning] /\ action' = [u \in Users |-> NotRunning]
  /\ command' = NotRunning
  /\ UNCHANGED <<docker, last, gate, now>>

Next ==
  \/ \E r \in Requests : Request(r)
  \/ \E u \in Users : Health(u) \/ Action(u) \/ SessionEnds(u) \/ ContainerExits(u)
  \/ Command \/ Tick \/ Restart

Spec == Init /\ [][Next]_vars

(* Calls of Docker and OpenCode have timeouts, asyncio locks are FIFO, a   *)
(* drain has a deadline.  No client is obliged to close a stream.          *)
Fairness ==
  /\ \A r \in Requests :
       /\ SF_vars(TakeLock(r))
       /\ WF_vars(Enter(r) \/ Admitted(r) \/ Acquired(r) \/ NotAcquired(r)
                  \/ TouchSandbox(r) \/ Released(r))
  /\ \A u \in Users :
       /\ WF_vars(HealthGoesOn(u))
       /\ WF_vars(ActionGoesOn(u))
  /\ WF_vars(DrainTimedOut) /\ WF_vars(RemoveRecord \/ RemoveRecordFails)

FairSpec == Spec /\ Fairness

----------------------------------------------------------------------------
(* Properties *)

Leased == {"serving", "recorded", "connecting", "streaming", "touching", "touched"}
Acquiring == {"queued", "admitted", "starting"}
Count(S) == Cardinality({r \in Requests : req[r].pc \in S})
CountOf(u, S) == Cardinality({r \in Requests : req[r].pc \in S /\ req[r].user = u})

(* Type correctness. *)
TypeOK ==
  /\ req \in [Requests -> {NotRunning} \cup
       [pc : {"authorized"} \cup Acquiring \cup Leased, user : Users, kind : RequestKinds]]
  /\ requests \in Nat /\ acquiring \in Nat
  /\ lock \in [Users -> Requests \cup {Free, "health", "action"}]
  /\ inUse \in [Users -> Nat] /\ observers \in [Users -> Nat]
  /\ container \in [Users -> {"none", "running", "stopped"}]
  /\ busy \in [Users -> BOOLEAN]
  /\ last \in [Users -> Nat]
  /\ health \in [Users -> {NotRunning} \cup
       [pc : {"probing", "asking", "stopping"}, seen : Nat, due : BOOLEAN]]
  /\ action \in [Users -> [pc : {"idle", "asking", "starting", "acting", "forced"}]]
  /\ command \in {NotRunning} \cup [pc : {"drain"}, removes : BOOLEAN]
       \cup [pc : {"asking"}, removes : BOOLEAN, todo : SUBSET Users]
       \cup [pc : {"removing"}, at : Users, todo : SUBSET Users]
  /\ blocked \in BOOLEAN /\ drained \in BOOLEAN /\ now \in 0..MaxTime /\ restarts \in 0..MaxRestarts

(* The counters that eviction and draining rely on are exact: every lease, *)
(* subscription, mutation and acquisition in flight is counted once, over  *)
(* all interleavings of releases that wait for their write.                *)
CountersExact ==
  /\ \A u \in Users : inUse[u] = CountOf(u, Leased) /\ observers[u] = CountOf(u, {"streaming"})
  /\ acquiring = Count(Acquiring)
  /\ requests = Cardinality({r \in Requests :
       req[r].pc \in Acquiring \cup {"serving", "recorded"} /\ req[r].kind \in Mutations})

(* The code paths that may remove a container only when it is idle: the    *)
(* eviction, the administrator's unforced action, the lifecycle command.   *)
Removes(u) ==
  \/ HealthEvict(u)
  \/ ActionDone(u) /\ action[u].pc = "acting"
  \/ (RemoveRecord \/ RemoveRecordFails) /\ command.at = u

(* None of them ever removes it under a request or under an execution a    *)
(* request started (an event stream is no request).                        *)
NeverUnderRequest ==
  [][\A u \in Users : Removes(u) =>
       /\ ~busy[u]
       /\ ~\E r \in Requests :
            req[r].pc \in {"serving", "recorded", "connecting"} /\ req[r].user = u]_vars

(* From the end of a drain until the agent is resumed -- while a command   *)
(* removes its containers, after a quiesce or a command that failed, over  *)
(* restarts -- no request gets a lease and no session begins to execute,   *)
(* wherever the block fell among the awaits of authorize() and acquire().  *)
NoneAdmittedBlocked ==
  [][drained => \A u \in Users : inUse'[u] <= inUse[u] /\ (busy'[u] => busy[u])]_vars

(* A lifecycle command ends, and a request that waits for its sandbox is   *)
(* answered, even if a session or an event stream never ends.              *)
EveryoneSettles ==
  /\ command # NotRunning ~> command = NotRunning
  /\ \A r \in Requests : req[r].pc \in Acquiring ~> req[r].pc \notin Acquiring

----------------------------------------------------------------------------
(* A sentence of the code that does not hold (README, Findings).           *)

(* "Keep the lease until the idle timestamp is durable: otherwise a health *)
(* tick can evict between the lease decrement and this write" (release()): *)
(* a sandbox is evicted only when its durable idle timestamp has expired.  *)
EvictedAfterTimeout ==
  [][\A u \in Users : HealthEvict(u) => now - last[u] >= IdleTimeout]_vars
=============================================================================
