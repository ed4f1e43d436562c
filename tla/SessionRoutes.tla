---------------------------- MODULE SessionRoutes ----------------------------
(***************************************************************************)
(* The registry of sandbox_manager (registry.py) and the requests that use *)
(* its session routes: native_router.py finds the owner of a session,      *)
(* records the sessions OpenCode creates in batches (SessionRecorder), and *)
(* session_binding.py moves each to its own directory before it executes.  *)
(* backend.reconcile() compares the registry with Docker at every start.   *)
(* An owner is one agent and one user, with one sandbox, one container and *)
(* one OpenCode database, whose session ids no other owner's database      *)
(* knows of.                                                               *)
(***************************************************************************)
EXTENDS Naturals, SequencesExt

CONSTANTS
  Owners, Sessions, Requests,
  None,
  BatchSize   \* at most 64 entries a transaction

ASSUME RoutesAssumption ==
  /\ BatchSize \in Nat \ {0}
  /\ None \notin Owners \cup Requests

VARIABLES
  up,          \* initialize() succeeded, the router is installed
  rows,        \* the sandboxes table: the owners with a row
  routes,      \* the sessions table: the owner of each session
  containers,  \* Docker: the owners whose container runs
  native,      \* OpenCode: where each session of each owner executes
  req,         \* the requests
  pending, batch, results, worker, \* SessionRecorder
  binding,     \* SessionBindings.locks: the holder of each session's lock
  acknowledged \* history: the owner told that a session is his

recorder == <<pending, batch, results, worker>>
docker   == <<containers, native>>
tables   == <<rows, routes>>
vars == <<up, tables, docker, req, recorder, binding, acknowledged>>

NotRunning == [pc |-> "idle"]

Init ==
  /\ up = FALSE
  /\ rows = {}
  /\ routes = [s \in Sessions |-> None]
  /\ containers = {}
  /\ native = [o \in Owners |-> [s \in Sessions |-> "none"]]
  /\ req = [r \in Requests |-> NotRunning]
  /\ pending = <<>> /\ batch = <<>> /\ results = <<>> /\ worker = "idle"
  /\ binding = [s \in Sessions |-> None]
  /\ acknowledged = [s \in Sessions |-> None]

To(r, pc) == req' = [req EXCEPT ![r].pc = pc]
Ends(r) == req' = [req EXCEPT ![r] = NotRunning]
Place(r) == native[req[r].owner][req[r].session]
PlaceAt(r, place) == native' = [native EXCEPT ![req[r].owner][req[r].session] = place]

----------------------------------------------------------------------------
(* Routing: the owner a request may reach *)

(* _resolve_owner: a session's route decides, and metadata must agree; a    *)
(* session without a route belongs to whom the metadata says.              *)
Resolved(s, o) == routes[s] \in {None, o}

Create(r, o) ==
  /\ up /\ req[r] = NotRunning
  /\ req' = [req EXCEPT ![r] = [pc |-> "acquiring", kind |-> "create", owner |-> o, session |-> None]]
  /\ UNCHANGED <<up, tables, docker, recorder, binding, acknowledged>>

(* A message to a session, or its fork.  Without a route the request is     *)
(* passed on as it is, to wherever the session executes.                   *)
Address(r, o, s) ==
  /\ up /\ req[r] = NotRunning /\ Resolved(s, o)
  /\ \E kind \in IF routes[s] = None THEN {"unrouted"} ELSE {"message", "fork"} :
       req' = [req EXCEPT ![r] = [pc |-> "acquiring", kind |-> kind, owner |-> o, session |-> s]]
  /\ UNCHANGED <<up, tables, docker, recorder, binding, acknowledged>>

(* acquire(): a container is created, or the owner's is started. *)
ContainerStarts(r) ==
  /\ req[r].pc = "acquiring" /\ req[r].owner \notin containers
  /\ containers' = containers \cup {req[r].owner}
  /\ UNCHANGED <<up, tables, native, req, recorder, binding, acknowledged>>

(* upsert_sandbox(): one row per owner; its id, and so its routes, stay.   *)
Persisted(o) == rows \cup {o}

(* It became ready, and its row says where it is. *)
Acquire(r) ==
  /\ req[r].pc = "acquiring" /\ req[r].owner \in containers
  /\ rows' = Persisted(req[r].owner)
  /\ To(r, CASE req[r].kind = "create" -> "upstream"
             [] req[r].kind = "unrouted" -> "executing"
             [] OTHER -> "binding")
  /\ UNCHANGED <<up, routes, docker, recorder, binding, acknowledged>>

(* What does not become ready in time is removed. *)
NotAcquired(r) ==
  /\ req[r].pc = "acquiring"
  /\ containers' = containers \ {req[r].owner}
  /\ Ends(r)
  /\ UNCHANGED <<up, tables, native, recorder, binding, acknowledged>>

----------------------------------------------------------------------------
(* OpenCode *)

(* record(): a worker that ended is replaced. *)
Wake == IF worker = "idle" THEN "collecting" ELSE worker

(* A new session executes in the shared root, or in its parent's directory; *)
(* its id is new in this database.  The router hands it to the recorder.    *)
NativeCreates(r, s) ==
  LET o == req[r].owner IN
  /\ req[r].pc = "upstream" /\ o \in containers /\ native[o][s] = "none"
  /\ native' = [native EXCEPT ![o][s] = "elsewhere"]
  /\ req' = [req EXCEPT ![r] = [@ EXCEPT !.pc = "recording", !.kind = "create", !.session = s]]
  /\ pending' = Append(pending, r) /\ worker' = Wake
  /\ UNCHANGED <<up, tables, containers, batch, results, binding, acknowledged>>

(* No answer, or none that names a session; it may exist all the same. *)
UpstreamFails(r) ==
  LET o == req[r].owner IN
  /\ req[r].pc = "upstream" /\ Ends(r)
  /\ \/ UNCHANGED native
     \/ \E s \in Sessions : /\ o \in containers /\ native[o][s] = "none"
                            /\ native' = [native EXCEPT ![o][s] = "elsewhere"]
  /\ UNCHANGED <<up, tables, containers, recorder, binding, acknowledged>>

(* The message has been executed, or failed. *)
Executed(r) ==
  /\ req[r].pc = "executing" /\ Ends(r)
  /\ UNCHANGED <<up, tables, docker, recorder, binding, acknowledged>>

----------------------------------------------------------------------------
(* Recording *)

(* _flush: after 5 ms, what has been collected by then. *)
Collect ==
  /\ worker = "collecting"
  /\ batch' = SubSeq(pending, 1, IF Len(pending) < BatchSize THEN Len(pending) ELSE BatchSize)
  /\ pending' = SubSeq(pending, Len(batch') + 1, Len(pending))
  /\ worker' = "writing"
  /\ UNCHANGED <<up, tables, docker, req, results, binding, acknowledged>>

(* An entry's savepoint: the row must match the sandbox's owner, and the   *)
(* session must be free or his; an entry that fails leaves the others.     *)
Inserted(table, r) ==
  IF req[r].owner \in rows /\ table[req[r].session] = None
  THEN [table EXCEPT ![req[r].session] = req[r].owner] ELSE table

Recorded == FoldLeft(Inserted, routes, batch)

(* A bug: the failing entries are left out of the results. *)
OutcomesShifted(table) ==
  LET kept == SelectSeq(batch, LAMBDA r : table[req[r].session] = req[r].owner) IN
  [i \in DOMAIN batch |-> i \in DOMAIN kept]
Outcomes(table) == [i \in DOMAIN batch |-> table[req[batch[i]].session] = req[batch[i]].owner]

Commit ==
  /\ worker = "writing"
  /\ routes' = Recorded
  /\ results' = Outcomes(Recorded)
  /\ worker' = "answering"
  /\ UNCHANGED <<up, rows, docker, req, pending, batch, binding, acknowledged>>

(* A bug: an error of the transaction ends the worker. *)
CommitUncaught ==
  /\ worker = "writing"
  /\ worker' = "idle"
  /\ UNCHANGED <<up, tables, docker, req, pending, batch, results, binding, acknowledged>>
(* The transaction fails: every entry of the batch does. *)
CommitFails ==
  /\ worker = "writing"
  /\ results' = [i \in DOMAIN batch |-> FALSE]
  /\ worker' = "answering"
  /\ UNCHANGED <<up, tables, docker, req, pending, batch, binding, acknowledged>>

(* A bug: entries collected meanwhile are left. *)
RestLeft == "idle"
Rest == IF pending = <<>> THEN "idle" ELSE "collecting"

Answer ==
  /\ worker = "answering"
  /\ req' = [r \in Requests |->
               IF r \notin ToSet(batch) THEN req[r]
               ELSE IF results[CHOOSE i \in DOMAIN batch : batch[i] = r]
                    THEN [req[r] EXCEPT !.pc = "binding"] ELSE NotRunning]
  /\ batch' = <<>> /\ results' = <<>>
  /\ worker' = Rest
  /\ UNCHANGED <<up, tables, docker, pending, binding, acknowledged>>

----------------------------------------------------------------------------
(* Binding: ensure() *)

Lock(r) ==
  /\ req[r].pc = "binding" /\ binding[req[r].session] = None
  /\ binding' = [binding EXCEPT ![req[r].session] = r]
  /\ To(r, "checking")
  /\ UNCHANGED <<up, tables, docker, recorder, acknowledged>>

Unlock(r) == binding' = [binding EXCEPT ![req[r].session] = None]

(* The session executes in its own directory from now on. *)
Bound(r) ==
  /\ Unlock(r)
  /\ CASE req[r].kind = "create" ->
            Ends(r) /\ acknowledged' = [acknowledged EXCEPT ![req[r].session] = req[r].owner]
       [] req[r].kind = "fork" -> To(r, "upstream") /\ UNCHANGED acknowledged
       [] OTHER -> To(r, "executing") /\ UNCHANGED acknowledged

(* A session that cannot be found or moved is not executed. *)
Unbound(r) == Unlock(r) /\ Ends(r) /\ UNCHANGED acknowledged

Check(r) ==
  /\ req[r].pc = "checking"
  /\ \/ Place(r) = "own" /\ Bound(r)
     \/ Place(r) = "elsewhere" /\ To(r, "moving") /\ UNCHANGED <<binding, acknowledged>>
     \/ Unbound(r)
  /\ UNCHANGED <<up, tables, docker, recorder>>

(* OpenCode refuses to move a busy session; a move is read back. *)
Move(r) ==
  /\ req[r].pc = "moving"
  /\ \/ Place(r) = "elsewhere" /\ PlaceAt(r, "own") /\ (Bound(r) \/ Unbound(r))
     \/ UNCHANGED native /\ Unbound(r)
  /\ UNCHANGED <<up, tables, containers, recorder>>

----------------------------------------------------------------------------
(* Restarts *)

ContainerLost(o) ==
  /\ o \in containers
  /\ containers' = containers \ {o}
  /\ UNCHANGED <<up, tables, native, req, recorder, binding, acknowledged>>

Crash ==
  /\ up /\ up' = FALSE
  /\ req' = [r \in Requests |-> NotRunning]
  /\ pending' = <<>> /\ batch' = <<>> /\ results' = <<>> /\ worker' = "idle"
  /\ binding' = [s \in Sessions |-> None]
  /\ UNCHANGED <<tables, docker, acknowledged>>

(* reconcile(): a row for every container Docker shows, also for those a   *)
(* crash left without; nothing is written before the whole list was        *)
(* validated, and the router is installed afterwards.  A failure is tried  *)
(* again after 5 s.                                                        *)
Reconciled == rows \cup containers

Initialize ==
  /\ ~up /\ up' = TRUE
  /\ rows' = Reconciled
  /\ UNCHANGED <<routes, docker, req, recorder, binding, acknowledged>>

----------------------------------------------------------------------------
Recorder == Collect \/ Commit \/ CommitFails \/ Answer

Next ==
  \/ \E r \in Requests :
       \/ \E o \in Owners : Create(r, o) \/ \E s \in Sessions : Address(r, o, s)
       \/ ContainerStarts(r) \/ Acquire(r) \/ NotAcquired(r)
       \/ \E s \in Sessions : NativeCreates(r, s)
       \/ UpstreamFails(r) \/ Executed(r)
       \/ Lock(r) \/ Check(r) \/ Move(r)
  \/ Recorder
  \/ \E o \in Owners : ContainerLost(o)
  \/ Crash \/ Initialize

(* The event loop keeps running the worker, and SQLite gives up waiting for *)
(* its lock after ten seconds.                                             *)
Spec == Init /\ [][Next]_vars /\ WF_vars(Recorder)

----------------------------------------------------------------------------
Waiting == {r \in Requests : req[r].pc = "recording"}

(* The variables have their types; every request that waits for its route  *)
(* is in the recorder exactly once, and a worker is there to answer it.    *)
TypeOK ==
  /\ up \in BOOLEAN
  /\ rows \subseteq Owners
  /\ routes \in [Sessions -> Owners \cup {None}]
  /\ containers \subseteq Owners
  /\ native \in [Owners -> [Sessions -> {"none", "elsewhere", "own"}]]
  /\ \A r \in Requests : req[r] # NotRunning =>
       /\ req[r].owner \in Owners /\ req[r].session \in Sessions \cup {None}
       /\ req[r].kind \in {"create", "message", "fork", "unrouted"}
  /\ ToSet(pending \o batch) = Waiting /\ IsInjective(pending \o batch)
  /\ worker \in {"idle", "collecting", "writing", "answering"}
  /\ worker = "idle" => Waiting = {}
  /\ binding \in [Sessions -> Requests \cup {None}]
  /\ acknowledged \in [Sessions -> Owners \cup {None}]

(* Whoever was told that a session is his has its route, in spite of ids    *)
(* that two databases chose alike, of batches that failed and of crashes;  *)
(* and a routed session executes for its owner only, in its own directory, *)
(* never in the shared root (native_router.py:297, 631; registry.py:235;   *)
(* session_binding.py:97).                                                 *)
Isolation ==
  /\ \A s \in Sessions : acknowledged[s] # None =>
       /\ routes[s] = acknowledged[s]
       /\ native[acknowledged[s]][s] = "own"
  /\ \A r \in Requests : req[r].pc = "executing" /\ req[r].kind = "message" =>
       routes[req[r].session] = req[r].owner /\ Place(r) = "own"

(* Every request waiting for its route is answered, whatever the others in  *)
(* its batch do (native_router.py:104-137).                                *)
RecordsAnswered == \A r \in Requests : r \in Waiting ~> r \notin Waiting
=============================================================================
