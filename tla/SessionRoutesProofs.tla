------------------------- MODULE SessionRoutesProofs -------------------------
(***************************************************************************)
(* Proofs about SessionRoutes, for every set of owners, sessions and       *)
(* requests and every size of a batch: a request that waits for its route  *)
(* is in the recorder exactly once, and whoever was told that a session is *)
(* his keeps its route, whatever the batches and the crashes.              *)
(***************************************************************************)
EXTENDS SessionRoutes, SequenceTheorems, FiniteSetTheorems, TLAPS

----------------------------------------------------------------------------
(* The inductive invariant *)

Kinds  == {"create", "message", "fork", "unrouted"}
States == {"acquiring", "upstream", "recording", "binding", "checking", "moving", "executing"}
Request == [pc : States, kind : Kinds, owner : Owners, session : Sessions \cup {None}]

(* What a request has established when it is at its state: the session it  *)
(* speaks of, the route of the session once it has one, and where the      *)
(* session is when a message executes.                                     *)
Named(r)  == req[r].pc \in {"recording", "binding", "checking", "moving"} \/ req[r].kind # "create"
HasRoute(r) == req[r].pc \in {"binding", "checking", "moving"} \/ req[r].kind \in {"message", "fork"}
Good(r) == req[r] # NotRunning =>
  /\ Named(r) => req[r].session \in Sessions
  /\ HasRoute(r) => routes[req[r].session] = req[r].owner
  /\ req[r].pc = "executing" /\ req[r].kind = "message" => Place(r) = "own"
RequestInv ==
  /\ req \in [Requests -> Request \cup {NotRunning}]
  /\ \A r \in Requests : Good(r)

(* The recorder: a worker that collects has no batch, one that answers has *)
(* an outcome of each entry, and a good one has its route.                 *)
ToAnswer == worker = "answering" =>
  /\ results \in [DOMAIN batch -> BOOLEAN]
  /\ \A i \in DOMAIN batch : results[i] => routes[req[batch[i]].session] = req[batch[i]].owner
Entries ==
  /\ pending \in Seq(Requests) /\ batch \in Seq(Requests)
  /\ IsInjective(pending) /\ IsInjective(batch)
  /\ ToSet(pending) \cap ToSet(batch) = {}
  /\ ToSet(pending) \cup ToSet(batch) = Waiting
  /\ worker = "idle" => pending = <<>>
  /\ worker \in {"idle", "collecting"} => batch = <<>>
RecorderInv == Entries /\ ToAnswer

VariableTypes ==
  /\ up \in BOOLEAN /\ rows \in SUBSET Owners /\ containers \in SUBSET Owners
  /\ routes \in [Sessions -> Owners \cup {None}]
  /\ native \in [Owners -> [Sessions -> {"none", "elsewhere", "own"}]]
  /\ worker \in {"idle", "collecting", "writing", "answering"}
  /\ binding \in [Sessions -> Requests \cup {None}]
  /\ acknowledged \in [Sessions -> Owners \cup {None}]

AcknowledgedInv ==
  \A s \in Sessions : acknowledged[s] # None =>
    routes[s] = acknowledged[s] /\ native[acknowledged[s]][s] = "own"

IInv == VariableTypes /\ RequestInv /\ RecorderInv /\ AcknowledgedInv

----------------------------------------------------------------------------
(* What a step leaves alone *)

(* Only r moves, and not through the recorder. *)
Aside(r)  == \A q \in Requests \ {r} : req'[q] = req[q]
Moves(r)  == Aside(r) /\ req[r].pc # "recording" /\ req'[r].pc # "recording"
RoutesStay == \A s \in Sessions : routes[s] # None => routes'[s] = routes[s]
OwnStays == \A o \in Owners, s \in Sessions : native[o][s] = "own" => native'[o][s] = "own"

LEMMA OthersKeep ==
  ASSUME VariableTypes, RequestInv, NEW r \in Requests, Aside(r), RoutesStay, OwnStays,
         req' \in [Requests -> Request \cup {NotRunning}], Good(r)'
  PROVE  RequestInv'
<1>1. ASSUME NEW q \in Requests, q # r PROVE Good(q)'
  <2>1. req'[q] = req[q] /\ Good(q) /\ req[q] \in Request \cup {NotRunning}
    BY <1>1 DEF Aside, RequestInv
  <2>2. (Named(q)' <=> Named(q)) /\ (HasRoute(q)' <=> HasRoute(q))
    BY <2>1 DEF Named, HasRoute
  <2>3. ASSUME req[q] # NotRunning
        PROVE  req[q].owner \in Owners /\ req[q].owner # None
    BY <2>1, <2>3, RoutesAssumption DEF Request
  <2>4. ASSUME req[q] # NotRunning, HasRoute(q)
        PROVE  routes'[req[q].session] = req[q].owner
    BY <2>1, <2>3, <2>4 DEF Good, RoutesStay, HasRoute, Named
  <2>5. ASSUME req[q] # NotRunning, req[q].pc = "executing", req[q].kind = "message"
        PROVE  native'[req[q].owner][req[q].session] = "own"
    BY <2>1, <2>3, <2>5 DEF Good, OwnStays, Named, Place
  <2> QED
    BY <2>1, <2>2, <2>4, <2>5 DEF Good, Place
<1> QED
  BY <1>1 DEF RequestInv

LEMMA WaitingStays ==
  ASSUME NEW r \in Requests, Moves(r) PROVE Waiting' = Waiting /\ r \notin Waiting
BY DEF Moves, Aside, Waiting

LEMMA RecorderStays ==
  ASSUME RecorderInv, UNCHANGED <<pending, batch, results, worker, routes>>,
         NEW r \in Requests, Moves(r)
  PROVE  RecorderInv'
<1>1. Waiting' = Waiting /\ r \notin Waiting
  BY WaitingStays
<1>2. \A i \in DOMAIN batch : batch[i] \in Waiting /\ req'[batch[i]] = req[batch[i]]
  <2>1. \A i \in DOMAIN batch : batch[i] \in ToSet(batch)
    BY DEF ToSet
  <2> QED
    BY <1>1, <2>1 DEF RecorderInv, Entries, Moves, Aside, Waiting
<1>3. Entries => Entries'
  BY <1>1 DEF Entries
<1>4. ToAnswer => ToAnswer'
  BY <1>2 DEF ToAnswer
<1> QED
  BY <1>1, <1>3, <1>4 DEF RecorderInv

(* The state of one request changes, or it ends. *)
LEMMA RequestTypes ==
  ASSUME RequestInv, NEW r \in Requests
  PROVE  /\ req[r] # NotRunning =>
              /\ req[r] \in Request /\ req[r].pc \in States /\ req[r].kind \in Kinds
              /\ req[r].owner \in Owners /\ req[r].session \in Sessions \cup {None}
         /\ req[r].pc \in States => req[r] # NotRunning
         /\ req[r] = NotRunning => req[r].pc = "idle"
BY DEF RequestInv, Request, NotRunning, States

LEMMA ToMoves ==
  ASSUME RequestInv, NEW r \in Requests, req[r] # NotRunning, NEW pc \in States, To(r, pc)
  PROVE  /\ req' \in [Requests -> Request \cup {NotRunning}]
         /\ Aside(r) /\ req'[r] # NotRunning /\ req'[r].pc = pc /\ req'[r].kind = req[r].kind
         /\ req'[r].owner = req[r].owner /\ req'[r].session = req[r].session
<1>1. req' = [req EXCEPT ![r] = [req[r] EXCEPT !.pc = pc]]
  BY DEF To
<1>2. req[r] \in Request /\ req \in [Requests -> Request \cup {NotRunning}]
  BY RequestTypes DEF RequestInv
<1>3. req'[r] = [req[r] EXCEPT !.pc = pc]
  BY <1>1, <1>2
<1>4. req'[r] \in Request /\ req'[r].pc = pc /\ req'[r].kind = req[r].kind
      /\ req'[r].owner = req[r].owner /\ req'[r].session = req[r].session
  BY <1>2, <1>3 DEF Request
<1>5. req'[r] # NotRunning
  BY <1>4 DEF States, NotRunning
<1> QED
  BY <1>1, <1>2, <1>4, <1>5 DEF Aside

LEMMA EndsMoves ==
  ASSUME RequestInv, NEW r \in Requests, Ends(r)
  PROVE  /\ req' \in [Requests -> Request \cup {NotRunning}]
         /\ Aside(r) /\ req'[r] = NotRunning /\ req'[r].pc = "idle" /\ Good(r)'
<1>1. req' = [req EXCEPT ![r] = NotRunning] /\ req \in [Requests -> Request \cup {NotRunning}]
  BY DEF Ends, RequestInv
<1>2. req'[r] = NotRunning
  BY <1>1
<1>3. Good(r)'
  BY <1>2 DEF Good
<1> QED
  BY <1>1, <1>2, <1>3 DEF Aside, NotRunning

LEMMA StepsAside ==
  ASSUME IInv, NEW r \in Requests, Moves(r), OwnStays, VariableTypes', Good(r)',
         UNCHANGED <<routes, recorder, acknowledged>>,
         req' \in [Requests -> Request \cup {NotRunning}]
  PROVE  IInv'
<1>1. RequestInv'
  BY OthersKeep DEF IInv, Moves, RoutesStay
<1>2. RecorderInv'
  BY RecorderStays DEF IInv, recorder
<1>3. AcknowledgedInv'
  BY DEF IInv, AcknowledgedInv, VariableTypes, OwnStays
<1> QED
  BY <1>1, <1>2, <1>3 DEF IInv

LEMMA NativeStays == ASSUME UNCHANGED native PROVE OwnStays
  BY DEF OwnStays

----------------------------------------------------------------------------
(* Routing *)

LEMMA CreateSafe ==
  ASSUME IInv, NEW r \in Requests, NEW o \in Owners, Create(r, o) PROVE IInv'
<1> DEFINE new == [pc |-> "acquiring", kind |-> "create", owner |-> o, session |-> None]
<1>1. /\ req[r] = NotRunning /\ req' = [req EXCEPT ![r] = new]
      /\ req \in [Requests -> Request \cup {NotRunning}]
      /\ UNCHANGED <<up, rows, routes, containers, native, pending, batch, results, worker, binding, acknowledged>>
  BY DEF Create, tables, docker, recorder, IInv, RequestInv
<1>2. new \in Request
  BY DEF Request, States, Kinds
<1>3. req' \in [Requests -> Request \cup {NotRunning}] /\ req'[r] = new /\ Aside(r)
  BY <1>1, <1>2 DEF Aside
<1>4. Good(r)'
  BY <1>3 DEF Good, Named, HasRoute
<1>5. Moves(r) /\ VariableTypes'
  BY <1>1, <1>3 DEF Moves, NotRunning, IInv, VariableTypes
<1> QED
  BY <1>1, <1>3, <1>4, <1>5, NativeStays, StepsAside DEF recorder

LEMMA AddressSafe ==
  ASSUME IInv, NEW r \in Requests, NEW o \in Owners, NEW s \in Sessions, Address(r, o, s)
  PROVE  IInv'
<1>1. /\ req[r] = NotRunning /\ routes[s] \in {None, o}
      /\ UNCHANGED <<up, rows, routes, containers, native, pending, batch, results, worker, binding, acknowledged>>
  BY DEF Address, Resolved, tables, docker, recorder
<1>2. PICK kind \in IF routes[s] = None THEN {"unrouted"} ELSE {"message", "fork"} :
        req' = [req EXCEPT ![r] = [pc |-> "acquiring", kind |-> kind, owner |-> o, session |-> s]]
  BY DEF Address
<1> DEFINE new == [pc |-> "acquiring", kind |-> kind, owner |-> o, session |-> s]
<1>3. new \in Request
  BY <1>2 DEF Request, States, Kinds
<1>4. req' \in [Requests -> Request \cup {NotRunning}] /\ req'[r] = new /\ Aside(r)
  BY <1>2, <1>3 DEF Aside, IInv, RequestInv
<1>5. Good(r)'
  BY <1>1, <1>2, <1>4 DEF Good, Named, HasRoute
<1>6. Moves(r) /\ VariableTypes'
  BY <1>1, <1>4 DEF Moves, NotRunning, IInv, VariableTypes
<1> QED
  BY <1>1, <1>4, <1>5, <1>6, NativeStays, StepsAside DEF recorder

LEMMA StartSafe ==
  ASSUME IInv, NEW r \in Requests, ContainerStarts(r) PROVE IInv'
<1>1. /\ req[r].pc = "acquiring" /\ containers' = containers \cup {req[r].owner}
      /\ UNCHANGED <<up, rows, routes, native, req, pending, batch, results, worker, binding, acknowledged>>
  BY DEF ContainerStarts, tables, recorder
<1>2. req[r].owner \in Owners
  BY <1>1, RequestTypes DEF IInv, States
<1>3. VariableTypes'
  BY <1>1, <1>2 DEF IInv, VariableTypes
<1>4. Moves(r) /\ Good(r)' /\ req' \in [Requests -> Request \cup {NotRunning}]
  BY <1>1 DEF Moves, Aside, IInv, RequestInv, Good, Named, HasRoute, Place
<1> QED
  BY <1>1, <1>3, <1>4, NativeStays, StepsAside DEF recorder

LEMMA AcquireSafe ==
  ASSUME IInv, NEW r \in Requests, Acquire(r) PROVE IInv'
<1> DEFINE pc == CASE req[r].kind = "create" -> "upstream"
                   [] req[r].kind = "unrouted" -> "executing"
                   [] OTHER -> "binding"
<1>1. /\ req[r].pc = "acquiring" /\ To(r, pc) /\ rows' = rows \cup {req[r].owner}
      /\ UNCHANGED <<up, routes, containers, native, pending, batch, results, worker, binding, acknowledged>>
  BY DEF Acquire, Persisted, docker, recorder
<1>2. req[r] # NotRunning /\ req[r].owner \in Owners /\ req[r].kind \in Kinds /\ Good(r)
  BY <1>1, RequestTypes DEF IInv, RequestInv, States
<1>3. pc \in States /\ pc # "recording"
      /\ (pc = "upstream" <=> req[r].kind = "create")
      /\ (pc = "executing" <=> req[r].kind = "unrouted")
      /\ (pc = "binding" <=> req[r].kind \in {"message", "fork"})
  BY <1>2 DEF States, Kinds
<1> HIDE DEF pc
<1>4. /\ req' \in [Requests -> Request \cup {NotRunning}]
      /\ Aside(r) /\ req'[r] # NotRunning /\ req'[r].pc = pc /\ req'[r].kind = req[r].kind
      /\ req'[r].owner = req[r].owner /\ req'[r].session = req[r].session
  BY <1>1, <1>2, <1>3, ToMoves DEF IInv
<1>5. Good(r)'
  BY <1>1, <1>2, <1>3, <1>4 DEF Good, Named, HasRoute, Kinds, States
<1>6. Moves(r) /\ VariableTypes'
  BY <1>1, <1>2, <1>3, <1>4 DEF Moves, IInv, VariableTypes
<1> QED
  BY <1>1, <1>4, <1>5, <1>6, NativeStays, StepsAside DEF recorder

(* A request ends, and nothing that the invariant speaks of changes but    *)
(* the containers.                                                         *)
LEMMA EndingSafe ==
  ASSUME IInv, NEW r \in Requests, req[r].pc # "recording", Ends(r), OwnStays, VariableTypes',
         UNCHANGED <<routes, recorder, acknowledged>>
  PROVE  IInv'
BY EndsMoves, StepsAside DEF IInv, Moves

LEMMA NotAcquiredSafe == ASSUME IInv, NEW r \in Requests, NotAcquired(r) PROVE IInv'
<1>1. /\ req[r].pc # "recording" /\ Ends(r) /\ containers' = containers \ {req[r].owner}
      /\ UNCHANGED <<up, rows, routes, native, recorder, worker, binding, acknowledged>>
  BY DEF NotAcquired, tables, recorder
<1>2. VariableTypes'
  BY <1>1 DEF IInv, VariableTypes
<1> QED
  BY <1>1, <1>2, NativeStays, EndingSafe

LEMMA ExecutedSafe == ASSUME IInv, NEW r \in Requests, Executed(r) PROVE IInv'
<1>1. /\ req[r].pc # "recording" /\ Ends(r)
      /\ UNCHANGED <<up, rows, routes, containers, native, recorder, worker, binding, acknowledged>>
  BY DEF Executed, tables, docker, recorder
<1>2. VariableTypes'
  BY <1>1 DEF IInv, VariableTypes
<1> QED
  BY <1>1, <1>2, NativeStays, EndingSafe

(* A session that did not exist is created: no session of anyone moves.    *)
LEMMA NewSession ==
  ASSUME VariableTypes, NEW o \in Owners, NEW s \in Sessions, native[o][s] = "none",
         native' = [native EXCEPT ![o][s] = "elsewhere"]
  PROVE  /\ native' \in [Owners -> [Sessions -> {"none", "elsewhere", "own"}]] /\ OwnStays
BY DEF VariableTypes, OwnStays

LEMMA UpstreamFailsSafe == ASSUME IInv, NEW r \in Requests, UpstreamFails(r) PROVE IInv'
<1>1. /\ req[r].pc = "upstream" /\ Ends(r)
      /\ UNCHANGED <<up, rows, routes, containers, recorder, worker, binding, acknowledged>>
  BY DEF UpstreamFails, tables, recorder
<1>2. req[r].owner \in Owners
  BY <1>1, RequestTypes DEF IInv, States
<1>3. native' \in [Owners -> [Sessions -> {"none", "elsewhere", "own"}]] /\ OwnStays
  <2>1. CASE UNCHANGED native
    BY <2>1, NativeStays DEF IInv, VariableTypes
  <2>2. ASSUME NEW s \in Sessions, native[req[r].owner][s] = "none",
               native' = [native EXCEPT ![req[r].owner][s] = "elsewhere"]
        PROVE  <1>3!1 /\ <1>3!2
    BY <1>2, <2>2, NewSession DEF IInv
  <2> QED
    BY <2>1, <2>2 DEF UpstreamFails
<1>4. VariableTypes'
  BY <1>1, <1>3 DEF IInv, VariableTypes
<1> QED
  BY <1>1, <1>3, <1>4, EndingSafe

----------------------------------------------------------------------------
(* Binding *)

LEMMA BindingTypes ==
  ASSUME IInv, NEW r \in Requests, req[r].pc \in {"binding", "checking", "moving"}
  PROVE  /\ req[r] # NotRunning /\ req[r].kind \in Kinds
         /\ req[r].owner \in Owners /\ req[r].session \in Sessions
         /\ routes[req[r].session] = req[r].owner /\ req[r].owner # None
<1>1. req[r] # NotRunning /\ req[r].kind \in Kinds /\ req[r].owner \in Owners
  BY RequestTypes DEF IInv, States
<1>2. Good(r) /\ Named(r) /\ HasRoute(r)
  BY DEF IInv, RequestInv, Named, HasRoute
<1> QED
  BY <1>1, <1>2, RoutesAssumption DEF Good

LEMMA LockSafe == ASSUME IInv, NEW r \in Requests, Lock(r) PROVE IInv'
<1>1. /\ req[r].pc = "binding" /\ To(r, "checking")
      /\ binding' = [binding EXCEPT ![req[r].session] = r]
      /\ UNCHANGED <<up, rows, routes, containers, native, recorder, worker, acknowledged>>
  BY DEF Lock, tables, docker, recorder
<1>2. /\ req' \in [Requests -> Request \cup {NotRunning}]
      /\ Aside(r) /\ req'[r] # NotRunning /\ req'[r].pc = "checking" /\ req'[r].kind = req[r].kind
      /\ req'[r].owner = req[r].owner /\ req'[r].session = req[r].session
  BY <1>1, ToMoves, BindingTypes DEF IInv, States
<1>3. Good(r)'
  BY <1>1, <1>2, BindingTypes DEF Good
<1>4. Moves(r) /\ VariableTypes'
  BY <1>1, <1>2 DEF Moves, IInv, VariableTypes
<1> QED
  BY <1>1, <1>2, <1>3, <1>4, NativeStays, StepsAside

Binds(r) ==
  /\ req[r].pc \in {"checking", "moving"} /\ OwnStays
  /\ native' \in [Owners -> [Sessions -> {"none", "elsewhere", "own"}]]
  /\ UNCHANGED <<up, rows, routes, containers, recorder, worker>>

LEMMA UnboundSafe == ASSUME IInv, NEW r \in Requests, Binds(r), Unbound(r) PROVE IInv'
<1>1. /\ req[r].pc # "recording" /\ Ends(r) /\ UNCHANGED acknowledged
      /\ binding' = [binding EXCEPT ![req[r].session] = None]
  BY DEF Binds, Unbound, Unlock
<1>2. VariableTypes'
  BY <1>1 DEF Binds, IInv, VariableTypes
<1> QED
  BY <1>1, <1>2, EndingSafe DEF Binds

LEMMA BoundSafe ==
  ASSUME IInv, NEW r \in Requests, Binds(r), Bound(r),
         native'[req[r].owner][req[r].session] = "own"
  PROVE  IInv'
<1>1. /\ req[r] # NotRunning /\ req[r].kind \in Kinds
      /\ req[r].owner \in Owners /\ req[r].session \in Sessions
      /\ routes[req[r].session] = req[r].owner /\ req[r].owner # None
  BY BindingTypes DEF Binds
<1>2. req[r].pc # "recording" /\ binding' = [binding EXCEPT ![req[r].session] = None]
  BY DEF Binds, Bound, Unlock
<1>3. CASE req[r].kind = "create"
  <2>1. Ends(r) /\ acknowledged' = [acknowledged EXCEPT ![req[r].session] = req[r].owner]
    BY <1>3 DEF Bound
  <2>2. VariableTypes'
    BY <1>1, <1>2, <2>1 DEF Binds, IInv, VariableTypes
  <2>3. /\ req' \in [Requests -> Request \cup {NotRunning}]
        /\ Moves(r) /\ Good(r)'
    BY <1>2, <2>1, EndsMoves DEF IInv, Moves
  <2>4. RequestInv'
    BY <2>3, OthersKeep DEF IInv, Binds, Moves, RoutesStay
  <2>5. RecorderInv'
    BY <2>3, RecorderStays DEF IInv, Binds, recorder
  <2>6. AcknowledgedInv'
    <3>1. SUFFICES ASSUME NEW s \in Sessions, acknowledged'[s] # None
                   PROVE  routes'[s] = acknowledged'[s] /\ native'[acknowledged'[s]][s] = "own"
      BY DEF AcknowledgedInv
    <3>2. CASE s = req[r].session
      BY <1>1, <2>1, <3>2 DEF IInv, VariableTypes, Binds
    <3>3. CASE s # req[r].session
      BY <2>1, <3>1, <3>3 DEF IInv, VariableTypes, AcknowledgedInv, Binds, OwnStays
    <3> QED
      BY <3>2, <3>3
  <2> QED
    BY <2>2, <2>4, <2>5, <2>6 DEF IInv
<1>4. CASE req[r].kind # "create"
  <2>1. PICK pc \in {"upstream", "executing"} :
          /\ To(r, pc) /\ UNCHANGED acknowledged
          /\ pc = "upstream" => req[r].kind = "fork"
    BY <1>4 DEF Bound
  <2>2. /\ req' \in [Requests -> Request \cup {NotRunning}]
        /\ Aside(r) /\ req'[r] # NotRunning /\ req'[r].pc = pc /\ req'[r].kind = req[r].kind
        /\ req'[r].owner = req[r].owner /\ req'[r].session = req[r].session
    BY <1>1, <2>1, ToMoves DEF IInv, States
  <2>3. Good(r)'
    BY <1>1, <2>2 DEF Good, Place, Binds
  <2>4. Moves(r) /\ VariableTypes'
    BY <1>2, <2>1, <2>2 DEF Moves, Binds, IInv, VariableTypes
  <2> QED
    BY <2>1, <2>2, <2>3, <2>4, StepsAside DEF Binds
<1> QED
  BY <1>3, <1>4

LEMMA CheckSafe == ASSUME IInv, NEW r \in Requests, Check(r) PROVE IInv'
<1>1. /\ req[r].pc = "checking"
      /\ UNCHANGED <<up, rows, routes, containers, native, recorder, worker>>
  BY DEF Check, tables, docker, recorder
<1>2. Binds(r)
  BY <1>1, NativeStays DEF Binds, IInv, VariableTypes
<1>3. CASE Place(r) = "own" /\ Bound(r)
  BY <1>1, <1>2, <1>3, BoundSafe DEF Place
<1>4. CASE To(r, "moving") /\ UNCHANGED <<binding, acknowledged>>
  <2>1. /\ req' \in [Requests -> Request \cup {NotRunning}]
        /\ Aside(r) /\ req'[r] # NotRunning /\ req'[r].pc = "moving" /\ req'[r].kind = req[r].kind
        /\ req'[r].owner = req[r].owner /\ req'[r].session = req[r].session
    BY <1>1, <1>4, ToMoves, BindingTypes DEF IInv, States
  <2>2. Good(r)'
    BY <1>1, <2>1, BindingTypes DEF Good
  <2>3. Moves(r) /\ VariableTypes'
    BY <1>1, <1>4, <2>1 DEF Moves, IInv, VariableTypes
  <2> QED
    BY <1>1, <1>4, <2>1, <2>2, <2>3, NativeStays, StepsAside
<1>5. CASE Unbound(r)
  BY <1>2, <1>5, UnboundSafe
<1> QED
  BY <1>3, <1>4, <1>5 DEF Check

LEMMA MoveSafe == ASSUME IInv, NEW r \in Requests, Move(r) PROVE IInv'
<1>1. /\ req[r].pc = "moving"
      /\ UNCHANGED <<up, rows, routes, containers, recorder, worker>>
  BY DEF Move, tables, recorder
<1>2. CASE Place(r) = "elsewhere" /\ PlaceAt(r, "own") /\ (Bound(r) \/ Unbound(r))
  <2>1. req[r].owner \in Owners /\ req[r].session \in Sessions
    BY <1>1, BindingTypes
  <2>2. /\ native' \in [Owners -> [Sessions -> {"none", "elsewhere", "own"}]]
        /\ native'[req[r].owner][req[r].session] = "own" /\ OwnStays
    BY <1>2, <2>1 DEF IInv, VariableTypes, PlaceAt, OwnStays
  <2>3. Binds(r)
    BY <1>1, <2>2 DEF Binds
  <2> QED
    BY <1>2, <2>2, <2>3, BoundSafe, UnboundSafe
<1>3. CASE UNCHANGED native /\ Unbound(r)
  <2>1. Binds(r)
    BY <1>1, <1>3, NativeStays DEF Binds, IInv, VariableTypes
  <2> QED
    BY <1>3, <2>1, UnboundSafe
<1> QED
  BY <1>2, <1>3 DEF Move

----------------------------------------------------------------------------
(* The fold that records a batch *)

(* A non-empty set of subsets of a finite set has one of which no proper   *)
(* subset is in it.                                                        *)
LEMMA MinimalSubset ==
  ASSUME NEW S, IsFiniteSet(S), NEW B \in SUBSET SUBSET S, B # {}
  PROVE  \E m \in B : \A s \in SUBSET m : s # m => s \notin B
<1>1. IsWellFoundedOn(StrictSubsetOrdering(S), SUBSET S)
  BY FS_StrictSubsetOrderingWellFounded, FS_FiniteSubsetsOfFinite
<1>2. PICK m \in B : \A s \in B : ~ (<<s, m>> \in StrictSubsetOrdering(S))
  BY <1>1, WFMin
<1> QED
  BY <1>2 DEF StrictSubsetOrdering

LEMMA IndicesFinite ==
  ASSUME NEW n \in Nat PROVE IsFiniteSet(1..n) /\ \A S \in SUBSET (1..n) : IsFiniteSet(S)
<1>1. IsFiniteSet(1..n)
  BY FS_Interval
<1> QED
  BY <1>1, FS_Subset

LEMMA LastIn ==
  ASSUME NEW n \in Nat, NEW s \in SUBSET (1..n), s # {}
  PROVE  Max(s) \in s
<1> DEFINE B == {(x + 1)..n : x \in s}
<1>1. B \in SUBSET SUBSET (1..n) /\ B # {} /\ IsFiniteSet(1..n)
  <2>1. \A x \in s : (x + 1)..n \in SUBSET (1..n)
    OBVIOUS
  <2> QED
    BY <2>1, IndicesFinite
<1>2. PICK m \in B : \A t \in SUBSET m : t # m => t \notin B
  <2> HIDE DEF B
  <2> QED
    BY <1>1, MinimalSubset
<1>3. PICK x \in s : m = (x + 1)..n
  BY <1>2
<1>4. ASSUME NEW y \in s, y > x PROVE FALSE
  <2>1. /\ (y + 1)..n \in B /\ (y + 1)..n \in SUBSET m
        /\ y \in m /\ y \notin (y + 1)..n
    BY <1>3, <1>4
  <2> QED
    BY <1>2, <2>1
<1>5. \A y \in s : x >= y
  BY <1>4
<1> QED
  BY <1>3, <1>5 DEF Max

Before(s) == s \ {Max(s)}
Inserts(it, S) ==
  it = [s \in SUBSET S |-> IF s = {} THEN routes ELSE Inserted(it[Before(s)], batch[Max(s)])]
Table(S) == (CHOOSE it : Inserts(it, S))[S]

LEMMA RecordedIs == Recorded = Table(DOMAIN batch)
  BY DEF Recorded, FoldLeft, MapThenFoldSet, Table, Inserts, Before

LEMMA Shorter ==
  ASSUME NEW n \in Nat, NEW s \in SUBSET (1..n), s # {}
  PROVE  Before(s) \in SUBSET s /\ Before(s) # s
BY LastIn DEF Before

LEMMA InsertsAgree ==
  ASSUME NEW n \in Nat, NEW S \in SUBSET (1..n), NEW g, NEW h, Inserts(g, S), Inserts(h, S)
  PROVE  g = h
<1> DEFINE B == {s \in SUBSET S : g[s] # h[s]}
<1>1. SUFFICES ASSUME B # {} PROVE FALSE
  BY DEF Inserts
<1>2. PICK m \in B : \A s \in SUBSET m : s # m => s \notin B
  <2>1. B \in SUBSET SUBSET S /\ IsFiniteSet(S)
    BY IndicesFinite
  <2> HIDE DEF B
  <2> QED
    BY <1>1, <2>1, MinimalSubset
<1>3. m \in SUBSET S /\ m \in SUBSET (1..n) /\ g[m] # h[m]
  BY <1>2
<1>4. g[m] = IF m = {} THEN routes ELSE Inserted(g[Before(m)], batch[Max(m)])
  BY <1>3 DEF Inserts
<1>5. h[m] = IF m = {} THEN routes ELSE Inserted(h[Before(m)], batch[Max(m)])
  BY <1>3 DEF Inserts
<1>6. m # {} => g[Before(m)] = h[Before(m)]
  BY <1>2, <1>3, Shorter
<1> QED
  BY <1>3, <1>4, <1>5, <1>6

LEMMA TableIs ==
  ASSUME NEW n \in Nat, NEW S \in SUBSET (1..n), NEW it, Inserts(it, S)
  PROVE  it[S] = Table(S)
<1> DEFINE other == CHOOSE i : Inserts(i, S)
<1>1. Inserts(other, S) /\ Table(S) = other[S]
  BY DEF Table
<1> HIDE DEF other
<1> QED
  BY <1>1, InsertsAgree

LEMMA TableRest ==
  ASSUME NEW n \in Nat, NEW S \in SUBSET (1..n), NEW it, Inserts(it, S), NEW s \in SUBSET S
  PROVE  it[s] = Table(s)
<1>1. Inserts([t \in SUBSET s |-> it[t]], s)
  <2>1. \A t \in SUBSET s : Before(t) \in SUBSET s /\ t \in SUBSET S
    BY DEF Before
  <2> QED
    BY <2>1 DEF Inserts
<1> QED
  BY <1>1, TableIs

LEMMA TablesExist ==
  ASSUME NEW n \in Nat, NEW S \in SUBSET (1..n) PROVE \E it : Inserts(it, S)
<1> DEFINE B == {s \in SUBSET S : ~ \E it : Inserts(it, s)}
<1>1. SUFFICES ASSUME B # {} PROVE FALSE
  OBVIOUS
<1>2. PICK m \in B : \A s \in SUBSET m : s # m => s \notin B
  <2>1. B \in SUBSET SUBSET S /\ IsFiniteSet(S)
    BY IndicesFinite
  <2> HIDE DEF B
  <2> QED
    BY <1>1, <2>1, MinimalSubset
<1> DEFINE it == [s \in SUBSET m |-> IF s = {} THEN routes
                                     ELSE Inserted(Table(Before(s)), batch[Max(s)])]
<1>3. ASSUME NEW s \in SUBSET m, s # {} PROVE it[Before(s)] = Table(Before(s))
  <2>1. s \in SUBSET (1..n) /\ Before(s) \in SUBSET m /\ Before(s) # m /\ Before(s) \in SUBSET (1..n)
    <3>1. s \in SUBSET (1..n)
      BY <1>2
    <3>2. Before(s) \in SUBSET s /\ Before(s) # s
      BY <1>3, <3>1, Shorter
    <3> QED
      BY <3>1, <3>2
  <2>2. PICK i : Inserts(i, Before(s))
    BY <1>2, <2>1
  <2>3. i[Before(s)] = IF Before(s) = {} THEN routes
                       ELSE Inserted(i[Before(Before(s))], batch[Max(Before(s))])
    BY <2>2 DEF Inserts
  <2>4. i[Before(s)] = Table(Before(s))
    BY <2>1, <2>2, TableIs
  <2>5. i[Before(Before(s))] = Table(Before(Before(s)))
    <3>1. Before(Before(s)) \in SUBSET Before(s)
      BY DEF Before
    <3> QED
      BY <2>1, <2>2, <3>1, TableRest
  <2> QED
    BY <2>1, <2>3, <2>4, <2>5
<1>4. Inserts(it, m)
  BY <1>3 DEF Inserts
<1> QED
  BY <1>2, <1>4

LEMMA TableStep ==
  ASSUME NEW n \in Nat, NEW S \in SUBSET (1..n)
  PROVE  Table(S) = IF S = {} THEN routes ELSE Inserted(Table(Before(S)), batch[Max(S)])
<1>1. PICK it : Inserts(it, S)
  BY TablesExist
<1>2. it[S] = IF S = {} THEN routes ELSE Inserted(it[Before(S)], batch[Max(S)])
  BY <1>1 DEF Inserts
<1>3. it[S] = Table(S) /\ it[Before(S)] = Table(Before(S))
  <2>1. Before(S) \in SUBSET S
    BY DEF Before
  <2> QED
    BY <1>1, <2>1, TableIs, TableRest
<1> QED
  BY <1>2, <1>3

(* A batch gives routes to sessions that have none, and changes no other.  *)
LEMMA RecordedKeeps ==
  ASSUME VariableTypes, RequestInv, RecorderInv
  PROVE  Recorded \in [Sessions -> Owners \cup {None}]
         /\ \A s \in Sessions : routes[s] # None => Recorded[s] = routes[s]
<1> DEFINE Kept == {t \in [Sessions -> Owners \cup {None}] :
                      \A s \in Sessions : routes[s] # None => t[s] = routes[s]}
           B == {s \in SUBSET DOMAIN batch : Table(s) \notin Kept}
<1>1. Len(batch) \in Nat /\ DOMAIN batch = 1..Len(batch)
      /\ \A i \in DOMAIN batch : batch[i] \in Requests
                                 /\ req[batch[i]].owner \in Owners /\ req[batch[i]].session \in Sessions
  <2>1. batch \in Seq(Requests)
    BY DEF RecorderInv, Entries
  <2>2. Len(batch) \in Nat /\ DOMAIN batch = 1..Len(batch) /\ \A i \in DOMAIN batch : batch[i] \in Requests
    BY <2>1, LenProperties, ElementOfSeq
  <2>3. \A i \in DOMAIN batch : batch[i] \in Waiting
    BY DEF RecorderInv, Entries, ToSet
  <2>4. \A r \in Waiting : req[r].owner \in Owners /\ req[r].session \in Sessions
    BY RequestTypes DEF Waiting, RequestInv, Good, Named, States
  <2> QED
    BY <2>2, <2>3, <2>4
<1>2. SUFFICES ASSUME B # {} PROVE FALSE
  BY <1>1, RecordedIs
<1>3. PICK m \in B : \A s \in SUBSET m : s # m => s \notin B
  <2>1. B \in SUBSET SUBSET DOMAIN batch /\ IsFiniteSet(DOMAIN batch)
    BY <1>1, FS_Interval
  <2> HIDE DEF B
  <2> QED
    BY <1>2, <2>1, MinimalSubset
<1>4. m \in SUBSET (1..Len(batch)) /\ Table(m) \notin Kept
  BY <1>1, <1>3
<1>5. Table(m) = IF m = {} THEN routes ELSE Inserted(Table(Before(m)), batch[Max(m)])
  BY <1>1, <1>4, TableStep
<1>6. CASE m = {}
  BY <1>4, <1>5, <1>6 DEF VariableTypes
<1>7. CASE m # {}
  <2>1. Max(m) \in DOMAIN batch /\ Table(Before(m)) \in Kept
    BY <1>1, <1>3, <1>4, <1>7, LastIn, Shorter
  <2>2. \A t \in Kept : Inserted(t, batch[Max(m)]) \in Kept
    BY <1>1, <2>1 DEF Inserted
  <2> QED
    BY <1>4, <1>5, <1>7, <2>1, <2>2
<1> QED
  BY <1>6, <1>7

----------------------------------------------------------------------------
(* Sequences of the recorder *)

LEMMA Members ==
  ASSUME NEW p \in Seq(Requests)
  PROVE  /\ Len(p) \in Nat /\ DOMAIN p = 1..Len(p)
         /\ \A i \in DOMAIN p : p[i] \in Requests
         /\ ToSet(p) \in SUBSET Requests
         /\ p # <<>> => Len(p) > 0
BY LenProperties, ElementOfSeq, EmptySeq DEF ToSet

LEMMA Appended ==
  ASSUME NEW p \in Seq(Requests), IsInjective(p), NEW r \in Requests, r \notin ToSet(p)
  PROVE  /\ Append(p, r) \in Seq(Requests) /\ IsInjective(Append(p, r))
         /\ ToSet(Append(p, r)) = ToSet(p) \cup {r}
<1>1. /\ Append(p, r) \in Seq(Requests) /\ Len(p) \in Nat
      /\ DOMAIN p = 1..Len(p) /\ DOMAIN Append(p, r) = 1..(Len(p) + 1)
      /\ \A i \in 1..Len(p) : Append(p, r)[i] = p[i]
      /\ Append(p, r)[Len(p) + 1] = r
  BY Members
<1>2. 1..(Len(p) + 1) = 1..Len(p) \cup {Len(p) + 1} /\ Len(p) + 1 \notin 1..Len(p)
  BY <1>1
<1>3. \A i \in 1..Len(p) : p[i] # r
  BY <1>1 DEF ToSet
<1>4. IsInjective(Append(p, r))
  BY <1>1, <1>2, <1>3 DEF IsInjective
<1>5. ToSet(Append(p, r)) = ToSet(p) \cup {r}
  BY <1>1, <1>2 DEF ToSet
<1> QED
  BY <1>1, <1>4, <1>5

LEMMA RestLength ==
  ASSUME NEW n \in Nat, NEW k \in 0..n
  PROVE  n - (k + 1) + 1 = n - k /\ (IF k + 1 <= n THEN n - (k + 1) + 1 ELSE 0) = n - k
OBVIOUS

(* A prefix and what is left of it. *)
SplitAt(p, k, a, b) == a = SubSeq(p, 1, k) /\ b = SubSeq(p, Len(a) + 1, Len(p))
LEMMA Splits ==
  ASSUME NEW p \in Seq(Requests), IsInjective(p), NEW k \in 0..Len(p),
         NEW a, NEW b, SplitAt(p, k, a, b)
  PROVE  /\ a \in Seq(Requests) /\ b \in Seq(Requests)
         /\ IsInjective(a) /\ IsInjective(b)
         /\ ToSet(a) \cap ToSet(b) = {} /\ ToSet(a) \cup ToSet(b) = ToSet(p)
<1> DEFINE n == Len(p)
<1>1. n \in Nat /\ DOMAIN p = 1..n /\ \A i \in 1..n : p[i] \in Requests
  BY Members
<1>2. k \in Nat /\ k <= n
  BY <1>1
<1>3. a \in Seq(Requests) /\ Len(a) = k /\ DOMAIN a = 1..k /\ \A i \in 1..k : a[i] = p[i]
  <2>1. \A i \in 1..k : p[i] \in Requests
    BY <1>1, <1>2
  <2>2. /\ SubSeq(p, 1, k) \in Seq(Requests)
        /\ Len(SubSeq(p, 1, k)) = IF 1 <= k THEN k - 1 + 1 ELSE 0
        /\ \A i \in 1..(k - 1 + 1) : SubSeq(p, 1, k)[i] = p[1 + i - 1]
    BY <1>2, <2>1, SubSeqProperties
  <2>3. \A i \in 1..k : 1 + i - 1 = i
    BY <1>2
  <2>4. k - 1 + 1 = k /\ (IF 1 <= k THEN k - 1 + 1 ELSE 0) = k
    BY <1>2
  <2> QED
    BY <2>2, <2>3, <2>4, Members DEF SplitAt
<1>4. b \in Seq(Requests) /\ DOMAIN b = 1..(n - k) /\ \A i \in 1..(n - k) : b[i] = p[k + i]
  <2>1. \A i \in (k + 1)..n : p[i] \in Requests
    BY <1>1, <1>2
  <2>2. /\ SubSeq(p, k + 1, n) \in Seq(Requests)
        /\ Len(SubSeq(p, k + 1, n)) = IF k + 1 <= n THEN n - (k + 1) + 1 ELSE 0
        /\ \A i \in 1..(n - (k + 1) + 1) : SubSeq(p, k + 1, n)[i] = p[(k + 1) + i - 1]
    BY <1>1, <1>2, <2>1, SubSeqProperties
  <2>3. \A i \in 1..(n - k) : (k + 1) + i - 1 = k + i
    BY <1>1, <1>2
  <2>4. /\ n - (k + 1) + 1 = n - k
        /\ (IF k + 1 <= n THEN n - (k + 1) + 1 ELSE 0) = n - k
    BY <1>1, <1>2, RestLength
  <2>5. b = SubSeq(p, k + 1, n)
    BY <1>3 DEF SplitAt
  <2> QED
    BY <2>2, <2>3, <2>4, <2>5, Members
<1>5. /\ 1..n = 1..k \cup {k + i : i \in 1..(n - k)}
      /\ \A i \in 1..k, j \in 1..(n - k) : k + j \in 1..n /\ i \in 1..n /\ i # k + j
  <2>1. \A i \in 1..n : i \in 1..k \/ (i - k \in 1..(n - k) /\ i = k + (i - k))
    BY <1>1, <1>2
  <2>2. \A j \in 1..(n - k) : k + j \in 1..n /\ \A i \in 1..k : i # k + j
    BY <1>1, <1>2
  <2>3. \A i \in 1..k : i \in 1..n
    BY <1>1, <1>2
  <2> QED
    BY <2>1, <2>2, <2>3
<1>6. IsInjective(a)
  BY <1>1, <1>2, <1>3 DEF IsInjective
<1>7. IsInjective(b)
  <2>1. \A i, j \in 1..(n - k) : k + i \in 1..n /\ k + j \in 1..n /\ (k + i = k + j => i = j)
    BY <1>1, <1>2
  <2> QED
    BY <1>1, <1>4, <2>1 DEF IsInjective
<1>8. ToSet(a) = {p[i] : i \in 1..k} /\ ToSet(b) = {p[k + i] : i \in 1..(n - k)}
  <2>1. ToSet(a) = {p[i] : i \in 1..k}
    BY <1>3 DEF ToSet
  <2> HIDE DEF n
  <2>2. ToSet(b) = {p[k + i] : i \in 1..(n - k)}
    BY <1>4 DEF ToSet
  <2> QED
    BY <2>1, <2>2
<1>9. ToSet(a) \cap ToSet(b) = {}
  <2>1. \A i \in 1..k, j \in 1..(n - k) : p[i] # p[k + j]
    BY <1>1, <1>5 DEF IsInjective
  <2> QED
    BY <1>8, <2>1
<1>10. ToSet(a) \cup ToSet(b) = ToSet(p)
  <2>1. \A i \in 1..n : p[i] \in ToSet(a) \cup ToSet(b)
    BY <1>5, <1>8
  <2>2. ToSet(a) \cup ToSet(b) \subseteq {p[i] : i \in 1..n}
    BY <1>5, <1>8
  <2> QED
    BY <1>1, <2>1, <2>2 DEF ToSet
<1> QED
  BY <1>3, <1>4, <1>6, <1>7, <1>9, <1>10

----------------------------------------------------------------------------
(* Recording *)

LEMMA NativeCreatesSafe ==
  ASSUME IInv, NEW r \in Requests, NEW s \in Sessions, NativeCreates(r, s) PROVE IInv'
<1>1. /\ req[r].pc = "upstream" /\ native[req[r].owner][s] = "none"
      /\ native' = [native EXCEPT ![req[r].owner][s] = "elsewhere"]
      /\ req' = [req EXCEPT ![r] = [req[r] EXCEPT !.pc = "recording", !.kind = "create", !.session = s]]
      /\ pending' = Append(pending, r)
      /\ worker' = IF worker = "idle" THEN "collecting" ELSE worker
      /\ UNCHANGED <<up, rows, routes, containers, batch, results, binding, acknowledged>>
  BY DEF NativeCreates, Wake, tables
<1>2. req[r] \in Request /\ req[r].owner \in Owners
      /\ req \in [Requests -> Request \cup {NotRunning}]
  BY <1>1, RequestTypes DEF IInv, RequestInv, States
<1>3. req'[r] = [req[r] EXCEPT !.pc = "recording", !.kind = "create", !.session = s] /\ Aside(r)
  BY <1>1, <1>2 DEF Aside
<1>4. /\ req'[r] \in Request /\ req'[r].pc = "recording" /\ req'[r].kind = "create"
      /\ req'[r].session = s
  BY <1>2, <1>3 DEF Request, States, Kinds
<1>5. req' \in [Requests -> Request \cup {NotRunning}] /\ Good(r)'
  BY <1>1, <1>2, <1>4 DEF Good, Named, HasRoute
<1>6. native' \in [Owners -> [Sessions -> {"none", "elsewhere", "own"}]] /\ OwnStays
  BY <1>1, <1>2, NewSession DEF IInv
<1>7. VariableTypes'
  BY <1>1, <1>6 DEF IInv, VariableTypes
<1>8. RequestInv'
  BY <1>1, <1>3, <1>5, <1>6, OthersKeep DEF IInv, RoutesStay
<1>9. r \notin Waiting /\ Waiting' = Waiting \cup {r} /\ Entries
  BY <1>1, <1>3, <1>4 DEF Waiting, Aside, IInv, RecorderInv
<1>10. Entries'
  <2>1. /\ pending' \in Seq(Requests) /\ IsInjective(pending') /\ ToSet(pending') = ToSet(pending) \cup {r}
    BY <1>1, <1>9, Appended DEF Entries
  <2>2. worker' # "idle" /\ (worker' = "collecting" => worker \in {"idle", "collecting"})
    BY <1>1
  <2>3. r \notin ToSet(batch)
    BY <1>9 DEF Entries
  <2> QED
    BY <1>1, <1>9, <2>1, <2>2, <2>3 DEF Entries
<1>11. ToAnswer'
  <2>1. \A i \in DOMAIN batch : batch[i] \in Waiting
    BY <1>9 DEF Entries, ToSet
  <2>2. \A i \in DOMAIN batch : req'[batch[i]] = req[batch[i]]
    BY <1>3, <1>9, <2>1 DEF Aside, Waiting
  <2> QED
    BY <1>1, <2>2 DEF ToAnswer, IInv, RecorderInv
<1>12. AcknowledgedInv'
  BY <1>1, <1>6 DEF IInv, AcknowledgedInv, VariableTypes, OwnStays
<1> QED
  BY <1>7, <1>8, <1>10, <1>11, <1>12 DEF IInv, RecorderInv

(* The worker moves, and no request. *)
LEMMA RequestsStay ==
  ASSUME IInv, UNCHANGED <<req, native>>, RoutesStay PROVE RequestInv'
<1>1. ASSUME NEW r \in Requests PROVE Good(r)'
  <2>1. Good(r) /\ req'[r] = req[r]
    BY DEF IInv, RequestInv
  <2>2. (Named(r)' <=> Named(r)) /\ (HasRoute(r)' <=> HasRoute(r)) /\ (Place(r)' = Place(r))
    BY <2>1 DEF Named, HasRoute, Place
  <2>3. ASSUME req[r] # NotRunning, HasRoute(r) PROVE routes'[req[r].session] = req[r].owner
    <3>1. routes[req[r].session] = req[r].owner /\ req[r].session \in Sessions
      BY <2>1, <2>3 DEF Good, HasRoute, Named
    <3>2. req[r].owner # None
      BY <2>3, RequestTypes, RoutesAssumption DEF IInv
    <3> QED
      BY <3>1, <3>2 DEF RoutesStay
  <2> QED
    BY <2>1, <2>2, <2>3 DEF Good
<1> QED
  BY <1>1 DEF IInv, RequestInv

LEMMA CollectSafe == ASSUME IInv, Collect PROVE IInv'
<1> DEFINE k == IF Len(pending) < BatchSize THEN Len(pending) ELSE BatchSize
<1>1. /\ worker = "collecting" /\ worker' = "writing"
      /\ batch' = SubSeq(pending, 1, k)
      /\ pending' = SubSeq(pending, Len(batch') + 1, Len(pending))
      /\ UNCHANGED <<up, rows, routes, containers, native, req, results, binding, acknowledged>>
  BY DEF Collect, tables, docker
<1>2. /\ Entries /\ batch = <<>> /\ Len(pending) \in Nat
      /\ pending \in Seq(Requests) /\ IsInjective(pending)
  BY <1>1, Members DEF IInv, RecorderInv, Entries
<1>3. k \in 0..Len(pending)
  BY <1>2, RoutesAssumption
<1> HIDE DEF k
<1>4. /\ batch' \in Seq(Requests) /\ pending' \in Seq(Requests)
      /\ IsInjective(batch') /\ IsInjective(pending')
      /\ ToSet(batch') \cap ToSet(pending') = {}
      /\ ToSet(batch') \cup ToSet(pending') = ToSet(pending)
  <2>1. SplitAt(pending, k, batch', pending')
    BY <1>1 DEF SplitAt
  <2> QED
    BY <1>2, <1>3, <2>1, Splits
<1>5. ToSet(batch) = {}
  BY <1>2, EmptySeq, Members DEF ToSet
<1>6. Waiting' = Waiting
  BY <1>1 DEF Waiting
<1>7. RecorderInv'
  BY <1>1, <1>2, <1>4, <1>5, <1>6 DEF Entries, ToAnswer, RecorderInv
<1>8. VariableTypes' /\ AcknowledgedInv'
  BY <1>1 DEF IInv, VariableTypes, AcknowledgedInv
<1>9. RequestInv'
  BY <1>1, RequestsStay DEF RoutesStay
<1> QED
  BY <1>7, <1>8, <1>9 DEF IInv

LEMMA CommitSafe == ASSUME IInv, Commit PROVE IInv'
<1>1. /\ worker = "writing" /\ worker' = "answering" /\ routes' = Recorded
      /\ results' = [i \in DOMAIN batch |-> routes'[req[batch[i]].session] = req[batch[i]].owner]
      /\ UNCHANGED <<up, rows, containers, native, req, pending, batch, binding, acknowledged>>
  BY DEF Commit, Outcomes, docker
<1>2. /\ routes' \in [Sessions -> Owners \cup {None}]
      /\ \A s \in Sessions : routes[s] # None => routes'[s] = routes[s]
  BY <1>1, RecordedKeeps DEF IInv
<1>3. RequestInv'
  BY <1>1, <1>2, RequestsStay DEF RoutesStay
<1>4. results' \in [DOMAIN batch' -> BOOLEAN]
  BY <1>1
<1>5. ToAnswer'
  BY <1>1, <1>4 DEF ToAnswer
<1>6. Waiting' = Waiting
  BY <1>1 DEF Waiting
<1>7. Entries'
  BY <1>1, <1>6 DEF IInv, RecorderInv, Entries
<1>8. VariableTypes'
  BY <1>1, <1>2 DEF IInv, VariableTypes
<1>9. AcknowledgedInv'
  BY <1>1, <1>2 DEF IInv, AcknowledgedInv
<1> QED
  BY <1>3, <1>5, <1>7, <1>8, <1>9 DEF IInv, RecorderInv

LEMMA CommitFailsSafe == ASSUME IInv, CommitFails PROVE IInv'
<1>1. /\ worker = "writing" /\ worker' = "answering"
      /\ results' = [i \in DOMAIN batch |-> FALSE]
      /\ UNCHANGED <<up, rows, routes, containers, native, req, pending, batch, binding, acknowledged>>
  BY DEF CommitFails, tables, docker
<1>2. RequestInv'
  BY <1>1, RequestsStay DEF RoutesStay
<1>3. ToAnswer'
  BY <1>1 DEF ToAnswer
<1>4. Waiting' = Waiting
  BY <1>1 DEF Waiting
<1>5. Entries'
  BY <1>1, <1>4 DEF IInv, RecorderInv, Entries
<1>6. VariableTypes' /\ AcknowledgedInv'
  BY <1>1 DEF IInv, VariableTypes, AcknowledgedInv
<1> QED
  BY <1>2, <1>3, <1>5, <1>6 DEF IInv, RecorderInv

LEMMA AnswerSafe == ASSUME IInv, Answer PROVE IInv'
<1> DEFINE at(r) == CHOOSE i \in DOMAIN batch : batch[i] = r
<1>1. /\ worker = "answering" /\ batch' = <<>> /\ results' = <<>>
      /\ worker' = IF pending = <<>> THEN "idle" ELSE "collecting"
      /\ req' = [r \in Requests |->
                   IF r \notin ToSet(batch) THEN req[r]
                   ELSE IF results[at(r)] THEN [req[r] EXCEPT !.pc = "binding"] ELSE NotRunning]
      /\ UNCHANGED <<up, rows, routes, containers, native, pending, binding, acknowledged>>
  BY DEF Answer, Rest, tables, docker
<1>2. Entries /\ ToAnswer /\ RequestInv
  BY DEF IInv, RecorderInv
<1>3. ASSUME NEW r \in Requests, r \in ToSet(batch)
      PROVE  /\ r \in Waiting /\ at(r) \in DOMAIN batch /\ batch[at(r)] = r
             /\ results[at(r)] => routes[req[r].session] = req[r].owner
  <2>1. r \in Waiting /\ \E i \in DOMAIN batch : batch[i] = r
    BY <1>2, <1>3 DEF Entries, ToSet
  <2>2. at(r) \in DOMAIN batch /\ batch[at(r)] = r
    BY <2>1
  <2> HIDE DEF at
  <2> QED
    BY <1>1, <1>2, <2>1, <2>2 DEF ToAnswer
<1> HIDE DEF at
<1>4. ASSUME NEW r \in Requests
      PROVE  /\ req'[r] \in Request \cup {NotRunning} /\ Good(r)'
             /\ (r \in Waiting' <=> r \in Waiting /\ r \notin ToSet(batch))
  <2>1. CASE r \notin ToSet(batch)
    <3>1. req'[r] = req[r]
      BY <1>1, <2>1
    <3> QED
      BY <1>1, <1>2, <2>1, <3>1 DEF RequestInv, Good, Named, HasRoute, Place, Waiting
  <2>2. CASE r \in ToSet(batch) /\ results[at(r)]
    <3>1. /\ req[r].pc = "recording" /\ routes[req[r].session] = req[r].owner
      BY <1>3, <2>2 DEF Waiting
    <3>2. req[r] \in Request /\ req[r].session \in Sessions
      BY <1>2, <3>1, RequestTypes DEF RequestInv, Good, Named, States
    <3>3. req'[r] = [req[r] EXCEPT !.pc = "binding"]
      BY <1>1, <2>2
    <3>4. /\ req'[r] \in Request /\ req'[r].pc = "binding"
          /\ req'[r].session = req[r].session /\ req'[r].owner = req[r].owner
      BY <3>2, <3>3 DEF Request, States
    <3> QED
      BY <1>1, <2>2, <3>1, <3>2, <3>4 DEF Good, Waiting
  <2>3. CASE r \in ToSet(batch) /\ ~results[at(r)]
    <3>1. req'[r] = NotRunning
      BY <1>1, <2>3
    <3> QED
      BY <2>3, <3>1 DEF Good, Waiting, NotRunning
  <2> QED
    BY <2>1, <2>2, <2>3
<1>5. RequestInv'
  <2>1. req' \in [Requests -> Request \cup {NotRunning}]
    BY <1>1, <1>4
  <2> QED
    BY <1>4, <2>1 DEF RequestInv
<1>6. Waiting' = Waiting \ ToSet(batch)
  BY <1>4 DEF Waiting
<1>7. batch' \in Seq(Requests) /\ IsInjective(batch') /\ ToSet(batch') = {}
  BY <1>1, EmptySeq, Members DEF IsInjective, ToSet
<1>8. Entries' /\ ToAnswer'
  BY <1>1, <1>2, <1>6, <1>7 DEF Entries, ToAnswer
<1>9. VariableTypes' /\ AcknowledgedInv'
  BY <1>1 DEF IInv, VariableTypes, AcknowledgedInv
<1> QED
  BY <1>5, <1>8, <1>9 DEF IInv, RecorderInv

----------------------------------------------------------------------------
(* Restarts *)

LEMMA EmptyRecorder ==
  pending = <<>> /\ batch = <<>> /\ Waiting = {} /\ worker # "answering" => RecorderInv
<1>1. <<>> \in Seq(Requests) /\ IsInjective(<<>>) /\ ToSet(<<>>) = {}
  BY EmptySeq, Members DEF IsInjective, ToSet
<1> QED
  BY <1>1 DEF RecorderInv, Entries, ToAnswer

LEMMA CrashSafe == ASSUME IInv, Crash PROVE IInv'
<1>1. /\ up' = FALSE /\ req' = [r \in Requests |-> NotRunning]
      /\ pending' = <<>> /\ batch' = <<>> /\ worker' = "idle"
      /\ binding' = [s \in Sessions |-> None]
      /\ UNCHANGED <<rows, routes, containers, native, acknowledged>>
  BY DEF Crash, tables, docker
<1>2. VariableTypes' /\ AcknowledgedInv'
  BY <1>1 DEF IInv, VariableTypes, AcknowledgedInv
<1>3. RequestInv' /\ Waiting' = {}
  BY <1>1 DEF RequestInv, Good, Waiting, NotRunning
<1>4. RecorderInv'
  <2>1. (pending = <<>> /\ batch = <<>> /\ Waiting = {} /\ worker # "answering")'
    BY <1>1, <1>3
  <2> QED
    BY <2>1, EmptyRecorder, PTL
<1> QED
  BY <1>2, <1>3, <1>4 DEF IInv

LEMMA Unmoved ==
  ASSUME IInv, VariableTypes',
         UNCHANGED <<routes, native, req, pending, batch, results, worker, acknowledged>>
  PROVE  IInv'
<1>1. RequestInv'
  BY RequestsStay DEF RoutesStay
<1>2. Waiting' = Waiting
  BY DEF Waiting
<1>3. Entries' /\ ToAnswer'
  BY <1>2 DEF IInv, RecorderInv, Entries, ToAnswer
<1>4. AcknowledgedInv'
  BY DEF IInv, AcknowledgedInv
<1> QED
  BY <1>1, <1>3, <1>4 DEF IInv, RecorderInv

----------------------------------------------------------------------------
(* The theorems *)

LEMMA InitSafe == ASSUME Init PROVE IInv
<1>1. VariableTypes /\ AcknowledgedInv
  BY DEF Init, VariableTypes, AcknowledgedInv
<1>2. RequestInv /\ Waiting = {}
  BY DEF Init, RequestInv, Good, Waiting, NotRunning
<1>3. RecorderInv
  BY <1>2, EmptyRecorder DEF Init
<1> QED
  BY <1>1, <1>2, <1>3 DEF IInv

LEMMA NextSafe == ASSUME IInv, [Next]_vars PROVE IInv'
<1>1. ASSUME NEW r \in Requests, NEW o \in Owners, Create(r, o) PROVE IInv'
  BY <1>1, CreateSafe
<1>2. ASSUME NEW r \in Requests, NEW o \in Owners, NEW s \in Sessions, Address(r, o, s)
      PROVE  IInv'
  BY <1>2, AddressSafe
<1>3. ASSUME NEW r \in Requests, ContainerStarts(r) \/ Acquire(r) \/ NotAcquired(r)
      PROVE  IInv'
  BY <1>3, StartSafe, AcquireSafe, NotAcquiredSafe
<1>4. ASSUME NEW r \in Requests, NEW s \in Sessions, NativeCreates(r, s) PROVE IInv'
  BY <1>4, NativeCreatesSafe
<1>5. ASSUME NEW r \in Requests, UpstreamFails(r) \/ Executed(r) PROVE IInv'
  BY <1>5, UpstreamFailsSafe, ExecutedSafe
<1>6. ASSUME NEW r \in Requests, Lock(r) \/ Check(r) \/ Move(r) PROVE IInv'
  BY <1>6, LockSafe, CheckSafe, MoveSafe
<1>7. CASE Recorder
  BY <1>7, CollectSafe, CommitSafe, CommitFailsSafe, AnswerSafe DEF Recorder
<1>8. ASSUME NEW o \in Owners, ContainerLost(o) PROVE IInv'
  <2>1. /\ containers' = containers \ {o}
        /\ UNCHANGED <<up, rows, routes, native, req, pending, batch, results, worker, binding, acknowledged>>
    BY <1>8 DEF ContainerLost, tables, recorder
  <2>2. VariableTypes'
    BY <2>1 DEF IInv, VariableTypes
  <2> QED
    BY <2>1, <2>2, Unmoved
<1>9. CASE Crash
  BY <1>9, CrashSafe
<1>10. CASE Initialize
  <2>1. /\ up' = TRUE /\ rows' = rows \cup containers
        /\ UNCHANGED <<routes, containers, native, req, pending, batch, results, worker, binding, acknowledged>>
    BY <1>10 DEF Initialize, Reconciled, docker, recorder
  <2>2. VariableTypes'
    BY <2>1 DEF IInv, VariableTypes
  <2> QED
    BY <2>1, <2>2, Unmoved
<1>11. CASE UNCHANGED vars
  <2>1. UNCHANGED <<up, rows, routes, containers, native, req, pending, batch, results, worker, binding, acknowledged>>
    BY <1>11 DEF vars, tables, docker, recorder
  <2>2. VariableTypes'
    BY <2>1 DEF IInv, VariableTypes
  <2> QED
    BY <2>1, <2>2, Unmoved
<1> QED
  BY <1>1, <1>2, <1>3, <1>4, <1>5, <1>6, <1>7, <1>8, <1>9, <1>10, <1>11 DEF Next

(* The inductive invariant of the session routes: what a request has       *)
(* established at each of its states, and the recorder's outcomes          *)
(* (native_router.py:104-137, 631; session_binding.py:97).                 *)
THEOREM RouteInvariance == Spec => []IInv
<1>1. Init => IInv
  BY InitSafe
<1>2. IInv /\ [Next]_vars => IInv'
  BY NextSafe
<1> QED
  BY <1>1, <1>2, PTL DEF Spec

LEMMA Together ==
  ASSUME NEW p \in Seq(Requests), NEW b \in Seq(Requests),
         IsInjective(p), IsInjective(b), ToSet(p) \cap ToSet(b) = {}
  PROVE  IsInjective(p \o b) /\ ToSet(p \o b) = ToSet(p) \cup ToSet(b)
<1> DEFINE n == Len(p)
           m == Len(b)
<1>1. n \in Nat /\ m \in Nat /\ DOMAIN p = 1..n /\ DOMAIN b = 1..m
  BY Members
<1>2. /\ p \o b \in Seq(Requests) /\ Len(p \o b) = n + m
      /\ \A i \in 1..(n + m) : (p \o b)[i] = IF i <= n THEN p[i] ELSE b[i - n]
  BY ConcatProperties
<1>3. DOMAIN (p \o b) = 1..(n + m)
  BY <1>2, Members
<1>4. \A i \in 1..(n + m) : IF i <= n THEN i \in 1..n /\ (p \o b)[i] = p[i]
                            ELSE i - n \in 1..m /\ (p \o b)[i] = b[i - n]
  BY <1>1, <1>2
<1>5. \A i \in 1..n : i \in 1..(n + m) /\ (p \o b)[i] = p[i]
  BY <1>1, <1>2
<1>6. \A i \in 1..m : n + i \in 1..(n + m) /\ (p \o b)[n + i] = b[i]
  <2>1. \A i \in 1..m : n + i \in 1..(n + m) /\ ~(n + i <= n) /\ (n + i) - n = i
    BY <1>1
  <2> QED
    BY <1>2, <2>1
<1>7. \A i \in 1..n, j \in 1..m : p[i] # b[j]
  BY <1>1 DEF ToSet
<1> DEFINE c == p \o b
<1>8. ToSet(c) = ToSet(p) \cup ToSet(b)
  <2>1. \A i \in 1..(n + m) : c[i] \in ToSet(p) \cup ToSet(b)
    BY <1>1, <1>4 DEF ToSet
  <2>2. \A i \in 1..n : p[i] \in ToSet(c)
    BY <1>3, <1>5 DEF ToSet
  <2>3. \A i \in 1..m : b[i] \in ToSet(c)
    BY <1>3, <1>6 DEF ToSet
  <2> HIDE DEF c, n, m
  <2> QED
    BY <1>1, <1>3, <2>1, <2>2, <2>3 DEF ToSet, c
<1>9. IsInjective(c)
  <2>1. SUFFICES ASSUME NEW i \in 1..(n + m), NEW j \in 1..(n + m), c[i] = c[j] PROVE i = j
    BY <1>3 DEF IsInjective
  <2>2. i \in Nat /\ j \in Nat
    BY <1>1
  <2>3. CASE i <= n /\ j <= n
    BY <1>1, <1>4, <2>1, <2>3 DEF IsInjective
  <2>4. CASE ~(i <= n) /\ ~(j <= n)
    <3>1. i - n = j - n
      BY <1>1, <1>4, <2>1, <2>4 DEF IsInjective
    <3> QED
      BY <1>1, <2>2, <3>1
  <2>5. CASE i <= n /\ ~(j <= n)
    BY <1>4, <1>7, <2>1, <2>5
  <2>6. CASE ~(i <= n) /\ j <= n
    BY <1>4, <1>7, <2>1, <2>6
  <2> QED
    BY <2>3, <2>4, <2>5, <2>6
<1> QED
  BY <1>8, <1>9

(* Every request that waits for its route is in the recorder exactly once, *)
(* and a worker is there to answer it (native_router.py:104-137).          *)
THEOREM RoutesTypeCorrectness == Spec => []TypeOK
<1>1. IInv => TypeOK
  <2>1. SUFFICES ASSUME IInv PROVE TypeOK
    OBVIOUS
  <2>2. ToSet(pending \o batch) = Waiting /\ IsInjective(pending \o batch)
    BY <2>1, Together DEF IInv, RecorderInv, Entries
  <2>3. worker = "idle" => Waiting = {}
    <3>1. ToSet(<<>>) = {}
      BY EmptySeq, Members DEF ToSet
    <3> QED
      BY <2>1, <3>1 DEF IInv, RecorderInv, Entries
  <2>4. \A r \in Requests : req[r] # NotRunning =>
          /\ req[r].owner \in Owners /\ req[r].session \in Sessions \cup {None}
          /\ req[r].kind \in {"create", "message", "fork", "unrouted"}
    BY <2>1, RequestTypes DEF IInv, Kinds
  <2> QED
    BY <2>1, <2>2, <2>3, <2>4 DEF IInv, VariableTypes, TypeOK
<1> QED
  BY <1>1, RouteInvariance, PTL

(* Whoever was told that a session is his has its route and it executes in *)
(* his own directory, and so does every message to a session that has one  *)
(* (native_router.py:297, 631; registry.py:235; session_binding.py:97).    *)
THEOREM SessionsIsolated == Spec => []Isolation
<1>1. IInv => Isolation
  <2>1. SUFFICES ASSUME IInv PROVE Isolation
    OBVIOUS
  <2>2. \A r \in Requests : req[r].pc = "executing" /\ req[r].kind = "message" =>
          routes[req[r].session] = req[r].owner /\ Place(r) = "own"
    BY <2>1, RequestTypes DEF IInv, RequestInv, Good, HasRoute, States
  <2> QED
    BY <2>1, <2>2 DEF IInv, AcknowledgedInv, Isolation
<1> QED
  BY <1>1, RouteInvariance, PTL
=============================================================================
