------------------------ MODULE SandboxLeasesProofs ------------------------
(***************************************************************************)
(* Proofs about SandboxLeases, for any users and any finite set of         *)
(* requests: types, exact counters, a drain that admits nobody, and        *)
(* containers never removed under a request.                               *)
(***************************************************************************)
EXTENDS SandboxLeases, FiniteSetTheorems, TLAPS

USE DEF counters, docker, tasks, gate, vars

----------------------------------------------------------------------------
(* What the counters count: when one request moves, each changes by one at *)
(* most.                                                                   *)
Running == [pc : {"authorized"} \cup Acquiring \cup Leased, user : Users, kind : RequestKinds]
ReqType == [Requests -> {NotRunning} \cup Running]

Num(b) == IF b THEN 1 ELSE 0
Holds(r, u) == req[r].pc \in Leased /\ req[r].user = u
Streams(r, u) == req[r].pc = "streaming" /\ req[r].user = u
Acquires(r) == req[r].pc \in Acquiring
MutatesNow(r) == req[r].pc \in Acquiring \cup {"serving", "recorded"} /\ req[r].kind \in Mutations

Holders(u) == {r \in Requests : Holds(r, u)}
Streamers(u) == {r \in Requests : Streams(r, u)}
Acquirers == {r \in Requests : Acquires(r)}
Mutators == {r \in Requests : MutatesNow(r)}

CountsRight ==
  /\ \A u \in Users : /\ inUse[u] = Cardinality(Holders(u))
                      /\ observers[u] = Cardinality(Streamers(u))
  /\ acquiring = Cardinality(Acquirers) /\ requests = Cardinality(Mutators)

LEMMA Counting == CountersExact <=> CountsRight
<1>1. ASSUME NEW u \in Users
      PROVE  CountOf(u, Leased) = Cardinality(Holders(u))
             /\ CountOf(u, {"streaming"}) = Cardinality(Streamers(u))
  <2>1. Streamers(u) = {r \in Requests : req[r].pc \in {"streaming"} /\ req[r].user = u}
    BY DEF Streamers, Streams
  <2> QED
    BY <2>1 DEF CountOf, Holders, Holds
<1>2. Count(Acquiring) = Cardinality(Acquirers)
  BY DEF Count, Acquirers, Acquires
<1>3. Mutators = {r \in Requests : req[r].pc \in Acquiring \cup {"serving", "recorded"}
                                   /\ req[r].kind \in Mutations}
  BY DEF Mutators, MutatesNow
<1> QED
  BY <1>1, <1>2, <1>3 DEF CountersExact, CountsRight

LEMMA OneMoves ==
  ASSUME NEW X \in SUBSET Requests, NEW Y \in SUBSET Requests, NEW r \in Requests,
         X \ {r} = Y \ {r}
  PROVE  /\ Cardinality(X) \in Nat /\ Cardinality(Y) \in Nat
         /\ Cardinality(Y) = Cardinality(X) + Num(r \in Y) - Num(r \in X)
         /\ r \in X => Cardinality(X) >= 1
<1>1. IsFiniteSet(X) /\ IsFiniteSet(Y)
  BY RequestsAssumption, FS_Subset
<1>2. Cardinality(X) \in Nat /\ Cardinality(Y) \in Nat
  BY <1>1, FS_CardinalityType
<1>3. CASE r \in X /\ r \in Y
  <2>1. X = Y
    BY <1>3
  <2>2. Cardinality(X) # 0
    BY <1>1, <1>3, FS_EmptySet
  <2> QED
    BY <1>2, <1>3, <2>1, <2>2 DEF Num
<1>4. CASE r \in X /\ r \notin Y
  <2>1. Y = X \ {r}
    BY <1>4
  <2>2. Cardinality(Y) = Cardinality(X) - 1
    BY <1>1, <1>4, <2>1, FS_RemoveElement
  <2>3. Cardinality(X) # 0
    BY <1>1, <1>4, FS_EmptySet
  <2> QED
    BY <1>2, <1>4, <2>2, <2>3 DEF Num
<1>5. CASE r \notin X /\ r \in Y
  <2>1. Y = X \cup {r}
    BY <1>5
  <2>2. Cardinality(Y) = Cardinality(X) + 1
    BY <1>1, <1>5, <2>1, FS_AddElement
  <2> QED
    BY <1>2, <1>5, <2>2 DEF Num
<1>6. CASE r \notin X /\ r \notin Y
  <2>1. X = Y
    BY <1>6
  <2> QED
    BY <1>2, <1>6, <2>1 DEF Num
<1> QED
  BY <1>3, <1>4, <1>5, <1>6

LEMMA Positive ==
  ASSUME TypeOK, CountersExact, NEW r \in Requests
  PROVE  /\ \A u \in Users : /\ Holds(r, u) => inUse[u] >= 1
                             /\ Streams(r, u) => observers[u] >= 1
         /\ Acquires(r) => acquiring >= 1
         /\ MutatesNow(r) => requests >= 1
<1>1. ASSUME NEW u \in Users
      PROVE  (Holds(r, u) => inUse[u] >= 1) /\ (Streams(r, u) => observers[u] >= 1)
  <2>1. Holders(u) \in SUBSET Requests /\ Streamers(u) \in SUBSET Requests
    BY DEF Holders, Streamers
  <2>2. /\ r \in Holders(u) => Cardinality(Holders(u)) >= 1
        /\ r \in Streamers(u) => Cardinality(Streamers(u)) >= 1
    BY <2>1, OneMoves
  <2> QED
    BY <2>2, Counting DEF Holders, Streamers, CountsRight
<1>2. Acquirers \in SUBSET Requests /\ Mutators \in SUBSET Requests
  BY DEF Acquirers, Mutators
<1>3. /\ r \in Acquirers => Cardinality(Acquirers) >= 1
      /\ r \in Mutators => Cardinality(Mutators) >= 1
  BY <1>2, OneMoves
<1>4. (Acquires(r) => acquiring >= 1) /\ (MutatesNow(r) => requests >= 1)
  BY <1>3, Counting DEF Acquirers, Mutators, CountsRight
<1> QED
  BY <1>1, <1>4

(* The new counts, when only r moves. *)
OnlyMoves(r) == \A q \in Requests \ {r} : req'[q] = req[q]
UserCountsMove(r, u) ==
  /\ inUse'[u] = inUse[u] + Num(Holds(r, u)') - Num(Holds(r, u))
  /\ observers'[u] = observers[u] + Num(Streams(r, u)') - Num(Streams(r, u))
AgentCountsMove(r) ==
  /\ acquiring' = acquiring + Num(Acquires(r)') - Num(Acquires(r))
  /\ requests' = requests + Num(MutatesNow(r)') - Num(MutatesNow(r))

LEMMA CountersMove ==
  ASSUME TypeOK, CountersExact, NEW r \in Requests, OnlyMoves(r),
         \A u \in Users : UserCountsMove(r, u), AgentCountsMove(r)
  PROVE  CountersExact'
<1>1. ASSUME NEW u \in Users
      PROVE  inUse'[u] = Cardinality(Holders(u)') /\ observers'[u] = Cardinality(Streamers(u)')
  <2>1. /\ Holders(u) \in SUBSET Requests /\ Holders(u)' \in SUBSET Requests
        /\ Streamers(u) \in SUBSET Requests /\ Streamers(u)' \in SUBSET Requests
    BY DEF Holders, Streamers
  <2>2. Holders(u) \ {r} = Holders(u)' \ {r} /\ Streamers(u) \ {r} = Streamers(u)' \ {r}
    BY DEF OnlyMoves, Holders, Streamers, Holds, Streams
  <2>3. Cardinality(Holders(u)') = Cardinality(Holders(u)) + Num(r \in Holders(u)') - Num(r \in Holders(u))
    BY <2>1, <2>2, OneMoves
  <2>4. Cardinality(Streamers(u)')
          = Cardinality(Streamers(u)) + Num(r \in Streamers(u)') - Num(r \in Streamers(u))
    BY <2>1, <2>2, OneMoves
  <2> QED
    BY <2>3, <2>4, Counting DEF UserCountsMove, CountsRight, Holders, Streamers, Num
<1>2. /\ Acquirers \in SUBSET Requests /\ Acquirers' \in SUBSET Requests
      /\ Mutators \in SUBSET Requests /\ Mutators' \in SUBSET Requests
  BY DEF Acquirers, Mutators
<1>3. Acquirers \ {r} = Acquirers' \ {r} /\ Mutators \ {r} = Mutators' \ {r}
  BY DEF OnlyMoves, Acquirers, Mutators, Acquires, MutatesNow
<1>4. Cardinality(Acquirers') = Cardinality(Acquirers) + Num(r \in Acquirers') - Num(r \in Acquirers)
  BY <1>2, <1>3, OneMoves
<1>5. Cardinality(Mutators') = Cardinality(Mutators) + Num(r \in Mutators') - Num(r \in Mutators)
  BY <1>2, <1>3, OneMoves
<1>6. acquiring' = Cardinality(Acquirers') /\ requests' = Cardinality(Mutators')
  BY <1>4, <1>5, Counting DEF AgentCountsMove, CountsRight, Acquirers, Mutators, Num
<1>7. CountsRight'
  BY <1>1, <1>6 DEF CountsRight
<1> QED
  BY <1>7, Counting, PTL

----------------------------------------------------------------------------
(* A request moves *)

LEMMA Moving ==
  ASSUME TypeOK, NEW r \in Requests, req[r].pc # "idle"
  PROVE  /\ req[r] \in Running
         /\ req[r].pc \in {"authorized"} \cup Acquiring \cup Leased
         /\ req[r].user \in Users /\ req[r].kind \in RequestKinds
  BY DEF TypeOK, Running, NotRunning

LEMMA ToMoves ==
  ASSUME TypeOK, NEW r \in Requests, req[r].pc # "idle",
         NEW pc \in {"authorized"} \cup Acquiring \cup Leased, To(r, pc)
  PROVE  /\ req' \in ReqType
         /\ req'[r].pc = pc /\ req'[r].user = req[r].user /\ req'[r].kind = req[r].kind
         /\ OnlyMoves(r)
<1>1. req[r] \in Running /\ req \in ReqType
  BY Moving DEF TypeOK, ReqType, Running
<1>2. [req[r] EXCEPT !.pc = pc] \in Running
  BY <1>1 DEF Running
<1>3. req' = [req EXCEPT ![r] = [req[r] EXCEPT !.pc = pc]]
  BY <1>1 DEF To
<1>4. req'[r] = [req[r] EXCEPT !.pc = pc] /\ OnlyMoves(r)
  BY <1>1, <1>3 DEF ReqType, OnlyMoves
<1>5. req' \in ReqType
  BY <1>1, <1>2, <1>3 DEF ReqType
<1> QED
  BY <1>1, <1>4, <1>5 DEF Running

LEMMA EndMoves ==
  ASSUME TypeOK, NEW r \in Requests, req' = [req EXCEPT ![r] = NotRunning]
  PROVE  /\ req' \in ReqType /\ req'[r].pc = "idle"
         /\ OnlyMoves(r)
  BY DEF TypeOK, ReqType, Running, NotRunning, OnlyMoves

LEMMA AuthorizeSafe ==
  ASSUME TypeOK, CountersExact, NEW r \in Requests, Authorize(r)
  PROVE  TypeOK' /\ CountersExact'
<1>1. req[r] = NotRunning /\ req \in ReqType
  BY DEF Authorize, TypeOK, ReqType, Running
<1>2. PICK u \in Users, k \in RequestKinds :
        req' = [req EXCEPT ![r] = [pc |-> "authorized", user |-> u, kind |-> k]]
  BY DEF Authorize
<1>3. /\ req' \in ReqType /\ req'[r].pc = "authorized"
      /\ OnlyMoves(r)
  BY <1>1, <1>2 DEF ReqType, Running, OnlyMoves
<1>4. TypeOK'
  BY <1>3 DEF Authorize, TypeOK, ReqType, Running
<1>5. UNCHANGED counters
  BY DEF Authorize
<1>6. /\ \A v \in Users : ~Holds(r, v) /\ ~Streams(r, v) /\ ~Holds(r, v)' /\ ~Streams(r, v)'
      /\ ~Acquires(r) /\ ~MutatesNow(r) /\ ~Acquires(r)' /\ ~MutatesNow(r)'
  BY <1>1, <1>3 DEF NotRunning, Holds, Streams, Acquires, MutatesNow, Leased, Acquiring
<1>7. \A v \in Users : UserCountsMove(r, v)
  BY <1>5, <1>6 DEF UserCountsMove, Num, TypeOK
<1>8. AgentCountsMove(r)
  BY <1>5, <1>6 DEF AgentCountsMove, Num, TypeOK
<1> QED
  BY <1>3, <1>4, <1>7, <1>8, CountersMove

LEMMA EnterSafe ==
  ASSUME TypeOK, CountersExact, NEW r \in Requests, Enter(r)
  PROVE  TypeOK' /\ CountersExact'
<1>1. /\ req[r].pc = "authorized" /\ To(r, "queued")
      /\ requests' = requests + Mutates(r) /\ acquiring' = acquiring + 1
      /\ UNCHANGED <<inUse, observers>>
  BY DEF Enter
<1>2. /\ req' \in ReqType
      /\ req'[r].pc = "queued" /\ req'[r].user = req[r].user /\ req'[r].kind = req[r].kind
      /\ OnlyMoves(r)
  BY <1>1, ToMoves DEF Acquiring
<1>3. TypeOK'
  BY <1>1, <1>2 DEF Enter, Mutates, TypeOK, ReqType, Running
<1>4. /\ \A v \in Users : ~Holds(r, v) /\ ~Streams(r, v) /\ ~Holds(r, v)' /\ ~Streams(r, v)'
      /\ ~Acquires(r) /\ Acquires(r)' /\ ~MutatesNow(r)
      /\ MutatesNow(r)' <=> req[r].kind \in Mutations
  BY <1>1, <1>2 DEF Holds, Streams, Acquires, MutatesNow, Leased, Acquiring
<1>5. \A v \in Users : UserCountsMove(r, v)
  BY <1>1, <1>4 DEF UserCountsMove, Num, TypeOK
<1>6. AgentCountsMove(r)
  BY <1>1, <1>4 DEF AgentCountsMove, Num, Mutates, TypeOK
<1> QED
  BY <1>2, <1>3, <1>5, <1>6, CountersMove

(* Only the counts of what r leaves go back. *)
LEMMA RefusedSafe ==
  ASSUME TypeOK, CountersExact, NEW r \in Requests, req[r].pc \in Acquiring, Refused(r),
         \/ UNCHANGED <<docker, last>>
         \/ Remove(req[r].user) /\ Touch(req[r].user)
  PROVE  TypeOK' /\ CountersExact'
<1>1. /\ req' = [req EXCEPT ![r] = NotRunning] /\ acquiring' = acquiring - 1
      /\ requests' = IF requests > 0 THEN requests - Mutates(r) ELSE 0
      /\ lock' = [u \in Users |-> IF lock[u] = r THEN Free ELSE lock[u]]
      /\ UNCHANGED <<inUse, observers, tasks, gate, now, restarts>>
  BY DEF Refused, Unadmit
<1>2. /\ req' \in ReqType /\ req'[r].pc = "idle"
      /\ OnlyMoves(r)
  BY <1>1, EndMoves
<1>3. acquiring >= 1 /\ (req[r].kind \in Mutations => requests >= 1)
  BY Positive DEF Acquires, MutatesNow
<1>4. acquiring' \in Nat /\ requests' \in Nat /\ requests' = requests - Mutates(r)
  BY <1>1, <1>3 DEF Mutates, TypeOK
<1>0. /\ container \in [Users -> {"none", "running", "stopped"}]
      /\ busy \in [Users -> BOOLEAN] /\ last \in [Users -> Nat] /\ now \in Nat
  BY DEF TypeOK
<1>5. /\ container' \in [Users -> {"none", "running", "stopped"}]
      /\ last' \in [Users -> Nat]
  BY <1>0 DEF Remove, Touch
<1>6. busy' \in [Users -> BOOLEAN]
  BY <1>0 DEF Remove
<1>7. lock' \in [Users -> Requests \cup {Free, "health", "action"}]
  BY <1>1 DEF TypeOK
<1>8. TypeOK'
  BY <1>1, <1>2, <1>4, <1>5, <1>6, <1>7 DEF TypeOK, ReqType, Running
<1>9. /\ \A v \in Users : ~Holds(r, v) /\ ~Streams(r, v) /\ ~Holds(r, v)' /\ ~Streams(r, v)'
      /\ Acquires(r) /\ ~Acquires(r)' /\ ~MutatesNow(r)'
      /\ MutatesNow(r) <=> req[r].kind \in Mutations
  BY <1>2 DEF Holds, Streams, Acquires, MutatesNow, Leased, Acquiring
<1>10. \A v \in Users : UserCountsMove(r, v)
  BY <1>1, <1>9 DEF UserCountsMove, Num, TypeOK
<1>11. AgentCountsMove(r)
  BY <1>1, <1>4, <1>9 DEF AgentCountsMove, Num, Mutates, TypeOK
<1> QED
  BY <1>2, <1>8, <1>10, <1>11, CountersMove

LEMMA TakeLockSafe ==
  ASSUME TypeOK, CountersExact, NEW r \in Requests, TakeLock(r) \/ Admitted(r)
  PROVE  TypeOK' /\ CountersExact'
<1>1. req[r].pc \in Acquiring
  BY DEF TakeLock, Admitted, Acquiring
<1>2. CASE Refused(r) /\ UNCHANGED <<docker, last>>
  BY <1>1, <1>2, RefusedSafe
<1>3. CASE /\ \E pc \in {"admitted", "starting"} : To(r, pc)
           /\ lock' \in {lock, [lock EXCEPT ![req[r].user] = r]}
           /\ UNCHANGED <<counters, docker, last, tasks, gate, now, restarts>>
  <2>1. /\ req' \in ReqType /\ req'[r].pc \in {"admitted", "starting"}
        /\ req'[r].user = req[r].user /\ req'[r].kind = req[r].kind
        /\ OnlyMoves(r)
    BY <1>1, <1>3, ToMoves DEF Acquiring
  <2>2. TypeOK'
    BY <1>3, <2>1 DEF TypeOK, ReqType, Running
  <2>3. /\ \A v \in Users : ~Holds(r, v) /\ ~Streams(r, v) /\ ~Holds(r, v)' /\ ~Streams(r, v)'
        /\ Acquires(r) /\ Acquires(r)'
        /\ MutatesNow(r)' <=> MutatesNow(r)
    BY <1>1, <2>1 DEF Holds, Streams, Acquires, MutatesNow, Leased, Acquiring
  <2>4. \A v \in Users : UserCountsMove(r, v)
    BY <1>3, <2>3 DEF UserCountsMove, Num, TypeOK
  <2>5. AgentCountsMove(r)
    BY <1>3, <2>3 DEF AgentCountsMove, Num, TypeOK
  <2> QED
    BY <2>1, <2>2, <2>4, <2>5, CountersMove
<1> QED
  BY <1>2, <1>3 DEF TakeLock, Admitted

KindInv ==
  \A r \in Requests : req[r].pc \in {"connecting", "streaming"} => req[r].kind = "events"

LEMMA TouchType == ASSUME TypeOK, NEW u, Touch(u) PROVE last' \in [Users -> Nat]
<1>1. now \in Nat /\ last \in [Users -> Nat]
  BY TimesAssumption DEF TypeOK
<1> QED
  BY <1>1 DEF Touch

LEMMA EnsuredTypes ==
  ASSUME TypeOK, NEW u \in Users, Ensured(u) \/ (Remove(u) /\ Touch(u))
  PROVE  /\ container' \in [Users -> {"none", "running", "stopped"}]
         /\ busy' \in [Users -> BOOLEAN] /\ last' \in [Users -> Nat]
<1>1. container' \in [Users -> {"none", "running", "stopped"}]
  BY DEF Ensured, Remove, TypeOK
<1>3. last' \in [Users -> Nat]
  <2>1. last' = last \/ Touch(u)
    BY DEF Ensured
  <2> QED
    BY <2>1, TouchType DEF TypeOK
<1>2. busy' \in [Users -> BOOLEAN]
  BY DEF Ensured, Remove, TypeOK
<1> QED
  BY <1>1, <1>2, <1>3

LEMMA AcquiredSafe ==
  ASSUME TypeOK, CountersExact, NEW r \in Requests, Acquired(r)
  PROVE  TypeOK' /\ CountersExact'
<1>1. /\ req[r].pc = "starting" /\ Ensured(req[r].user)
      /\ inUse' = [inUse EXCEPT ![req[r].user] = @ + 1] /\ acquiring' = acquiring - 1
      /\ lock' = [lock EXCEPT ![req[r].user] = Free]
      /\ To(r, IF req[r].kind = "events" THEN "connecting" ELSE "serving")
      /\ UNCHANGED <<requests, observers, tasks, gate, now, restarts>>
  BY DEF Acquired, Unlock
<1>2. /\ req' \in ReqType
      /\ req'[r].pc = (IF req[r].kind = "events" THEN "connecting" ELSE "serving")
      /\ req'[r].user = req[r].user /\ req'[r].kind = req[r].kind
      /\ OnlyMoves(r)
  BY <1>1, ToMoves DEF Leased
<1>3. req[r].user \in Users /\ acquiring >= 1
  BY <1>1, Moving, Positive DEF Acquires, Acquiring
<1>4. TypeOK'
  <2>1. acquiring' \in Nat /\ inUse' \in [Users -> Nat]
    BY <1>1, <1>3 DEF TypeOK
  <2>2. lock' \in [Users -> Requests \cup {Free, "health", "action"}]
    BY <1>1, <1>3 DEF TypeOK
  <2>3. /\ container' \in [Users -> {"none", "running", "stopped"}]
        /\ busy' \in [Users -> BOOLEAN] /\ last' \in [Users -> Nat]
    BY <1>1, <1>3, EnsuredTypes
  <2> QED
    BY <1>1, <1>2, <2>1, <2>2, <2>3 DEF TypeOK, ReqType, Running
<1>5. /\ \A v \in Users : /\ ~Holds(r, v) /\ ~Streams(r, v) /\ ~Streams(r, v)'
                          /\ Holds(r, v)' <=> v = req[r].user
      /\ Acquires(r) /\ ~Acquires(r)' /\ (MutatesNow(r)' <=> MutatesNow(r))
  BY <1>1, <1>2 DEF Holds, Streams, Acquires, MutatesNow, Leased, Acquiring, Mutations
<1>6. \A v \in Users : UserCountsMove(r, v)
  BY <1>1, <1>5 DEF UserCountsMove, Num, TypeOK
<1>7. AgentCountsMove(r)
  BY <1>1, <1>5 DEF AgentCountsMove, Num, TypeOK
<1> QED
  BY <1>2, <1>4, <1>6, <1>7, CountersMove

(* Within its lease: the counters of leases stay. *)
LEMMA ServingSafe ==
  ASSUME TypeOK, CountersExact, NEW r \in Requests, RecordSession(r) \/ TouchSandbox(r)
  PROVE  TypeOK' /\ CountersExact'
<1>1. PICK pc \in {"recorded", "touched"} :
        /\ req[r].pc = (IF pc = "recorded" THEN "serving" ELSE "touching")
        /\ To(r, pc) /\ Touch(req[r].user)
        /\ UNCHANGED <<counters, lock, docker, tasks, gate, now, restarts>>
  BY DEF RecordSession, TouchSandbox
<1>2. /\ req' \in ReqType
      /\ req'[r].pc = pc /\ req'[r].user = req[r].user /\ req'[r].kind = req[r].kind
      /\ OnlyMoves(r)
  BY <1>1, ToMoves DEF Leased
<1>3. last' \in [Users -> Nat]
  BY <1>1, TouchType
<1>4. TypeOK'
  BY <1>1, <1>2, <1>3 DEF TypeOK, ReqType, Running
<1>5. /\ \A v \in Users : /\ ~Streams(r, v) /\ ~Streams(r, v)'
                          /\ Holds(r, v)' <=> Holds(r, v)
      /\ ~Acquires(r) /\ ~Acquires(r)' /\ (MutatesNow(r)' <=> MutatesNow(r))
  BY <1>1, <1>2 DEF Holds, Streams, Acquires, MutatesNow, Leased, Acquiring
<1>6. ASSUME NEW v \in Users PROVE UserCountsMove(r, v)
  <2>1. inUse'[v] = inUse[v] /\ observers'[v] = observers[v]
    BY <1>1 DEF counters
  <2>2. inUse[v] \in Nat /\ observers[v] \in Nat
    BY DEF TypeOK
  <2>3. Num(Holds(r, v)') = Num(Holds(r, v)) /\ Num(Streams(r, v)') = Num(Streams(r, v))
    BY <1>5 DEF Num
  <2>4. Num(Holds(r, v)) \in Int /\ Num(Streams(r, v)) \in Int
    BY DEF Num
  <2> QED
    BY <2>1, <2>2, <2>3, <2>4 DEF UserCountsMove
<1>7. AgentCountsMove(r)
  BY <1>1, <1>5 DEF AgentCountsMove, Num, TypeOK
<1> QED
  BY <1>2, <1>4, <1>6, <1>7, CountersMove

LEMMA SubscribeSafe ==
  ASSUME TypeOK, CountersExact, KindInv, NEW r \in Requests, Subscribe(r)
  PROVE  TypeOK' /\ CountersExact'
<1>1. /\ req[r].pc = "connecting" /\ To(r, "streaming")
      /\ observers' = [observers EXCEPT ![req[r].user] = @ + 1]
      /\ UNCHANGED <<requests, acquiring, inUse, lock, docker, last, tasks, gate, now, restarts>>
  BY DEF Subscribe
<1>2. /\ req' \in ReqType
      /\ req'[r].pc = "streaming" /\ req'[r].user = req[r].user /\ req'[r].kind = req[r].kind
      /\ OnlyMoves(r)
  BY <1>1, ToMoves DEF Leased
<1>3. TypeOK'
  BY <1>1, <1>2 DEF TypeOK, ReqType, Running
<1>4. /\ \A v \in Users : /\ ~Streams(r, v) /\ (Streams(r, v)' <=> v = req[r].user)
                          /\ Holds(r, v)' <=> Holds(r, v)
      /\ ~Acquires(r) /\ ~Acquires(r)' /\ ~MutatesNow(r)' /\ ~MutatesNow(r)
  BY <1>1, <1>2 DEF Holds, Streams, Acquires, MutatesNow, Leased, Acquiring
<1>5. \A v \in Users : UserCountsMove(r, v)
  BY <1>1, <1>4 DEF UserCountsMove, Num, TypeOK
<1>6. AgentCountsMove(r)
  BY <1>1, <1>4 DEF AgentCountsMove, Num, TypeOK
<1> QED
  BY <1>2, <1>3, <1>5, <1>6, CountersMove

(* The end of a request: its mutation and its subscription are over, its   *)
(* lease as well unless it is kept for the write of the timestamp.         *)
LEMMA EndSafe ==
  ASSUME TypeOK, CountersExact, KindInv, NEW r \in Requests, End(r)
  PROVE  TypeOK' /\ CountersExact'
<1> DEFINE u == req[r].user
<1>1. /\ req[r].pc \in {"serving", "recorded", "connecting", "streaming"}
      /\ requests' = IF requests > 0 THEN requests - Mutates(r) ELSE 0
      /\ observers' = IF req[r].pc = "streaming" THEN [observers EXCEPT ![u] = @ - 1] ELSE observers
      /\ \/ /\ inUse' = [inUse EXCEPT ![u] = @ - 1]
            /\ req' = [req EXCEPT ![r] = NotRunning]
         \/ To(r, "touching") /\ UNCHANGED inUse
      /\ UNCHANGED <<acquiring, lock, docker, last, tasks, gate, now, restarts>>
  BY DEF End, Unadmit
<1>2. u \in Users /\ req[r].kind \in RequestKinds
  BY <1>1, Moving
<1>3. /\ inUse[u] >= 1 /\ (req[r].pc = "streaming" => observers[u] >= 1)
      /\ MutatesNow(r) => requests >= 1
  BY <1>1, <1>2, Positive DEF Holds, Streams, Leased
<1>4. MutatesNow(r) <=> req[r].kind \in Mutations
  BY <1>1 DEF MutatesNow, KindInv, Mutations
<1>5. requests' = requests - Num(MutatesNow(r)) /\ requests' \in Nat
  BY <1>1, <1>3, <1>4 DEF Mutates, Num, TypeOK
<1>6. /\ req' \in ReqType /\ OnlyMoves(r)
      /\ \/ req'[r].pc = "idle" /\ inUse' = [inUse EXCEPT ![u] = @ - 1]
         \/ req'[r].pc = "touching" /\ req'[r].user = u /\ UNCHANGED inUse
  BY <1>1, ToMoves, EndMoves DEF Leased
<1>7. TypeOK'
  <2>1. observers' \in [Users -> Nat]
    BY <1>1, <1>2, <1>3 DEF TypeOK
  <2>2. inUse' \in [Users -> Nat]
    BY <1>2, <1>3, <1>6 DEF TypeOK
  <2> QED
    BY <1>1, <1>5, <1>6, <2>1, <2>2 DEF TypeOK, ReqType, Running
<1>8. /\ \A v \in Users : /\ Streams(r, v) <=> req[r].pc = "streaming" /\ v = u
                          /\ ~Streams(r, v)' /\ (Holds(r, v) <=> v = u)
                          /\ Holds(r, v)' <=> req'[r].pc = "touching" /\ v = u
      /\ ~Acquires(r) /\ ~Acquires(r)' /\ ~MutatesNow(r)'
  BY <1>1, <1>6 DEF Holds, Streams, Acquires, MutatesNow, Leased, Acquiring
<1>9. ASSUME NEW v \in Users PROVE UserCountsMove(r, v)
  <2>1. inUse'[v] = inUse[v] + Num(Holds(r, v)') - Num(Holds(r, v))
    BY <1>6, <1>8 DEF Num, TypeOK
  <2>2. observers'[v] = observers[v] + Num(Streams(r, v)') - Num(Streams(r, v))
    BY <1>1, <1>8 DEF Num, TypeOK
  <2> QED
    BY <2>1, <2>2 DEF UserCountsMove
<1>10. AgentCountsMove(r)
  BY <1>1, <1>5, <1>8 DEF AgentCountsMove, Num, TypeOK
<1> QED
  BY <1>6, <1>7, <1>9, <1>10, CountersMove

LEMMA ReleasedSafe ==
  ASSUME TypeOK, CountersExact, NEW r \in Requests, Released(r)
  PROVE  TypeOK' /\ CountersExact'
<1> DEFINE u == req[r].user
<1>1. /\ req[r].pc \in {"touching", "touched"}
      /\ inUse' = [inUse EXCEPT ![u] = inUse[u] - 1]
      /\ req' = [req EXCEPT ![r] = NotRunning]
      /\ UNCHANGED <<requests, acquiring, observers, lock, docker, last, tasks, gate, now,
                     restarts>>
  BY DEF Released, Remaining
<1>2. u \in Users
  BY <1>1, Moving
<1>3. inUse[u] >= 1
  BY <1>1, <1>2, Positive DEF Holds, Leased
<1>4. req' \in ReqType /\ OnlyMoves(r) /\ req'[r].pc = "idle"
  BY <1>1, EndMoves
<1>5. inUse' \in [Users -> Nat]
  BY <1>1, <1>2, <1>3 DEF TypeOK
<1>6. TypeOK'
  BY <1>1, <1>4, <1>5 DEF TypeOK, ReqType, Running
<1>7. /\ \A v \in Users : /\ ~Streams(r, v) /\ ~Streams(r, v)'
                          /\ ~Holds(r, v)' /\ (Holds(r, v) <=> v = u)
      /\ ~Acquires(r) /\ ~Acquires(r)' /\ ~MutatesNow(r)' /\ ~MutatesNow(r)
  BY <1>1, <1>4 DEF Holds, Streams, Acquires, MutatesNow, Leased, Acquiring
<1>8. \A v \in Users : UserCountsMove(r, v)
  BY <1>1, <1>7 DEF UserCountsMove, Num, TypeOK
<1>9. AgentCountsMove(r)
  BY <1>1, <1>7 DEF AgentCountsMove, Num, TypeOK
<1> QED
  BY <1>4, <1>6, <1>8, <1>9, CountersMove

(* Every step of a request. *)
LEMMA RequestSafe ==
  ASSUME TypeOK, CountersExact, KindInv, NEW r \in Requests, Request(r)
  PROVE  TypeOK' /\ CountersExact'
<1>1. CASE NotAcquired(r)
  <2>1. req[r].pc \in Acquiring /\ Refused(r)
        /\ (UNCHANGED <<docker, last>> \/ (Remove(req[r].user) /\ Touch(req[r].user)))
    BY <1>1 DEF NotAcquired, Acquiring
  <2> QED
    BY <2>1, RefusedSafe
<1>2. CASE Execute(r)
  <2>1. UNCHANGED <<req, counters, lock, container, last, tasks, gate, now, restarts>>
    BY <1>2 DEF Execute
  <2>2. busy' \in [Users -> BOOLEAN]
    BY <1>2 DEF Execute, TypeOK
  <2>3. TypeOK'
    BY <2>1, <2>2 DEF TypeOK
  <2>4. CountersExact'
    BY <2>1 DEF CountersExact, Count, CountOf
  <2> QED
    BY <2>3, <2>4
<1> QED
  BY <1>1, <1>2, AuthorizeSafe, EnterSafe, TakeLockSafe, AcquiredSafe, ServingSafe, SubscribeSafe,
     EndSafe, ReleasedSafe DEF Request

----------------------------------------------------------------------------
(* The other steps leave the requests and their counters alone *)

HealthType == [pc : {"probing", "asking", "stopping"}, seen : Nat, due : BOOLEAN]

LEMMA HealthSafe ==
  ASSUME TypeOK, CountersExact, NEW u \in Users, Health(u)
  PROVE  TypeOK' /\ CountersExact'
<1>1. UNCHANGED <<req, counters, action, command, gate, now, restarts>>
  BY DEF Health, HealthGoesOn, HealthBegin, HealthNotRunning, HealthProbed, HealthAsked,
         HealthEvict, HealthGone
<1>2. CountersExact'
  BY <1>1 DEF CountersExact, Count, CountOf
<1>3. health \in [Users -> {NotRunning} \cup HealthType]
  BY DEF TypeOK, HealthType
<1>4. health' \in [Users -> {NotRunning} \cup HealthType]
  <2>1. CASE HealthBegin(u)
    <3>1. (now - last[u] >= IdleTimeout) \in BOOLEAN /\ last[u] \in Nat
      BY DEF TypeOK
    <3> QED
      BY <1>3, <2>1, <3>1 DEF HealthBegin, HealthType
  <2>2. ASSUME NEW pc \in {"asking", "stopping"}, HealthTo(u, pc), health[u].pc # "idle"
        PROVE  health' \in [Users -> {NotRunning} \cup HealthType]
    <3>1. health[u] \in HealthType
      BY <1>3, <2>2 DEF NotRunning
    <3>2. [health[u] EXCEPT !.pc = pc] \in HealthType
      BY <3>1 DEF HealthType
    <3>3. health' = [health EXCEPT ![u] = [health[u] EXCEPT !.pc = pc]]
      BY <1>3, <2>2 DEF HealthTo
    <3> QED
      BY <1>3, <3>2, <3>3
  <2>3. CASE HealthEnd(u)
    BY <1>3, <2>3 DEF HealthEnd
  <2>4. CASE HealthGoesOn(u)
    <3>1. \/ HealthEnd(u)
          \/ health[u].pc # "idle" /\ (HealthTo(u, "asking") \/ HealthTo(u, "stopping"))
      BY <2>4 DEF HealthGoesOn, HealthNotRunning, HealthProbed, HealthAsked, HealthEvict, HealthGone
    <3> QED
      BY <2>2, <2>3, <3>1
  <2> QED
    BY <2>1, <2>4 DEF Health
<1>5. lock' \in [Users -> Requests \cup {Free, "health", "action"}]
  <2>1. lock' \in {lock, [lock EXCEPT ![u] = "health"], [lock EXCEPT ![u] = Free]}
    BY DEF Health, HealthGoesOn, HealthBegin, HealthNotRunning, HealthProbed, HealthAsked,
           HealthEvict, HealthGone, HealthEnd, Unlock
  <2> QED
    BY <2>1 DEF TypeOK
<1>6. /\ container' \in [Users -> {"none", "running", "stopped"}]
      /\ busy' \in [Users -> BOOLEAN]
  <2>1. UNCHANGED docker \/ Remove(u)
    BY DEF Health, HealthGoesOn, HealthBegin, HealthNotRunning, HealthProbed, HealthAsked,
           HealthEvict, HealthGone
  <2>2. CASE Remove(u)
    <3>1. container' \in [Users -> {"none", "running", "stopped"}]
      BY <2>2 DEF Remove, TypeOK
    <3>2. busy' \in [Users -> BOOLEAN]
      BY <2>2 DEF Remove, TypeOK
    <3> QED
      BY <3>1, <3>2
  <2> QED
    BY <2>1, <2>2 DEF TypeOK
<1>7. last' \in [Users -> Nat]
  <2>1. \/ UNCHANGED last
        \/ Touch(u)
        \/ health[u].pc # "idle" /\ last' = [last EXCEPT ![u] = health[u].seen]
    BY DEF Health, HealthGoesOn, HealthBegin, HealthNotRunning, HealthProbed, HealthAsked,
           HealthEvict, HealthGone
  <2>2. health[u].pc # "idle" => health[u].seen \in Nat
    BY <1>3 DEF NotRunning, HealthType
  <2> QED
    BY <2>1, <2>2, TouchType DEF TypeOK
<1>8. TypeOK'
  BY <1>1, <1>4, <1>5, <1>6, <1>7 DEF TypeOK, HealthType
<1> QED
  BY <1>2, <1>8

LEMMA ActionSafe ==
  ASSUME TypeOK, CountersExact, NEW u \in Users, Action(u)
  PROVE  TypeOK' /\ CountersExact'
<1>1. UNCHANGED <<req, counters, health, command, gate, now, restarts>>
  BY DEF Action, ActionGoesOn, ActionBegin, ActionAsked, ActionStarted, ActionDone
<1>2. CountersExact'
  BY <1>1 DEF CountersExact, Count, CountOf
<1>3. action' \in [Users -> [pc : {"idle", "asking", "starting", "acting", "forced"}]]
  <2>1. \E pc \in {"idle", "asking", "starting", "acting", "forced"} :
          action' = [action EXCEPT ![u] = [pc |-> pc]]
    BY DEF Action, ActionGoesOn, ActionBegin, ActionAsked, ActionStarted, ActionDone, ActionTo,
           ActionEnd, NotRunning
  <2> QED
    BY <2>1 DEF TypeOK
<1>4. lock' \in [Users -> Requests \cup {Free, "health", "action"}]
  <2>1. lock' \in {lock, [lock EXCEPT ![u] = "action"], [lock EXCEPT ![u] = Free]}
    BY DEF Action, ActionGoesOn, ActionBegin, ActionAsked, ActionStarted, ActionDone, ActionEnd, Unlock
  <2> QED
    BY <2>1 DEF TypeOK
<1>5. /\ container' \in [Users -> {"none", "running", "stopped"}]
      /\ busy' \in [Users -> BOOLEAN] /\ last' \in [Users -> Nat]
  <2>1. CASE UNCHANGED <<docker, last>>
    BY <2>1 DEF TypeOK
  <2>2. CASE Ensured(u)
    BY <2>2, EnsuredTypes
  <2>3. CASE ActionDone(u)
    <3>1. container' \in [Users -> {"none", "running", "stopped"}]
      BY <2>3 DEF ActionDone, TypeOK
    <3>2. busy' \in [Users -> BOOLEAN]
      BY <2>3 DEF ActionDone, TypeOK
    <3>3. last' \in [Users -> Nat]
      BY <2>3, TouchType DEF ActionDone
    <3> QED
      BY <3>1, <3>2, <3>3
  <2> QED
    BY <2>1, <2>2, <2>3 DEF Action, ActionGoesOn, ActionBegin, ActionAsked, ActionStarted
<1>6. TypeOK'
  BY <1>1, <1>3, <1>4, <1>5 DEF TypeOK
<1> QED
  BY <1>2, <1>6

CommandType ==
  {NotRunning} \cup [pc : {"drain"}, removes : BOOLEAN]
    \cup [pc : {"asking"}, removes : BOOLEAN, todo : SUBSET Users]
    \cup [pc : {"removing"}, at : Users, todo : SUBSET Users]

LEMMA CommandFields ==
  ASSUME TypeOK
  PROVE  /\ command.pc \in {"drain", "asking"} => command.removes \in BOOLEAN
         /\ command.pc \in {"asking", "removing"} => command.todo \in SUBSET Users
         /\ command.pc = "asking" =>
              command = [pc |-> "asking", removes |-> command.removes, todo |-> command.todo]
         /\ command.pc = "removing" => command.at \in Users
  BY DEF TypeOK, NotRunning

LEMMA CheckRecordType ==
  ASSUME NEW U \in SUBSET Users, CheckRecord(U)
  PROVE  \/ command' = NotRunning
         \/ \E u \in U : command' = [pc |-> "removing", at |-> u, todo |-> U \ {u}]
  BY DEF CheckRecord, CommandEnds

LEMMA CommandSafe ==
  ASSUME TypeOK, CountersExact, Command
  PROVE  TypeOK' /\ CountersExact'
<1>1. UNCHANGED <<req, counters, lock, health, action, now, restarts>>
  BY DEF Command, CommandBlock, DrainBegin, Drained, RemoveRecord, RemoveRecordFails,
     DrainTimedOut, Resume, DrainAsk
<1>2. CountersExact'
  BY <1>1 DEF CountersExact, Count, CountOf
<1>3. command' \in CommandType
  <2>1. CASE CommandBlock
    BY <2>1 DEF CommandBlock, CommandType
  <2>2. CASE DrainBegin
    BY <2>2, CommandFields DEF DrainBegin, CommandType
  <2>3. ASSUME NEW u \in Users, DrainAsk(u) PROVE command' \in CommandType
    <3>1. CASE busy[u]
      BY <2>3, <3>1, CommandFields DEF DrainAsk, CommandType
    <3>2. CASE ~busy[u]
      <4>1. /\ command = [pc |-> "asking", removes |-> command.removes, todo |-> command.todo]
            /\ command.removes \in BOOLEAN /\ command.todo \in SUBSET Users
        BY <2>3, CommandFields DEF DrainAsk
      <4>2. command' = [command EXCEPT !.todo = command.todo \ {u}]
        BY <2>3, <3>2 DEF DrainAsk
      <4>3. command' = [pc |-> "asking", removes |-> command.removes, todo |-> command.todo \ {u}]
        BY <4>1, <4>2
      <4> QED
        BY <4>1, <4>3 DEF CommandType
    <3> QED
      BY <3>1, <3>2
  <2>4. CASE Drained
    <3>1. CASE requests > 0 \/ acquiring > 0
      BY <2>4, <3>1, CommandFields DEF Drained, CommandType
    <3>2. CASE ~(requests > 0 \/ acquiring > 0)
      <4>1. CheckRecord(IF command.removes THEN Users ELSE {})
        BY <2>4, <3>2 DEF Drained
      <4>2. \/ command' = NotRunning
            \/ \E u \in Users, U \in SUBSET Users : command' = [pc |-> "removing", at |-> u, todo |-> U]
        BY <4>1 DEF CheckRecord, CommandEnds
      <4> QED
        BY <4>2 DEF CommandType
    <3> QED
      BY <3>1, <3>2
  <2>5. CASE RemoveRecord
    BY <2>5, CommandFields, CheckRecordType DEF RemoveRecord, CommandType
  <2>6. CASE RemoveRecordFails \/ DrainTimedOut
    BY <2>6 DEF RemoveRecordFails, DrainTimedOut, CommandEnds, CommandType
  <2>7. CASE Resume
    BY <2>7 DEF Resume, TypeOK, CommandType
  <2> QED
    BY <2>1, <2>2, <2>3, <2>4, <2>5, <2>6, <2>7 DEF Command
<1>4. blocked' \in BOOLEAN /\ drained' \in BOOLEAN
  BY DEF Command, CommandBlock, DrainBegin, Drained, RemoveRecord, RemoveRecordFails,
     DrainTimedOut, Resume, DrainAsk, TypeOK
<1>5. /\ container' \in [Users -> {"none", "running", "stopped"}]
      /\ busy' \in [Users -> BOOLEAN] /\ last' \in [Users -> Nat]
  <2>1. CASE UNCHANGED <<docker, last>>
    BY <2>1 DEF TypeOK
  <2>2. CASE RemoveRecord
    BY <2>2, EnsuredTypes, CommandFields DEF RemoveRecord
  <2>3. CASE RemoveRecordFails
    <3>1. /\ container \in [Users -> {"none", "running", "stopped"}]
          /\ busy \in [Users -> BOOLEAN] /\ last \in [Users -> Nat]
      BY DEF TypeOK
    <3>2. UNCHANGED last /\ (UNCHANGED docker \/ Remove(command.at))
      BY <2>3 DEF RemoveRecordFails
    <3> QED
      BY <3>1, <3>2 DEF Remove
  <2> QED
    BY <2>1, <2>2, <2>3 DEF Command, CommandBlock, DrainBegin, Drained, DrainTimedOut, Resume, DrainAsk
<1>6. TypeOK'
  BY <1>1, <1>3, <1>4, <1>5 DEF TypeOK, CommandType
<1> QED
  BY <1>2, <1>6

LEMMA SurroundingsSafe ==
  ASSUME TypeOK, CountersExact, Tick \/ \E u \in Users : SessionEnds(u) \/ ContainerExits(u)
  PROVE  TypeOK' /\ CountersExact'
<1>1. UNCHANGED <<req, counters, lock, last, tasks, gate, restarts>>
  BY DEF Tick, SessionEnds, ContainerExits
<1>2. CountersExact'
  BY <1>1 DEF CountersExact, Count, CountOf
<1>3. now' \in 0..MaxTime
  BY TimesAssumption DEF Tick, SessionEnds, ContainerExits, TypeOK
<1>4. container' \in [Users -> {"none", "running", "stopped"}]
  BY DEF Tick, SessionEnds, ContainerExits, TypeOK
<1>5. busy' \in [Users -> BOOLEAN]
  BY DEF Tick, SessionEnds, ContainerExits, TypeOK
<1>6. TypeOK'
  BY <1>1, <1>3, <1>4, <1>5 DEF TypeOK
<1> QED
  BY <1>2, <1>6

(* Nothing is in flight when the process starts. *)
LEMMA NothingInFlight ==
  ASSUME req = [r \in Requests |-> NotRunning], requests = 0, acquiring = 0,
         inUse = [u \in Users |-> 0], observers = [u \in Users |-> 0]
  PROVE  CountersExact
<1>1. Acquirers = {} /\ Mutators = {} /\ \A u \in Users : Holders(u) = {} /\ Streamers(u) = {}
  BY DEF NotRunning, Acquirers, Mutators, Holders, Streamers, Holds, Streams, Acquires, MutatesNow,
         Leased, Acquiring
<1> QED
  BY <1>1, FS_EmptySet, Counting DEF CountsRight

LEMMA RestartSafe == ASSUME TypeOK, Restart PROVE TypeOK' /\ CountersExact'
<1>1. /\ req' = [r \in Requests |-> NotRunning] /\ requests' = 0 /\ acquiring' = 0
      /\ inUse' = [u \in Users |-> 0] /\ observers' = [u \in Users |-> 0]
  BY DEF Restart
<1>2. CountersExact'
  <2>1. /\ Acquirers' = {} /\ Mutators' = {}
        /\ \A u \in Users : Holders(u)' = {} /\ Streamers(u)' = {}
    BY <1>1 DEF NotRunning, Acquirers, Mutators, Holders, Streamers, Holds, Streams, Acquires,
                MutatesNow, Leased, Acquiring
  <2>2. CountsRight'
    BY <1>1, <2>1, FS_EmptySet DEF CountsRight
  <2> QED
    BY <2>2, Counting, PTL
<1>3. restarts' \in 0..MaxRestarts
  BY TimesAssumption DEF Restart, TypeOK
<1>4. TypeOK'
  BY <1>1, <1>3 DEF Restart, NotRunning, TypeOK
<1> QED
  BY <1>2, <1>4

----------------------------------------------------------------------------
(* Whoever is at work on a sandbox holds its lock; whoever is about to     *)
(* remove a container idle knows that no request uses it.                  *)
LockInv ==
  /\ \A r \in Requests : req[r].pc \in {"admitted", "starting"} => lock[req[r].user] = r
  /\ \A u \in Users : /\ health[u].pc # "idle" => lock[u] = "health"
                      /\ action[u].pc # "idle" => lock[u] = "action"

(* r uses the sandbox of u: it may put an execution into it. *)
InUseBy(r, u) == req[r].pc \in {"serving", "recorded", "connecting"} /\ req[r].user = u
Unused(u) == \A r \in Requests : ~InUseBy(r, u)

HealthInv ==
  \A u \in Users : /\ health[u].pc \in {"asking", "stopping"} => inUse[u] = 0
                   /\ health[u].pc = "stopping" => ~busy[u]

ActionInv == \A u \in Users : action[u].pc = "acting" => Unused(u) /\ ~busy[u]

(* While a command runs the agent is blocked; once its drain found every   *)
(* counter at zero, no request uses a sandbox or is about to; and what a   *)
(* drain has found when it ended holds until the resume.                   *)
Using == {"admitted", "starting", "serving", "recorded", "connecting"}
Deserted == \A r \in Requests : req[r].pc \notin Using
CommandInv ==
  /\ command # NotRunning => blocked
  /\ command.pc = "asking" => Deserted /\ \A u \in Users \ command.todo : ~busy[u]
  /\ command.pc = "removing" => drained
  /\ drained => blocked /\ Deserted /\ \A u \in Users : ~busy[u]

IInv == KindInv /\ LockInv /\ HealthInv /\ ActionInv /\ CommandInv

(* Where a request comes from when it gets to a point. *)
Same(r) == req'[r].user = req[r].user /\ req'[r].kind = req[r].kind
Moves(r) ==
  \/ UNCHANGED req
  \/ req'[r].pc \in {"idle", "authorized", "queued", "touching", "touched"}
  \/ req'[r].pc = "admitted" /\ req[r].pc = "queued" /\ ~blocked /\ Same(r)
  \/ req'[r].pc = "starting" /\ req[r].pc = "admitted" /\ ~blocked /\ Same(r)
  \/ req'[r].pc = "serving" /\ req[r].pc = "starting" /\ Same(r)
  \/ /\ req'[r].pc = "connecting" /\ req[r].pc = "starting" /\ Same(r)
     /\ req[r].kind = "events"
  \/ req'[r].pc = "recorded" /\ req[r].pc = "serving" /\ Same(r)
  \/ req'[r].pc = "streaming" /\ req[r].pc = "connecting" /\ Same(r)

LEMMA RequestMoves ==
  ASSUME TypeOK, NEW r \in Requests, Request(r)
  PROVE  OnlyMoves(r) /\ Moves(r)
<1>1. CASE Authorize(r)
  BY <1>1 DEF Authorize, OnlyMoves, Moves, TypeOK
<1>2. CASE req' = [req EXCEPT ![r] = NotRunning]
  BY <1>2, EndMoves DEF Moves
<1>3. ASSUME NEW pc \in {"authorized"} \cup Acquiring \cup Leased, To(r, pc), req[r].pc # "idle"
      PROVE  OnlyMoves(r) /\ req'[r].pc = pc /\ Same(r)
  BY <1>3, ToMoves DEF Same
<1>4. CASE Enter(r)
  BY <1>3, <1>4 DEF Enter, Moves, Acquiring
<1>5. CASE TakeLock(r)
  BY <1>2, <1>3, <1>5 DEF TakeLock, StillAdmitted, Refused, Moves, Acquiring
<1>6. CASE Admitted(r)
  BY <1>2, <1>3, <1>6 DEF Admitted, StillAdmitted, Refused, Moves, Acquiring
<1>7. CASE Acquired(r)
  BY <1>3, <1>7 DEF Acquired, Moves, Leased
<1>8. CASE NotAcquired(r)
  BY <1>2, <1>8 DEF NotAcquired, Refused
<1>9. CASE Execute(r)
  BY <1>9 DEF Execute, OnlyMoves, Moves
<1>10. CASE RecordSession(r)
  BY <1>3, <1>10 DEF RecordSession, Moves, Leased
<1>11. CASE Subscribe(r)
  BY <1>3, <1>11 DEF Subscribe, Moves, Leased
<1>12. CASE End(r)
  <2>1. req[r].pc # "idle" /\ (req' = [req EXCEPT ![r] = NotRunning] \/ To(r, "touching"))
    BY <1>12 DEF End
  <2> QED
    BY <1>2, <1>3, <2>1 DEF Moves, Leased
<1>13. CASE TouchSandbox(r)
  BY <1>3, <1>13 DEF TouchSandbox, Moves, Leased
<1>14. CASE Released(r)
  BY <1>2, <1>14 DEF Released
<1> QED
  BY <1>1, <1>4, <1>5, <1>6, <1>7, <1>8, <1>9, <1>10, <1>11, <1>12, <1>13, <1>14 DEF Request

LEMMA KindStep ==
  ASSUME TypeOK, KindInv, NEW r \in Requests, Request(r) PROVE KindInv'
  BY RequestMoves DEF KindInv, OnlyMoves, Moves, Same

(* A request that uses a sandbox is counted as a lease. *)
LEMMA LeasesUsed ==
  ASSUME TypeOK, CountersExact, NEW u \in Users, RequestLeases(u) = 0
  PROVE  Unused(u)
<1> SUFFICES ASSUME NEW r \in Requests, InUseBy(r, u) PROVE FALSE
  BY DEF Unused
<1>1. Holders(u) \in SUBSET Requests /\ Streamers(u) \in SUBSET (Holders(u) \ {r}) /\ r \in Holders(u)
  BY DEF InUseBy, Holders, Streamers, Holds, Streams, Leased
<1>2. IsFiniteSet(Holders(u)) /\ IsFiniteSet(Holders(u) \ {r})
  BY <1>1, RequestsAssumption, FS_Subset
<1>3. Cardinality(Holders(u) \ {r}) = Cardinality(Holders(u)) - 1
  BY <1>1, <1>2, FS_RemoveElement
<1>4. Cardinality(Streamers(u)) <= Cardinality(Holders(u) \ {r})
  BY <1>1, <1>2, FS_Subset
<1>5. inUse[u] \in Nat /\ observers[u] \in Nat
  BY DEF TypeOK
<1>6. inUse[u] = Cardinality(Holders(u)) /\ observers[u] = Cardinality(Streamers(u))
  BY Counting DEF CountsRight
<1>7. inUse[u] > observers[u]
  BY <1>3, <1>4, <1>5, <1>6
<1> QED
  BY <1>5, <1>7 DEF RequestLeases

LEMMA LockStep == ASSUME TypeOK, LockInv, [Next]_vars PROVE LockInv'
<1>0. \A r \in Requests : r \notin {Free, "health", "action"}
  BY RequestsAssumption DEF Free
<1>1. ASSUME NEW r \in Requests, Request(r) PROVE LockInv'
  <2>0. UNCHANGED <<health, action>>
    BY <1>1 DEF Request, Authorize, Enter, TakeLock, Admitted, Acquired, NotAcquired, Execute,
                RecordSession, Subscribe, End, TouchSandbox, Released, Refused
  <2>1. OnlyMoves(r) /\ Moves(r)
    BY <1>1, RequestMoves
  <2>2. CASE UNCHANGED lock /\ ~TakeLock(r)
    <3>1. req'[r].pc \in {"admitted", "starting"} =>
            req[r].pc \in {"admitted", "starting"} /\ Same(r)
      <4>1. req[r].pc # "queued"
        BY <1>1, <2>2 DEF Request, Authorize, Enter, Admitted, Acquired, NotAcquired, Execute,
           RecordSession, Subscribe, End, TouchSandbox, Released, NotRunning
      <4> QED
        BY <2>1, <4>1 DEF Moves, Same
    <3> QED
      BY <2>0, <2>1, <2>2, <3>1 DEF LockInv, OnlyMoves, Same
  <2>3. CASE Refused(r)
    <3>1. /\ req'[r].pc = "idle"
          /\ lock' = [u \in Users |-> IF lock[u] = r THEN Free ELSE lock[u]]
      BY <2>3, EndMoves DEF Refused
    <3>2. \A q \in Requests \ {r} : req[q].pc \in {"admitted", "starting"} => req[q].user \in Users
      BY Moving
    <3> QED
      BY <1>0, <2>0, <2>1, <3>1, <3>2 DEF LockInv, OnlyMoves
  <2>4. CASE TakeLock(r) /\ ~Refused(r)
    <3>1. /\ lock[req[r].user] = Free /\ lock' = [lock EXCEPT ![req[r].user] = r]
          /\ req[r].pc = "queued" /\ To(r, "admitted")
      BY <2>4 DEF TakeLock
    <3>2. req[r].user \in Users /\ req'[r].user = req[r].user
      BY <3>1, Moving, ToMoves DEF Acquiring
    <3>3. \A q \in Requests \ {r} : req[q].pc \in {"admitted", "starting"} => req[q].user \in Users
      BY Moving
    <3>4. lock'[req[r].user] = r /\ \A v \in Users \ {req[r].user} : lock'[v] = lock[v]
      BY <3>1, <3>2 DEF TypeOK
    <3>5. ASSUME NEW q \in Requests, req'[q].pc \in {"admitted", "starting"}
          PROVE  lock'[req'[q].user] = q
      BY <1>0, <2>1, <3>1, <3>2, <3>3, <3>4, <3>5 DEF LockInv, OnlyMoves
    <3>6. ASSUME NEW v \in Users
          PROVE  /\ health'[v].pc # "idle" => lock'[v] = "health"
                 /\ action'[v].pc # "idle" => lock'[v] = "action"
      BY <2>0, <3>1, <3>4 DEF LockInv, Free
    <3> QED
      BY <3>5, <3>6 DEF LockInv
  <2>5. CASE Acquired(r)
    <3>1. /\ req[r].pc = "starting" /\ lock' = [lock EXCEPT ![req[r].user] = Free]
          /\ req'[r].pc \in {"serving", "connecting"}
      BY <2>5, ToMoves DEF Acquired, Unlock, Leased
    <3>2. req[r].user \in Users
      BY <3>1, Moving
    <3>3. \A q \in Requests \ {r} : req[q].pc \in {"admitted", "starting"} => req[q].user \in Users
      BY Moving
    <3> QED
      BY <1>0, <2>0, <2>1, <3>1, <3>2, <3>3 DEF LockInv, OnlyMoves, TypeOK
  <2> QED
    BY <1>1, <2>2, <2>3, <2>4, <2>5
    DEF Request, Authorize, Enter, Admitted, NotAcquired, Execute, RecordSession, Subscribe, End,
        TouchSandbox, Released
<1>2. ASSUME NEW u \in Users, Health(u) PROVE LockInv'
  <2>1. /\ UNCHANGED <<req, action>>
        /\ \/ /\ lock[u] = Free /\ lock' = [lock EXCEPT ![u] = "health"]
           \/ /\ health[u].pc # "idle"
              /\ \/ lock' = [lock EXCEPT ![u] = Free] /\ health' = [health EXCEPT ![u] = NotRunning]
                 \/ UNCHANGED lock
        /\ \A v \in Users \ {u} : health'[v] = health[v]
    BY <1>2 DEF Health, HealthGoesOn, HealthBegin, HealthNotRunning, HealthProbed, HealthAsked,
                HealthEvict, HealthGone, HealthEnd, HealthTo, Unlock, TypeOK
  <2>2. \A q \in Requests : req[q].pc \in {"admitted", "starting"} => req[q].user \in Users
    BY Moving
  <2>3. \A v \in Users \ {u} : lock'[v] = lock[v]
    BY <2>1 DEF TypeOK
  <2>4. lock'[u] # lock[u] => lock[u] \in {Free, "health"}
    BY <2>1 DEF LockInv
  <2>5. health'[u].pc # "idle" => lock'[u] = "health"
    <3>1. CASE lock[u] = Free /\ lock' = [lock EXCEPT ![u] = "health"]
      BY <3>1 DEF TypeOK
    <3>2. CASE health[u].pc # "idle" /\ health' = [health EXCEPT ![u] = NotRunning]
      BY <3>2 DEF NotRunning, TypeOK
    <3>3. CASE health[u].pc # "idle" /\ UNCHANGED lock
      BY <3>3 DEF LockInv
    <3> QED
      BY <2>1, <3>1, <3>2, <3>3
  <2>6. ASSUME NEW q \in Requests, req'[q].pc \in {"admitted", "starting"}
        PROVE  lock'[req'[q].user] = q
    BY <1>0, <2>1, <2>2, <2>3, <2>4, <2>6 DEF LockInv
  <2>7. action'[u].pc # "idle" => lock'[u] = "action"
    BY <1>0, <2>1, <2>4 DEF LockInv, Free
  <2> QED
    BY <2>1, <2>3, <2>5, <2>6, <2>7 DEF LockInv
<1>3. ASSUME NEW u \in Users, Action(u) PROVE LockInv'
  <2>1. /\ UNCHANGED <<req, health>>
        /\ \/ /\ lock[u] = Free /\ lock' = [lock EXCEPT ![u] = "action"]
           \/ /\ action[u].pc # "idle"
              /\ \/ lock' = [lock EXCEPT ![u] = Free] /\ action' = [action EXCEPT ![u] = NotRunning]
                 \/ UNCHANGED lock
        /\ \A v \in Users \ {u} : action'[v] = action[v]
    BY <1>3 DEF Action, ActionGoesOn, ActionBegin, ActionAsked, ActionStarted, ActionDone, ActionEnd,
                ActionTo, Unlock, TypeOK
  <2>2. \A q \in Requests : req[q].pc \in {"admitted", "starting"} => req[q].user \in Users
    BY Moving
  <2>3. \A v \in Users \ {u} : lock'[v] = lock[v]
    BY <2>1 DEF TypeOK
  <2>4. lock'[u] # lock[u] => lock[u] \in {Free, "action"}
    BY <2>1 DEF LockInv
  <2>5. action'[u].pc # "idle" => lock'[u] = "action"
    <3>1. CASE lock[u] = Free /\ lock' = [lock EXCEPT ![u] = "action"]
      BY <3>1 DEF TypeOK
    <3>2. CASE action[u].pc # "idle" /\ action' = [action EXCEPT ![u] = NotRunning]
      BY <3>2 DEF NotRunning, TypeOK
    <3>3. CASE action[u].pc # "idle" /\ UNCHANGED lock
      BY <3>3 DEF LockInv
    <3> QED
      BY <2>1, <3>1, <3>2, <3>3
  <2>6. ASSUME NEW q \in Requests, req'[q].pc \in {"admitted", "starting"}
        PROVE  lock'[req'[q].user] = q
    BY <1>0, <2>1, <2>2, <2>3, <2>4, <2>6 DEF LockInv
  <2>7. health'[u].pc # "idle" => lock'[u] = "health"
    BY <1>0, <2>1, <2>4 DEF LockInv, Free
  <2> QED
    BY <2>1, <2>3, <2>5, <2>6, <2>7 DEF LockInv
<1>4. CASE Command \/ Tick \/ UNCHANGED vars \/ \E u \in Users : SessionEnds(u) \/ ContainerExits(u)
  <2>1. UNCHANGED <<req, lock, health, action>>
    BY <1>4 DEF Command, CommandBlock, DrainBegin, Drained, RemoveRecord, RemoveRecordFails,
       DrainTimedOut, Resume, DrainAsk,
                Tick, SessionEnds, ContainerExits
  <2> QED
    BY <2>1 DEF LockInv
<1>5. CASE Restart
  BY <1>5 DEF Restart, LockInv, NotRunning
<1> QED
  BY <1>1, <1>2, <1>3, <1>4, <1>5 DEF Next

(* While somebody else holds the lock of u, no request acquires its sandbox. *)
LEMMA LockedOut ==
  ASSUME LockInv, NEW u \in Users, lock[u] \in {"health", "action"}, NEW r \in Requests
  PROVE  ~(req[r].pc = "starting" /\ req[r].user = u)
  BY RequestsAssumption DEF LockInv

(* A request step that makes a request use a sandbox acquires it. *)
LEMMA NewUse ==
  ASSUME TypeOK, NEW r \in Requests, Request(r), NEW q \in Requests, NEW u \in Users,
         InUseBy(q, u)'
  PROVE  InUseBy(q, u) \/ (q = r /\ req[r].pc = "starting" /\ req[r].user = u)
  BY RequestMoves DEF InUseBy, OnlyMoves, Moves, Same

(* Only a message that is served makes a sandbox busy. *)
LEMMA NewBusy ==
  ASSUME TypeOK, [Next]_vars, NEW u \in Users, busy'[u], ~busy[u]
  PROVE  \E r \in Requests : Request(r) /\ InUseBy(r, u) /\ req[r].pc = "serving" /\ UNCHANGED req
<1>1. ASSUME NEW v \in Users, Remove(v) PROVE ~(busy'[u] /\ ~busy[u])
  BY <1>1 DEF Remove, TypeOK
<1>2. ASSUME NEW v \in Users, Ensured(v) PROVE ~(busy'[u] /\ ~busy[u])
  BY <1>2 DEF Ensured, TypeOK
<1>3. ASSUME NEW r \in Requests, Request(r)
      PROVE  InUseBy(r, u) /\ req[r].pc = "serving" /\ UNCHANGED req
  <2>1. req[r].pc = "starting" => req[r].user \in Users
    BY Moving
  <2>2. CASE Execute(r)
    <3>1. busy' = [busy EXCEPT ![req[r].user] = TRUE] /\ req[r].pc = "serving" /\ UNCHANGED req
      BY <2>2 DEF Execute
    <3>2. req[r].user = u
      BY <3>1 DEF TypeOK
    <3> QED
      BY <3>1, <3>2 DEF InUseBy
  <2>3. CASE ~Execute(r)
    <3>1. UNCHANGED busy \/ \E v \in Users : Remove(v) \/ Ensured(v)
      BY <1>3, <2>1, <2>3 DEF Request, Authorize, Enter, TakeLock, Admitted, Acquired, NotAcquired,
         RecordSession, Subscribe, End, TouchSandbox, Released, Refused
    <3> QED
      BY <1>1, <1>2, <3>1
  <2> QED
    BY <2>2, <2>3
<1>4. ASSUME NEW v \in Users, Health(v) PROVE FALSE
  <2>1. UNCHANGED busy \/ Remove(v)
    BY <1>4 DEF Health, HealthGoesOn, HealthBegin, HealthNotRunning, HealthProbed, HealthAsked,
                HealthEvict, HealthGone
  <2> QED
    BY <1>1, <2>1
<1>5. ASSUME NEW v \in Users, Action(v) PROVE FALSE
  <2>1. UNCHANGED busy \/ Ensured(v) \/ busy' = [busy EXCEPT ![v] = FALSE]
    BY <1>5 DEF Action, ActionGoesOn, ActionBegin, ActionAsked, ActionStarted, ActionDone
  <2> QED
    BY <1>2, <2>1 DEF TypeOK
<1>6. CASE Command
  <2>1. UNCHANGED busy \/ (command.at \in Users /\ Remove(command.at))
    BY <1>6, CommandFields DEF Command, CommandBlock, DrainBegin, Drained, RemoveRecord,
       RemoveRecordFails, DrainTimedOut, Resume, DrainAsk
  <2> QED
    BY <1>1, <2>1
<1>7. CASE Tick \/ Restart \/ UNCHANGED vars \/ \E v \in Users : SessionEnds(v) \/ ContainerExits(v)
  BY <1>7 DEF Tick, Restart, SessionEnds, ContainerExits, TypeOK
<1> QED
  BY <1>3, <1>4, <1>5, <1>6, <1>7 DEF Next

(* A lease is only added by a request that acquired its sandbox. *)
LEMMA NewLease ==
  ASSUME TypeOK, CountersExact, [Next]_vars, NEW u \in Users
  PROVE  \/ inUse'[u] <= inUse[u]
         \/ \E r \in Requests : Acquired(r) /\ req[r].pc = "starting" /\ req[r].user = u
<1>0. inUse \in [Users -> Nat]
  BY DEF TypeOK
<1>1. ASSUME NEW r \in Requests, Request(r)
      PROVE  inUse'[u] <= inUse[u] \/ (Acquired(r) /\ req[r].pc = "starting" /\ req[r].user = u)
  <2>1. CASE Acquired(r)
    <3>1. req[r].pc = "starting" /\ inUse' = [inUse EXCEPT ![req[r].user] = @ + 1]
      BY <2>1 DEF Acquired
    <3> QED
      BY <1>0, <2>1, <3>1
  <2>2. CASE ~Acquired(r)
    <3>1. UNCHANGED inUse \/ inUse' = [inUse EXCEPT ![req[r].user] = inUse[req[r].user] - 1]
      BY <1>1, <2>2 DEF Request, Authorize, Enter, TakeLock, Admitted, NotAcquired, Refused, Execute,
         RecordSession, Subscribe, End, TouchSandbox, Released, Remaining
    <3> QED
      BY <1>0, <3>1
  <2> QED
    BY <2>1, <2>2
<1>2. CASE ~\E r \in Requests : Request(r)
  <2>1. UNCHANGED inUse \/ inUse' = [v \in Users |-> 0]
    BY <1>2 DEF Next, Health, HealthGoesOn, HealthBegin, HealthNotRunning, HealthProbed, HealthAsked,
       HealthEvict, HealthGone, Action, ActionGoesOn, ActionBegin, ActionAsked, ActionStarted, ActionDone,
       Command, CommandBlock, DrainBegin, Drained, RemoveRecord, RemoveRecordFails,
          DrainTimedOut, Resume, DrainAsk,
       Tick, Restart, SessionEnds, ContainerExits
  <2> QED
    BY <1>0, <2>1
<1> QED
  BY <1>1, <1>2

LEMMA HealthStep ==
  ASSUME TypeOK, CountersExact, LockInv, HealthInv, TypeOK', [Next]_vars
  PROVE  HealthInv'
<1> SUFFICES ASSUME NEW u \in Users
             PROVE  /\ health'[u].pc \in {"asking", "stopping"} => inUse'[u] = 0
                    /\ health'[u].pc = "stopping" => ~busy'[u]
  BY DEF HealthInv
<1>0. health \in [Users -> {NotRunning} \cup HealthType]
  BY DEF TypeOK, HealthType
<1>1. CASE Health(u)
  <2>1. UNCHANGED <<inUse, busy>> \/ HealthEnd(u)
    BY <1>1 DEF Health, HealthGoesOn, HealthBegin, HealthNotRunning, HealthProbed, HealthAsked,
                HealthEvict, HealthGone
  <2>2. CASE HealthEnd(u)
    BY <1>0, <2>2 DEF HealthEnd, NotRunning
  <2>3. CASE HealthBegin(u)
    BY <1>0, <2>3 DEF HealthBegin, NotRunning
  <2>4. CASE HealthTo(u, "asking") /\ inUse[u] = 0 /\ health[u].pc = "probing"
    BY <1>0, <1>1, <2>1, <2>2, <2>4 DEF HealthTo, NotRunning, HealthType
  <2>5. CASE HealthTo(u, "stopping") /\ ~busy[u] /\ health[u].pc = "asking"
    BY <1>0, <1>1, <2>1, <2>2, <2>5 DEF HealthTo, NotRunning, HealthType, HealthInv
  <2>6. inUse[u] \in Nat
    BY DEF TypeOK
  <2> QED
    BY <1>1, <2>2, <2>3, <2>4, <2>5, <2>6
    DEF Health, HealthGoesOn, HealthNotRunning, HealthProbed, HealthInUse, HealthAsked, HealthEvict, HealthGone
<1>2. CASE UNCHANGED health[u] /\ health[u].pc \in {"asking", "stopping"}
  <2>1. inUse[u] = 0 /\ lock[u] = "health" /\ (health[u].pc = "stopping" => ~busy[u])
    BY <1>2 DEF HealthInv, LockInv
  <2>2. inUse'[u] <= inUse[u]
    BY <2>1, LockedOut, NewLease
  <2>3. inUse'[u] = 0
    BY <2>1, <2>2 DEF TypeOK
  <2>4. ~busy[u] => ~busy'[u]
    <3> SUFFICES ASSUME ~busy[u], busy'[u] PROVE FALSE
      OBVIOUS
    <3>1. PICK r \in Requests : InUseBy(r, u)
      BY NewBusy
    <3>2. Holds(r, u)
      BY <3>1 DEF InUseBy, Holds, Leased
    <3>3. inUse[u] >= 1
      BY <3>2, Positive
    <3> QED
      BY <2>1, <3>3
  <2> QED
    BY <1>2, <2>1, <2>3, <2>4
<1>3. CASE Restart
  BY <1>3 DEF Restart, NotRunning
<1>4. health'[u] = health[u] \/ Health(u) \/ Restart
  <2>1. ASSUME NEW v \in Users, Health(v), v # u PROVE health'[u] = health[u]
    BY <1>0, <2>1 DEF Health, HealthGoesOn, HealthBegin, HealthNotRunning, HealthProbed, HealthAsked,
                HealthEvict, HealthGone, HealthEnd, HealthTo
  <2>2. CASE \E r \in Requests : Request(r)
    BY <2>2 DEF Request, Authorize, Enter, TakeLock, Admitted, Acquired, NotAcquired, Execute,
                RecordSession, Subscribe, End, TouchSandbox, Released, Refused
  <2>3. CASE \E v \in Users : Action(v)
    BY <2>3 DEF Action, ActionGoesOn, ActionBegin, ActionAsked, ActionStarted, ActionDone
  <2>4. CASE Command \/ Tick \/ UNCHANGED vars \/ \E v \in Users : SessionEnds(v) \/ ContainerExits(v)
    BY <2>4 DEF Command, CommandBlock, DrainBegin, Drained, RemoveRecord, RemoveRecordFails,
       DrainTimedOut, Resume, DrainAsk,
                Tick, SessionEnds, ContainerExits
  <2> QED
    BY <2>1, <2>2, <2>3, <2>4 DEF Next
<1> QED
  BY <1>1, <1>2, <1>3, <1>4

LEMMA ActionStep ==
  ASSUME TypeOK, CountersExact, LockInv, ActionInv, [Next]_vars
  PROVE  ActionInv'
<1> SUFFICES ASSUME NEW u \in Users, action'[u].pc = "acting" PROVE Unused(u)' /\ ~busy'[u]
  BY DEF ActionInv
<1>1. CASE Action(u)
  <2>1. UNCHANGED <<req, busy>> /\ ~busy[u] /\ RequestLeases(u) = 0
    <3>1. ActionAsked(u) /\ ActionTo(u, "acting")
      BY <1>1 DEF Action, ActionGoesOn, ActionBegin, ActionAsked, ActionStarted, ActionDone, ActionEnd,
         ActionTo, NotRunning, TypeOK
    <3>2. ~(action'[u].pc = "acting" /\ ActionEnd(u))
      BY DEF ActionEnd, NotRunning, TypeOK
    <3> QED
      BY <3>1, <3>2 DEF ActionAsked
  <2>2. Unused(u)
    BY <2>1, LeasesUsed
  <2> QED
    BY <2>1, <2>2 DEF Unused, InUseBy
<1>2. CASE action[u].pc = "acting"
  <2>1. Unused(u) /\ ~busy[u] /\ lock[u] = "action"
    BY <1>2 DEF ActionInv, LockInv
  <2>2. ~busy'[u]
    BY <2>1, NewBusy DEF Unused
  <2>3. ASSUME NEW q \in Requests, InUseBy(q, u)' PROVE FALSE
    <3>1. CASE \E r \in Requests : Request(r)
      BY <2>1, <2>3, <3>1, NewUse, LockedOut DEF Unused
    <3>2. CASE UNCHANGED req
      BY <2>1, <2>3, <3>2 DEF Unused, InUseBy
    <3>3. CASE Restart
      BY <2>3, <3>3 DEF Restart, NotRunning, InUseBy
    <3>4. (\E r \in Requests : Request(r)) \/ UNCHANGED req \/ Restart
      BY DEF Next, Health, HealthGoesOn, HealthBegin, HealthNotRunning, HealthProbed, HealthAsked,
         HealthEvict, HealthGone, Action, ActionGoesOn, ActionBegin, ActionAsked, ActionStarted,
         ActionDone, Command, CommandBlock, DrainBegin, Drained, RemoveRecord, RemoveRecordFails,
            DrainTimedOut, Resume,
         DrainAsk, Tick, SessionEnds, ContainerExits
    <3> QED
      BY <3>1, <3>2, <3>3, <3>4
  <2> QED
    BY <2>2, <2>3 DEF Unused
<1>3. action'[u] = action[u] \/ Action(u) \/ Restart
  <2>1. ASSUME NEW v \in Users, Action(v), v # u PROVE action'[u] = action[u]
    BY <2>1 DEF Action, ActionGoesOn, ActionBegin, ActionAsked, ActionStarted, ActionDone, ActionEnd,
       ActionTo, TypeOK
  <2>2. CASE \E r \in Requests : Request(r)
    BY <2>2 DEF Request, Authorize, Enter, TakeLock, Admitted, Acquired, NotAcquired, Execute,
                RecordSession, Subscribe, End, TouchSandbox, Released, Refused
  <2>3. CASE \E v \in Users : Health(v)
    BY <2>3 DEF Health, HealthGoesOn, HealthBegin, HealthNotRunning, HealthProbed, HealthAsked,
                HealthEvict, HealthGone
  <2>4. CASE Command \/ Tick \/ UNCHANGED vars \/ \E v \in Users : SessionEnds(v) \/ ContainerExits(v)
    BY <2>4 DEF Command, CommandBlock, DrainBegin, Drained, RemoveRecord, RemoveRecordFails,
       DrainTimedOut, Resume, DrainAsk,
                Tick, SessionEnds, ContainerExits
  <2> QED
    BY <2>1, <2>2, <2>3, <2>4 DEF Next
<1>4. CASE Restart
  BY <1>4 DEF Restart, NotRunning
<1> QED
  BY <1>1, <1>2, <1>3, <1>4

(* While the agent is blocked and no request gets near a sandbox, nobody   *)
(* comes: no request does, and so no sandbox gets busy.                    *)
LEMMA NobodyComes ==
  ASSUME TypeOK, blocked, Deserted, [Next]_vars
  PROVE  Deserted' /\ \A u \in Users : busy'[u] => busy[u]
<1>1. Deserted'
  <2>1. CASE \E r \in Requests : Request(r)
    <3>1. PICK r \in Requests : Request(r)
      BY <2>1
    <3>2. OnlyMoves(r) /\ Moves(r)
      BY <3>1, RequestMoves
    <3> QED
      BY <3>2 DEF Deserted, OnlyMoves, Moves, Using
  <2>2. CASE UNCHANGED req
    BY <2>2 DEF Deserted
  <2>3. CASE Restart
    BY <2>3 DEF Restart, NotRunning, Deserted, Using
  <2>4. (\E r \in Requests : Request(r)) \/ UNCHANGED req \/ Restart
    BY DEF Next, Health, HealthGoesOn, HealthBegin, HealthNotRunning, HealthProbed, HealthAsked,
       HealthEvict, HealthGone, Action, ActionGoesOn, ActionBegin, ActionAsked, ActionStarted,
       ActionDone, Command, CommandBlock, DrainBegin, Drained, RemoveRecord, RemoveRecordFails,
       DrainTimedOut, Resume, DrainAsk, Tick, SessionEnds, ContainerExits
  <2> QED
    BY <2>1, <2>2, <2>3, <2>4
<1>2. \A u \in Users : busy'[u] => busy[u]
  BY NewBusy DEF Deserted, InUseBy, Using
<1> QED
  BY <1>1, <1>2

(* Only a command, a resume and a restart touch the command and the block. *)
LEMMA OnlyCommands ==
  ASSUME [Next]_vars
  PROVE  UNCHANGED <<command, gate>> \/ Command \/ (Restart /\ UNCHANGED gate)
<1>1. CASE ~(Command \/ Restart)
  BY <1>1 DEF Next, Request, Authorize, Enter, TakeLock, Admitted, Acquired, NotAcquired, Execute,
     RecordSession, Subscribe, End, TouchSandbox, Released, Refused, Health, HealthGoesOn,
     HealthBegin, HealthNotRunning, HealthProbed, HealthAsked, HealthEvict, HealthGone, Action,
     ActionGoesOn, ActionBegin, ActionAsked, ActionStarted, ActionDone, Tick, SessionEnds,
     ContainerExits
<1> QED
  BY <1>1 DEF Restart

(* What the end of a drain found holds until the resume. *)
LEMMA DrainedStep ==
  ASSUME TypeOK, CommandInv, [Next]_vars, drained'
  PROVE  blocked' /\ Deserted' /\ \A u \in Users : ~busy'[u]
<1>1. CASE drained
  <2>1. blocked /\ Deserted /\ \A u \in Users : ~busy[u]
    BY <1>1 DEF CommandInv
  <2>2. blocked'
    BY <2>1, OnlyCommands DEF Command, CommandBlock, DrainBegin, Drained, RemoveRecord,
       RemoveRecordFails, DrainTimedOut, Resume, DrainAsk
  <2> QED
    BY <2>1, <2>2, NobodyComes
<1>2. CASE ~drained
  <2>1. Drained
    BY <1>2, OnlyCommands DEF Command, CommandBlock, DrainBegin, RemoveRecord, RemoveRecordFails,
       DrainTimedOut, Resume, DrainAsk
  <2>2. command.pc = "asking" /\ command.todo = {} /\ UNCHANGED <<req, busy, blocked>>
    BY <2>1 DEF Drained
  <2> QED
    BY <2>2 DEF CommandInv, NotRunning, Deserted
<1> QED
  BY <1>1, <1>2

LEMMA CommandStep ==
  ASSUME TypeOK, CountersExact, CommandInv, [Next]_vars
  PROVE  CommandInv'
<1>0. drained' => blocked' /\ Deserted' /\ \A u \in Users : ~busy'[u]
  BY DrainedStep
<1>1. CASE CommandBlock
  <2>1. blocked' /\ command'.pc = "drain"
    BY <1>1 DEF CommandBlock
  <2> QED
    BY <1>0, <2>1 DEF CommandInv
<1>2. CASE DrainBegin
  <2>1. /\ Quiet(Users) /\ UNCHANGED <<req, busy, blocked>> /\ command.pc = "drain"
        /\ command' = [pc |-> "asking", removes |-> command.removes, todo |-> Users]
    BY <1>2 DEF DrainBegin
  <2>2. blocked
    BY <2>1 DEF CommandInv, NotRunning
  <2>3. ASSUME NEW r \in Requests, req[r].pc \in Using PROVE FALSE
    <3>1. req[r].user \in Users
      BY <2>3, Moving DEF Using
    <3>2. Unused(req[r].user)
      BY <2>1, <3>1, LeasesUsed DEF Quiet
    <3>3. ~Acquires(r)
      BY <2>1, Positive DEF Quiet
    <3> QED
      BY <2>3, <3>2, <3>3 DEF Unused, InUseBy, Acquires, Acquiring, Using
  <2>4. Deserted'
    BY <2>1, <2>3 DEF Deserted
  <2> QED
    BY <1>0, <2>1, <2>2, <2>4 DEF CommandInv
<1>3. ASSUME NEW u \in Users, DrainAsk(u) PROVE CommandInv'
  <2>1. command.pc = "asking" /\ u \in command.todo /\ UNCHANGED <<req, busy, blocked>>
    BY <1>3 DEF DrainAsk
  <2>2. blocked /\ Deserted' /\ \A v \in Users \ command.todo : ~busy[v]
    BY <2>1 DEF CommandInv, NotRunning, Deserted
  <2>3. CASE busy[u]
    <3>1. command'.pc = "drain"
      BY <1>3, <2>3 DEF DrainAsk
    <3> QED
      BY <1>0, <2>1, <2>2, <3>1 DEF CommandInv
  <2>4. CASE ~busy[u]
    <3>1. command' = [command EXCEPT !.todo = command.todo \ {u}]
      BY <1>3, <2>4 DEF DrainAsk
    <3>2. command = [pc |-> "asking", removes |-> command.removes, todo |-> command.todo]
      BY <2>1, CommandFields
    <3>3. command'.pc = "asking" /\ command'.todo = command.todo \ {u}
      BY <3>1, <3>2
    <3> QED
      BY <1>0, <2>1, <2>2, <2>4, <3>3 DEF CommandInv
  <2> QED
    BY <2>3, <2>4
<1>4. ASSUME NEW U \in SUBSET Users, CheckRecord(U), blocked', drained'
      PROVE  CommandInv'
  <2>1. command' = NotRunning \/ command'.pc = "removing"
    BY <1>4, CheckRecordType
  <2> QED
    BY <1>0, <1>4, <2>1 DEF CommandInv, NotRunning
<1>5. CASE Drained
  <2>1. command.pc = "asking" /\ UNCHANGED blocked
    BY <1>5 DEF Drained
  <2>2. blocked
    BY <2>1 DEF CommandInv, NotRunning
  <2>3. CASE requests > 0 \/ acquiring > 0
    <3>1. command'.pc = "drain"
      BY <1>5, <2>3 DEF Drained
    <3> QED
      BY <1>0, <2>1, <2>2, <3>1 DEF CommandInv
  <2>4. CASE ~(requests > 0 \/ acquiring > 0)
    <3>1. CheckRecord(IF command.removes THEN Users ELSE {}) /\ drained'
      BY <1>5, <2>4 DEF Drained
    <3> QED
      BY <1>4, <2>1, <2>2, <3>1
  <2> QED
    BY <2>3, <2>4
<1>6. CASE RemoveRecord
  <2>1. command.pc = "removing" /\ CheckRecord(command.todo) /\ UNCHANGED gate
    BY <1>6 DEF RemoveRecord
  <2>2. blocked /\ drained
    BY <2>1 DEF CommandInv
  <2> QED
    BY <1>4, <2>1, <2>2, CommandFields
<1>7. CASE command' = NotRunning
  BY <1>0, <1>7 DEF CommandInv, NotRunning
<1>8. CASE UNCHANGED <<command, gate>>
  <2>1. CASE command.pc = "asking"
    <3>1. blocked /\ Deserted /\ \A u \in Users \ command.todo : ~busy[u]
      BY <2>1 DEF CommandInv, NotRunning
    <3>2. Deserted' /\ \A u \in Users \ command.todo : ~busy'[u]
      BY <3>1, NobodyComes
    <3> QED
      BY <1>0, <1>8, <2>1, <3>1, <3>2 DEF CommandInv
  <2>2. CASE command.pc # "asking"
    BY <1>0, <1>8, <2>2 DEF CommandInv
  <2> QED
    BY <2>1, <2>2
<1>9. RemoveRecordFails \/ DrainTimedOut \/ Resume \/ Restart => command' = NotRunning
  BY DEF RemoveRecordFails, DrainTimedOut, CommandEnds, Resume, Restart
<1> QED
  BY <1>1, <1>2, <1>3, <1>5, <1>6, <1>7, <1>8, <1>9, OnlyCommands DEF Command

----------------------------------------------------------------------------
(* The theorems *)

LEMMA InitInv == Init => TypeOK /\ CountersExact /\ IInv
<1> SUFFICES ASSUME Init PROVE TypeOK /\ CountersExact /\ IInv
  OBVIOUS
<1>1. TypeOK
  <2>1. /\ container \in [Users -> {"none", "running", "stopped"}]
        /\ now \in 0..MaxTime /\ restarts \in 0..MaxRestarts
    BY TimesAssumption DEF Init
  <2>2. /\ action \in [Users -> [pc : {"idle", "asking", "starting", "acting", "forced"}]]
        /\ lock \in [Users -> Requests \cup {Free, "health", "action"}]
    BY DEF Init, NotRunning
  <2> QED
    BY <2>1, <2>2 DEF Init, TypeOK
<1>2. CountersExact
  BY NothingInFlight DEF Init
<1>3. IInv
  BY DEF Init, NotRunning, IInv, KindInv, LockInv, HealthInv, ActionInv, CommandInv
<1> QED
  BY <1>1, <1>2, <1>3

LEMMA StepInv ==
  ASSUME TypeOK, CountersExact, IInv, [Next]_vars
  PROVE  TypeOK' /\ CountersExact' /\ IInv'
<1>0. KindInv /\ LockInv /\ HealthInv /\ ActionInv /\ CommandInv
  BY DEF IInv
<1>1. TypeOK' /\ CountersExact'
  <2>1. CASE UNCHANGED vars
    <3>1. TypeOK'
      BY <2>1 DEF TypeOK
    <3>2. CountersExact'
      BY <2>1 DEF CountersExact, Count, CountOf
    <3> QED
      BY <3>1, <3>2
  <2> QED
    BY <1>0, <2>1, RequestSafe, HealthSafe, ActionSafe, CommandSafe, SurroundingsSafe, RestartSafe
    DEF Next
<1>2. KindInv'
  <2>1. CASE \E r \in Requests : Request(r)
    BY <1>0, <2>1, KindStep
  <2>2. CASE UNCHANGED req \/ Restart
    BY <1>0, <2>2 DEF KindInv, Restart, NotRunning
  <2>3. CASE ~((\E r \in Requests : Request(r)) \/ Restart)
    <3>1. UNCHANGED req
      BY <2>3 DEF Next, Health, HealthGoesOn, HealthBegin, HealthNotRunning, HealthProbed, HealthAsked,
         HealthEvict, HealthGone, Action, ActionGoesOn, ActionBegin, ActionAsked, ActionStarted,
         ActionDone, Command, CommandBlock, DrainBegin, Drained, RemoveRecord, RemoveRecordFails,
            DrainTimedOut, Resume,
         DrainAsk, Tick, SessionEnds, ContainerExits
    <3> QED
      BY <2>2, <3>1
  <2> QED
    BY <2>1, <2>2, <2>3
<1>3. LockInv' /\ HealthInv' /\ ActionInv' /\ CommandInv'
  BY <1>0, <1>1, LockStep, HealthStep, ActionStep, CommandStep
<1> QED
  BY <1>1, <1>2, <1>3 DEF IInv

(* Whoever is at work on a sandbox holds its lock, and what removes a      *)
(* container idle knows that it is unused.                                 *)
THEOREM LeaseInvariance == Spec => [](TypeOK /\ CountersExact /\ IInv)
<1>1. Init => TypeOK /\ CountersExact /\ IInv
  BY InitInv
<1>2. TypeOK /\ CountersExact /\ IInv /\ [Next]_vars => (TypeOK /\ CountersExact /\ IInv)'
  BY StepInv
<1> QED
  BY <1>1, <1>2, PTL DEF Spec

(* Every variable keeps its type; no counter goes below zero (TypeOK). *)
THEOREM LeaseTypeCorrectness == Spec => []TypeOK
  BY LeaseInvariance, PTL

(* Every lease, subscription, mutation and acquisition in flight is        *)
(* counted once (CountersExact).                                           *)
THEOREM LeasesCounted == Spec => []CountersExact
  BY LeaseInvariance, PTL

(* The eviction, the administrator's action and the lifecycle command      *)
(* never remove a container under a request (NeverUnderRequest).           *)
THEOREM ContainersRemovedIdle == Spec => NeverUnderRequest
<1> DEFINE NotUsed(u) == /\ ~busy[u]
                      /\ ~\E r \in Requests :
                           req[r].pc \in {"serving", "recorded", "connecting"} /\ req[r].user = u
<1>1. ASSUME TypeOK, CountersExact, IInv, NEW u \in Users, Removes(u) PROVE NotUsed(u)
  <2>0. HealthInv /\ ActionInv /\ CommandInv
    BY <1>1 DEF IInv
  <2>1. CASE HealthEvict(u)
    <3>1. inUse[u] = 0 /\ ~busy[u]
      BY <2>0, <2>1 DEF HealthEvict, HealthInv
    <3>2. \A r \in Requests : ~Holds(r, u)
      BY <1>1, <3>1, Positive
    <3> QED
      BY <3>1, <3>2 DEF Holds, Leased
  <2>2. CASE ActionDone(u) /\ action[u].pc = "acting"
    BY <2>0, <2>2 DEF ActionInv, Unused, InUseBy
  <2>3. CASE (RemoveRecord \/ RemoveRecordFails) /\ command.at = u
    BY <2>0, <2>3 DEF RemoveRecord, RemoveRecordFails, CommandInv, Deserted, Using
  <2> QED
    BY <1>1, <2>1, <2>2, <2>3 DEF Removes
<1>2. TypeOK /\ CountersExact /\ IInv =>
        [\A u \in Users : Removes(u) =>
           /\ ~busy[u]
           /\ ~\E r \in Requests :
                req[r].pc \in {"serving", "recorded", "connecting"} /\ req[r].user = u]_vars
  BY <1>1
<1> QED
  BY <1>2, LeaseInvariance, PTL DEF NeverUnderRequest

(* From the end of a drain until the resume no request gets a lease and no *)
(* session begins to execute (NoneAdmittedBlocked).                        *)
THEOREM NobodyAdmittedWhileBlocked == Spec => NoneAdmittedBlocked
<1>1. ASSUME TypeOK, CountersExact, IInv, [Next]_vars, drained, NEW u \in Users
      PROVE  inUse'[u] <= inUse[u] /\ (busy'[u] => busy[u])
  <2>1. blocked /\ Deserted
    BY <1>1 DEF IInv, CommandInv
  <2>2. inUse'[u] <= inUse[u]
    BY <1>1, <2>1, NewLease DEF Deserted, Using
  <2> QED
    BY <1>1, <2>1, <2>2, NobodyComes
<1>2. TypeOK /\ CountersExact /\ IInv /\ [Next]_vars
        => [drained => \A u \in Users : inUse'[u] <= inUse[u] /\ (busy'[u] => busy[u])]_vars
  BY <1>1
<1> QED
  BY <1>2, LeaseInvariance, PTL DEF NoneAdmittedBlocked, Spec
=============================================================================
