-------------------------- MODULE AgentFilesProofs --------------------------
(***************************************************************************)
(* Proofs about AgentFiles, for every set of users, names and requests and *)
(* every bound: only what was previewed is removed, nothing comes back     *)
(* while a cleaned deletion is pending, and uploads keep the quota.        *)
(***************************************************************************)
EXTENDS AgentFiles, FiniteSetTheorems, TLAPS

----------------------------------------------------------------------------
(* Sums of the values of a finite function *)

(* A non-empty set of finite sets has a smallest one, as none of its       *)
(* proper subsets is in it.                                                *)
LEMMA MinimalSet ==
  ASSUME NEW S, IsFiniteSet(S), NEW B \in SUBSET SUBSET S, B # {}
  PROVE  \E m \in B : \A s \in SUBSET m : s # m => s \notin B
<1>1. IsWellFoundedOn(StrictSubsetOrdering(S), SUBSET S)
  BY FS_StrictSubsetOrderingWellFounded, FS_FiniteSubsetsOfFinite
<1>2. PICK m \in B : \A s \in B : ~ (<<s, m>> \in StrictSubsetOrdering(S))
  BY <1>1, WFMin
<1>3. ASSUME NEW s \in SUBSET m, s # m, s \in B PROVE FALSE
  BY <1>2, <1>3 DEF StrictSubsetOrdering
<1> QED
  BY <1>3

Pick(s) == CHOOSE x \in s : TRUE
Rest(s) == s \ {Pick(s)}
SumsUp(it, f, S) ==
  it = [s \in SUBSET S |-> IF s = {} THEN 0 ELSE f[Pick(s)] + it[Rest(s)]]
Iteration(f, S) == CHOOSE it : SumsUp(it, f, S)
Sum(f, S) == Iteration(f, S)[S]

LEMMA SumIs == ASSUME NEW f PROVE SumFunction(f) = Sum(f, DOMAIN f)
  BY DEF SumFunction, SumFunctionOnSet, FoldFunctionOnSet, MapThenFoldSet, SumsUp, Pick, Rest,
         Iteration, Sum

LEMMA Picked == ASSUME NEW s, s # {} PROVE Pick(s) \in s /\ Rest(s) \in SUBSET s /\ Rest(s) # s
  BY DEF Pick, Rest

LEMMA SumsAgree ==
  ASSUME NEW f, NEW S, NEW T, NEW g, NEW h, SumsUp(g, f, S), SumsUp(h, f, T),
         NEW U, IsFiniteSet(U), U \in SUBSET S, U \in SUBSET T
  PROVE  g[U] = h[U]
<1> DEFINE B == {s \in SUBSET U : g[s] # h[s]}
<1>1. SUFFICES ASSUME B # {} PROVE FALSE
  OBVIOUS
<1>2. PICK m \in B : \A s \in SUBSET m : s # m => s \notin B
  <2>1. B \in SUBSET SUBSET U
    OBVIOUS
  <2> HIDE DEF B
  <2> QED
    BY <1>1, <2>1, MinimalSet
<1>3. m \in SUBSET S /\ m \in SUBSET T /\ g[m] # h[m]
  BY <1>2
<1>4. g[m] = (IF m = {} THEN 0 ELSE f[Pick(m)] + g[Rest(m)])
  BY <1>3 DEF SumsUp
<1>5. h[m] = (IF m = {} THEN 0 ELSE f[Pick(m)] + h[Rest(m)])
  BY <1>3 DEF SumsUp
<1>6. m # {} => g[Rest(m)] = h[Rest(m)]
  BY <1>2, Picked
<1> QED
  BY <1>3, <1>4, <1>5, <1>6

LEMMA SumsExist ==
  ASSUME NEW f, NEW S, IsFiniteSet(S) PROVE \E it : SumsUp(it, f, S)
<1> DEFINE B == {s \in SUBSET S : ~ \E it : SumsUp(it, f, s)}
<1>1. SUFFICES ASSUME B # {} PROVE FALSE
  OBVIOUS
<1>2. PICK m \in B : \A s \in SUBSET m : s # m => s \notin B
  <2>1. B \in SUBSET SUBSET S
    OBVIOUS
  <2> HIDE DEF B
  <2> QED
    BY <1>1, <2>1, MinimalSet
<1>3. \A s \in SUBSET m : s # m => SumsUp(Iteration(f, s), f, s)
  BY <1>2 DEF Iteration
<1> DEFINE it == [s \in SUBSET m |-> IF s = {} THEN 0 ELSE f[Pick(s)] + Sum(f, Rest(s))]
<1>4. ASSUME NEW s \in SUBSET m, s # {} PROVE it[Rest(s)] = Sum(f, Rest(s))
  <2>1. Rest(s) \in SUBSET m /\ Rest(s) # m
    BY <1>4, Picked
  <2>2. SumsUp(Iteration(f, Rest(s)), f, Rest(s))
    BY <1>3, <2>1
  <2>3. Sum(f, Rest(s)) = (IF Rest(s) = {} THEN 0
                           ELSE f[Pick(Rest(s))] + Iteration(f, Rest(s))[Rest(Rest(s))])
    BY <2>2 DEF SumsUp, Sum
  <2>4. CASE Rest(s) = {}
    BY <2>1, <2>3, <2>4
  <2>5. CASE Rest(s) # {}
    <3>1. Rest(Rest(s)) \in SUBSET Rest(s) /\ Rest(Rest(s)) # Rest(s) /\ Rest(Rest(s)) \in SUBSET m
          /\ Rest(Rest(s)) # m
      BY <2>1, <2>5, Picked
    <3>2. SumsUp(Iteration(f, Rest(Rest(s))), f, Rest(Rest(s)))
      BY <1>3, <3>1
    <3>3. IsFiniteSet(Rest(Rest(s)))
      BY <3>1, FS_Subset
    <3>4. Iteration(f, Rest(s))[Rest(Rest(s))] = Sum(f, Rest(Rest(s)))
      BY <2>2, <3>1, <3>2, <3>3, SumsAgree DEF Sum
    <3>5. it[Rest(s)] = f[Pick(Rest(s))] + Sum(f, Rest(Rest(s)))
      BY <2>1, <2>5
    <3> QED
      BY <2>3, <2>5, <3>4, <3>5
  <2> QED
    BY <2>4, <2>5
<1>5. SumsUp(it, f, m)
  BY <1>4 DEF SumsUp
<1>6. m \notin B
  BY <1>5
<1> QED
  BY <1>2, <1>6

LEMMA SumEquation ==
  ASSUME NEW f, NEW S, IsFiniteSet(S)
  PROVE  Sum(f, S) = IF S = {} THEN 0 ELSE f[Pick(S)] + Sum(f, Rest(S))
<1>1. SumsUp(Iteration(f, S), f, S)
  BY SumsExist DEF Iteration
<1>2. Sum(f, S) = (IF S = {} THEN 0 ELSE f[Pick(S)] + Iteration(f, S)[Rest(S)])
  BY <1>1 DEF SumsUp, Sum
<1>3. CASE S # {}
  <2>1. Rest(S) \in SUBSET S /\ IsFiniteSet(Rest(S))
    BY <1>3, Picked, FS_Subset
  <2>2. SumsUp(Iteration(f, Rest(S)), f, Rest(S))
    BY <2>1, SumsExist DEF Iteration
  <2>3. Iteration(f, S)[Rest(S)] = Sum(f, Rest(S))
    BY <1>1, <2>1, <2>2, SumsAgree DEF Sum
  <2> QED
    BY <1>2, <1>3, <2>3
<1> QED
  BY <1>2, <1>3

LEMMA SumType ==
  ASSUME NEW f, NEW S, IsFiniteSet(S), \A x \in S : f[x] \in Nat
  PROVE  Sum(f, S) \in Nat
<1> DEFINE B == {s \in SUBSET S : Sum(f, s) \notin Nat}
<1>1. SUFFICES ASSUME B # {} PROVE FALSE
  OBVIOUS
<1>2. PICK m \in B : \A s \in SUBSET m : s # m => s \notin B
  <2>1. B \in SUBSET SUBSET S
    OBVIOUS
  <2> HIDE DEF B
  <2> QED
    BY <1>1, <2>1, MinimalSet
<1>3. IsFiniteSet(m) /\ m \in SUBSET S
  BY <1>2, FS_Subset
<1>4. m # {} => Sum(f, Rest(m)) \in Nat /\ f[Pick(m)] \in Nat
  BY <1>2, <1>3, Picked
<1>5. Sum(f, m) = (IF m = {} THEN 0 ELSE f[Pick(m)] + Sum(f, Rest(m)))
  BY <1>3, SumEquation
<1>6. Sum(f, m) \in Nat
  BY <1>4, <1>5
<1> QED
  BY <1>2, <1>6

(* The sum of a set is a member's value and the sum of the others.         *)
LEMMA SumMember ==
  ASSUME NEW f, NEW S, IsFiniteSet(S), \A x \in S : f[x] \in Nat, NEW y \in S
  PROVE  Sum(f, S) = f[y] + Sum(f, S \ {y})
<1> DEFINE B == {s \in SUBSET S : \E x \in s : Sum(f, s) # f[x] + Sum(f, s \ {x})}
<1>1. SUFFICES ASSUME B # {} PROVE FALSE
  OBVIOUS
<1>2. PICK m \in B : \A s \in SUBSET m : s # m => s \notin B
  <2>1. B \in SUBSET SUBSET S
    OBVIOUS
  <2> HIDE DEF B
  <2> QED
    BY <1>1, <2>1, MinimalSet
<1>3. PICK x \in m : Sum(f, m) # f[x] + Sum(f, m \ {x})
  BY <1>2
<1> DEFINE p == Pick(m)
<1>4. IsFiniteSet(m) /\ m \in SUBSET S /\ m # {} /\ Sum(f, m) = f[p] + Sum(f, m \ {p}) /\ p \in m
  BY <1>2, <1>3, FS_Subset, SumEquation, Picked DEF Rest
<1>5. x # p
  BY <1>3, <1>4
<1> HIDE DEF p
<1>6. Sum(f, m \ {p}) = f[x] + Sum(f, (m \ {p}) \ {x})
  BY <1>2, <1>4, <1>5
<1>7. Sum(f, m \ {x}) = f[p] + Sum(f, (m \ {x}) \ {p})
  BY <1>2, <1>4, <1>5
<1>8. (m \ {p}) \ {x} = (m \ {x}) \ {p}
  OBVIOUS
<1>9. IsFiniteSet((m \ {x}) \ {p})
  BY <1>4, FS_Subset
<1>10. Sum(f, (m \ {x}) \ {p}) \in Nat /\ f[p] \in Nat /\ f[x] \in Nat
  BY <1>4, <1>9, SumType
<1>11. Sum(f, m) = f[p] + (f[x] + Sum(f, (m \ {x}) \ {p}))
  BY <1>4, <1>6, <1>8
<1> QED
  BY <1>3, <1>7, <1>10, <1>11

(* It depends on the values in the set only.                               *)
LEMMA SumSame ==
  ASSUME NEW f, NEW g, NEW S, IsFiniteSet(S), \A x \in S : f[x] = g[x]
  PROVE  Sum(f, S) = Sum(g, S)
<1> DEFINE B == {s \in SUBSET S : Sum(f, s) # Sum(g, s)}
<1>1. SUFFICES ASSUME B # {} PROVE FALSE
  OBVIOUS
<1>2. PICK m \in B : \A s \in SUBSET m : s # m => s \notin B
  <2>1. B \in SUBSET SUBSET S
    OBVIOUS
  <2> HIDE DEF B
  <2> QED
    BY <1>1, <2>1, MinimalSet
<1>3. IsFiniteSet(m) /\ m \in SUBSET S
  BY <1>2, FS_Subset
<1>4. m # {} => Sum(f, Rest(m)) = Sum(g, Rest(m)) /\ f[Pick(m)] = g[Pick(m)]
  BY <1>2, <1>3, Picked
<1> QED
  BY <1>2, <1>3, <1>4, SumEquation

LEMMA SumZero ==
  ASSUME NEW S, IsFiniteSet(S) PROVE SumFunction([x \in S |-> 0]) = 0
<1> DEFINE f == [x \in S |-> 0]
           B == {s \in SUBSET S : Sum(f, s) # 0}
<1>1. B = {}
  <2>1. SUFFICES ASSUME B # {} PROVE FALSE
    OBVIOUS
  <2>2. PICK m \in B : \A s \in SUBSET m : s # m => s \notin B
    <3>1. B \in SUBSET SUBSET S
      OBVIOUS
    <3> HIDE DEF B
    <3> QED
      BY <2>1, <3>1, MinimalSet
  <2>3. IsFiniteSet(m) /\ m \in SUBSET S
    BY <2>2, FS_Subset
  <2>4. m # {} => Sum(f, Rest(m)) = 0 /\ f[Pick(m)] = 0
    BY <2>2, <2>3, Picked
  <2> QED
    BY <2>2, <2>3, <2>4, SumEquation
<1>2. Sum(f, S) = 0 /\ DOMAIN f = S
  BY <1>1
<1> QED
  BY <1>2, SumIs

LEMMA SumFunctionType ==
  ASSUME NEW S, IsFiniteSet(S), NEW f \in [S -> Nat]
  PROVE  SumFunction(f) \in Nat
  BY SumIs, SumType

LEMMA SumFunctionBound ==
  ASSUME NEW S, IsFiniteSet(S), NEW f \in [S -> Nat], NEW y \in S
  PROVE  f[y] <= SumFunction(f)
<1>1. Sum(f, S \ {y}) \in Nat
  BY FS_Subset, SumType
<1> QED
  BY <1>1, SumIs, SumMember

LEMMA SumFunctionUpdate ==
  ASSUME NEW S, IsFiniteSet(S), NEW f \in [S -> Nat], NEW y \in S, NEW v \in Nat
  PROVE  SumFunction([f EXCEPT ![y] = v]) = SumFunction(f) - f[y] + v
<1> DEFINE g == [f EXCEPT ![y] = v]
<1>1. g \in [S -> Nat] /\ g[y] = v /\ \A x \in S \ {y} : g[x] = f[x]
  OBVIOUS
<1> HIDE DEF g
<1>2. IsFiniteSet(S \ {y})
  BY FS_Subset
<1>3. Sum(g, S \ {y}) = Sum(f, S \ {y}) /\ Sum(f, S \ {y}) \in Nat
  BY <1>1, <1>2, SumSame, SumType
<1>4. SumFunction(g) = v + Sum(g, S \ {y})
  BY <1>1, SumIs, SumMember
<1>5. SumFunction(f) = f[y] + Sum(f, S \ {y})
  BY SumIs, SumMember
<1>6. SumFunction(g) = SumFunction(f) - f[y] + v
  BY <1>3, <1>4, <1>5
<1> QED
  BY <1>6 DEF g
----------------------------------------------------------------------------
(* The inductive invariant *)

(* The records of requests: the unanswered ones have the fields of their   *)
(* kind, and only an upload measures and writes.                           *)
UploadSet == [pc : {"sent"} \cup Holders, kind : {"upload"}, user : Users, name : Names,
              size : 1..MaxSize, base : Int, written : 0..MaxSize]
AllocationSet == [pc : {"sent", "asking", "admitted"}, kind : {"allocate"}, user : Users]
AnsweredSet == [pc : {"idle", "ok", "error"}]
RequestSet == UploadSet \cup AllocationSet \cup AnsweredSet

Shape ==
  /\ TypeOK
  /\ request \in [Requests -> RequestSet]
  /\ expected = [e \in Executions |-> expected[e]]

(* A request between its admission and its answer holds the guard, and so  *)
(* does the one cleanup that is at work.                                   *)
Cleaning(e) == cleanup[e] \in {"asking", "authorized", "removing", "removing state"}
GuardHeld ==
  /\ \A r \in Requests : request[r].pc \in Holders => guard = r
  /\ \A e \in Executions : Cleaning(e) => guard = TheCleanup
  /\ \A e, f \in Executions : Cleaning(e) /\ Cleaning(f) => e = f

(* Where the deletion's task waits, and what it has not begun yet.         *)
TaskAt ==
  /\ worker = "queued" => job = "queued"
  /\ worker \in {"sandbox", "files", "cleaning", "catalog"} => job = "applying"
  /\ worker # "none" => execution \in Executions
  /\ worker \in {"queued", "sandbox", "files"} => cleanup[execution] = "none"
  /\ impact # NoImpact => execution < MaxExecutions
  /\ \A e \in Executions : e > execution => cleanup[e] = "none"

(* Behind the first cleanup the agent is blocked and nothing runs.         *)
Stopped ==
  /\ worker = "files" => blocked /\ running = {}
  /\ \A e \in Executions : cleanup[e] # "none" => blocked /\ running = {}

(* How far a cleanup has come, in the journal and on the disk.             *)
Removed ==
  \A e \in Executions :
    /\ receipt[e] = "done" => cleanup[e] = "ok"
    /\ cleanup[e] = "removing state" =>
         doc = [u \in Users |-> NoFiles] /\ left = [u \in Users |-> NoneLeft]

(* No request that was admitted is under way when a pending deletion has   *)
(* removed the files: it would have kept the guard from the cleanup.       *)
NoneAdmitted ==
  \A e \in Executions : receipt[e] = "done" /\ e = execution /\ Pending =>
    \A r \in Requests : request[r].pc \notin {"admitted", "measuring", "writing"}

(* What an upload has measured is still so, for it holds the guard.        *)
Measured ==
  \A r \in Requests : LET q == request[r] IN
    /\ q \in UploadSet /\ q.pc # "writing" => q.written = 0
    /\ q.pc = "measuring" => q.base = doc[q.user][q.name]
    /\ q.pc = "writing" => /\ q.base = Used(q.user) - doc[q.user][q.name]
                           /\ q.written <= q.size
                           /\ q.written > 0 => q.base + q.written <= Quota

IInv ==
  /\ Shape /\ GuardHeld /\ TaskAt /\ Stopped /\ Removed /\ NoneAdmitted /\ Measured
  /\ RemovesPreviewed /\ CleanedEmpty /\ QuotaKept

----------------------------------------------------------------------------
(* The first state *)

LEMMA EmptySums == SumFunction(NoFiles) = 0 /\ SumFunction(NoneLeft) = 0
<1>1. SumFunction([n \in Names |-> 0]) = 0
  BY SumZero, AgentFilesAssumption
<1>2. SumFunction([r \in Requests |-> 0]) = 0
  BY SumZero, AgentFilesAssumption
<1> QED
  BY <1>1, <1>2 DEF NoFiles, NoneLeft

LEMMA NoneType == NoFiles \in [Names -> 0..MaxSize] /\ NoneLeft \in [Requests -> 0..MaxSize]
<1>1. 0 \in 0..MaxSize
  BY AgentFilesAssumption
<1> QED
  BY <1>1 DEF NoFiles, NoneLeft

LEMMA InitIInv == ASSUME Init PROVE IInv
<1> USE AgentFilesAssumption
<1>1. Shape
  <2>1. Idle \in RequestSet /\ Idle.pc = "idle"
    BY DEF Idle, RequestSet, AnsweredSet
  <2>2. request \in [Requests -> RequestSet]
    BY <2>1 DEF Init
  <2>4. doc \in [Users -> [Names -> 0..MaxSize]] /\ left \in [Users -> [Requests -> 0..MaxSize]]
    BY NoneType DEF Init
  <2>5. /\ execution \in 0..MaxExecutions /\ writes \in 0..MaxWrites /\ crashes \in 0..MaxCrashes
        /\ stamp \in [Users -> Nat]
    BY DEF Init
  <2>6. blocked \in BOOLEAN /\ state \in [Users -> BOOLEAN] /\ directory \in [Users -> BOOLEAN]
    BY Zenon DEF Init
  <2>7. /\ cleanup \in [Executions -> {"none", "sent", "asking", "authorized", "removing",
                                      "removing state", "ok", "error"}]
        /\ receipt \in [Executions -> {"none", "begun", "done"}]
    BY DEF Init
  <2>8. TypeOK
    BY <2>1, <2>4, <2>5, <2>6, <2>7 DEF Init, TypeOK
  <2> QED
    BY <2>2, <2>8 DEF Init, Shape
<1>2. GuardHeld /\ TaskAt /\ Stopped /\ Removed /\ NoneAdmitted /\ Measured
  BY DEF Init, GuardHeld, TaskAt, Stopped, Removed, NoneAdmitted, Measured, Cleaning, Idle, Holders,
         UploadSet
<1>3. RemovesPreviewed /\ CleanedEmpty
  BY DEF Init, RemovesPreviewed, CleanedEmpty
<1>4. ASSUME NEW u \in Users PROVE SumFunction(doc[u]) = 0 /\ Used(u) = 0
  <2>1. doc[u] = NoFiles /\ left[u] = NoneLeft
    BY DEF Init
  <2> QED
    BY <2>1, EmptySums DEF Used
<1>5. QuotaKept
  BY <1>4 DEF QuotaKept
<1> QED
  BY <1>1, <1>2, <1>3, <1>5 DEF IInv

----------------------------------------------------------------------------
(* Requests *)

(* What the records of requests are. *)
LEMMA RequestKinds ==
  ASSUME NEW q \in RequestSet
  PROVE  /\ q.pc \in {"sent", "idle", "ok", "error"} \cup Holders
         /\ q.pc \in {"sent"} \cup Holders => q \in UploadSet \/ q \in AllocationSet
         /\ q.pc \in {"measuring", "writing"} => q \in UploadSet
         /\ q.pc \in {"sent"} \cup Holders /\ q.kind = "upload" => q \in UploadSet
         /\ q.pc = "sent" => [q EXCEPT !.pc = "asking"] \in RequestSet
         /\ q.pc = "asking" => [q EXCEPT !.pc = "admitted"] \in RequestSet
  BY DEF RequestSet, UploadSet, AllocationSet, AnsweredSet, Holders

(* The steps that leave the disk and the deletion alone: what has to hold  *)
(* of the request's new record q for the invariant to be kept.             *)
InFlight == {"admitted", "measuring", "writing"}
MeasuredIs(q) ==
  /\ q \in UploadSet /\ q.pc # "writing" => q.written = 0
  /\ q.pc = "measuring" => q.base = doc[q.user][q.name]
  /\ q.pc = "writing" => /\ q.base = Used(q.user) - doc[q.user][q.name]
                         /\ q.written <= q.size
                         /\ q.written > 0 => q.base + q.written <= Quota

Moves(r, q) ==
  /\ request' = [request EXCEPT ![r] = q]
  /\ guard' \in {guard, r, Nobody}
  /\ guard' # guard => guard \in {r, Nobody}
  /\ q.pc \in Holders => guard' = r

LEMMA MovesKeepsGuard ==
  ASSUME IInv, NEW r \in Requests, NEW q \in RequestSet, Moves(r, q), UNCHANGED cleanup
  PROVE  request' \in [Requests -> RequestSet] /\ GuardHeld' /\ guard' \in Requests \cup {TheCleanup, Nobody}
<1>1. request' \in [Requests -> RequestSet] /\ request'[r] = q /\ \A s \in Requests \ {r} : request'[s] = request[s]
  BY DEF IInv, Shape, Moves
<1>2. Nobody # TheCleanup /\ Nobody \notin Requests /\ TheCleanup \notin Requests
  BY AgentFilesAssumption DEF Nobody, TheCleanup
<1>3. guard' \in Requests \cup {TheCleanup, Nobody}
  BY DEF IInv, Shape, TypeOK, Moves
<1>4. ASSUME NEW s \in Requests, request'[s].pc \in Holders PROVE guard' = s
  BY <1>1, <1>2, <1>4 DEF IInv, GuardHeld, Moves
<1>5. ASSUME NEW e \in Executions, Cleaning(e)' PROVE guard' = TheCleanup
  BY <1>2, <1>5 DEF IInv, GuardHeld, Cleaning, Moves
<1> QED
  BY <1>1, <1>3, <1>4, <1>5 DEF IInv, GuardHeld, Cleaning

LEMMA MovesKeepsShape ==
  ASSUME IInv, request' \in [Requests -> RequestSet], guard' \in Requests \cup {TheCleanup, Nobody},
         UNCHANGED <<operations, sandbox, cleanup, receipt, left, crashes>>,
         UNCHANGED doc \/ doc' \in [Users -> [Names -> 0..MaxSize]],
         UNCHANGED state \/ state' \in [Users -> BOOLEAN],
         UNCHANGED writes \/ writes' \in 0..MaxWrites,
         UNCHANGED stamp \/ stamp' \in [Users -> Nat],
         UNCHANGED directory \/ directory' \in [Users -> BOOLEAN]
  PROVE  Shape'
<1>1. \A r \in Requests : request'[r].pc \in {"idle", "sent", "ok", "error"} \cup Holders
  BY RequestKinds
<1>2. blocked' \in BOOLEAN /\ state' \in [Users -> BOOLEAN] /\ directory' \in [Users -> BOOLEAN]
  BY Zenon DEF IInv, Shape, TypeOK, sandbox
<1>3. /\ UNCHANGED <<job, worker, execution, expected, running, cleanup, receipt, crashes, left>>
      /\ writes' \in 0..MaxWrites
      /\ doc' \in [Users -> [Names -> 0..MaxSize]] /\ stamp' \in [Users -> Nat]
  BY DEF IInv, Shape, TypeOK, operations, sandbox
<1>4. TypeOK'
  BY <1>1, <1>2, <1>3 DEF IInv, Shape, TypeOK
<1>5. (expected = [e \in Executions |-> expected[e]])'
  BY <1>3 DEF IInv, Shape
<1> QED
  BY <1>4, <1>5 DEF Shape

LEMMA MovesKeepsDeletion ==
  ASSUME IInv, UNCHANGED <<operations, sandbox, cleanup>>
  PROVE  TaskAt' /\ Stopped'
  BY DEF IInv, TaskAt, Stopped, operations, sandbox

(* The preview's fingerprint is one of the disk only. *)
LEMMA ImpactSame ==
  ASSUME UNCHANGED <<doc, left, state, stamp>> PROVE Impact' = Impact
<1>1. \A u \in Users : Empty(u)' <=> Empty(u)
  BY DEF Empty
<1> QED
  BY <1>1, Zenon DEF Impact

LEMMA RequestMoves ==
  ASSUME IInv, NEW r \in Requests, NEW q \in RequestSet, Moves(r, q), MeasuredIs(q),
         q.pc \in InFlight => request[r].pc \in InFlight \/ ~Pending,
         UNCHANGED <<operations, sandbox, cleanup, receipt, doc, left, state, stamp, writes, crashes>>,
         \/ UNCHANGED directory
         \/ request[r].pc \in InFlight /\ directory' \in [Users -> BOOLEAN]
  PROVE  IInv'
<1>1. request' \in [Requests -> RequestSet] /\ GuardHeld' /\ guard' \in Requests \cup {TheCleanup, Nobody}
  BY MovesKeepsGuard
<1>2. Shape'
  BY <1>1, MovesKeepsShape
<1>3. TaskAt' /\ Stopped'
  BY MovesKeepsDeletion
<1>4. Removed' /\ RemovesPreviewed' /\ QuotaKept'
  BY ImpactSame DEF IInv, Removed, RemovesPreviewed, QuotaKept, Used, operations
<1>5. CleanedEmpty'
  BY DEF IInv, CleanedEmpty, NoneAdmitted, InFlight, Empty, Pending, operations
<1>6. request'[r] = q /\ \A s \in Requests \ {r} : request'[s] = request[s]
  BY DEF IInv, Shape, Moves
<1>7. NoneAdmitted'
  BY <1>6 DEF IInv, NoneAdmitted, InFlight, Pending, operations
<1>8. Measured'
  BY <1>6 DEF IInv, Measured, MeasuredIs, Used
<1> QED
  BY <1>1, <1>2, <1>3, <1>4, <1>5, <1>7, <1>8 DEF IInv

LEMMA SendStep == ASSUME IInv, NEW r \in Requests, Send(r) PROVE IInv'
<1>1. PICK q \in RequestSet :
        /\ q.pc = "sent" /\ (q \in UploadSet => q.written = 0)
        /\ request' = [request EXCEPT ![r] = q]
  <2>1. PICK u \in Users :
          \/ request' = [request EXCEPT ![r] = [pc |-> "sent", kind |-> "allocate", user |-> u]]
          \/ \E n \in Names, s \in 1..MaxSize :
               request' = [request EXCEPT ![r] = [pc |-> "sent", kind |-> "upload", user |-> u,
                                                  name |-> n, size |-> s, base |-> 0, written |-> 0]]
    BY DEF Send
  <2>2. /\ [pc |-> "sent", kind |-> "allocate", user |-> u] \in RequestSet
        /\ [pc |-> "sent", kind |-> "allocate", user |-> u] \notin UploadSet
    BY DEF RequestSet, AllocationSet, UploadSet
  <2>3. ASSUME NEW n \in Names, NEW s \in 1..MaxSize
        PROVE  [pc |-> "sent", kind |-> "upload", user |-> u, name |-> n, size |-> s,
                base |-> 0, written |-> 0] \in RequestSet
    BY AgentFilesAssumption DEF RequestSet, UploadSet
  <2> QED
    BY <2>1, <2>2, <2>3
<1>2. Moves(r, q) /\ MeasuredIs(q) /\ q.pc \notin InFlight
  BY <1>1 DEF Send, Moves, MeasuredIs, InFlight, Holders
<1> QED
  BY <1>1, <1>2, RequestMoves DEF Send, service, disk

LEMMA EnterStep == ASSUME IInv, NEW r \in Requests, Enter(r) \/ Asked(r) PROVE IInv'
<1>1. request[r] \in RequestSet
  BY DEF IInv, Shape
<1>2. CASE Enter(r)
  <2> DEFINE q == [request[r] EXCEPT !.pc = "asking"]
  <2>1. q \in RequestSet /\ q.pc = "asking" /\ request' = [request EXCEPT ![r] = q]
    BY <1>1, <1>2, RequestKinds DEF Enter, Wait, RequestSet, UploadSet, AllocationSet, AnsweredSet
  <2>a. q \in UploadSet => q.written = 0
    BY <1>1, <1>2 DEF Enter, IInv, Measured, RequestSet, UploadSet, AllocationSet, AnsweredSet
  <2> HIDE DEF q
  <2>2. Moves(r, q) /\ MeasuredIs(q) /\ q.pc \notin InFlight
    BY <1>2, <2>1, <2>a DEF Enter, Moves, MeasuredIs, InFlight, Holders
  <2> QED
    BY <1>2, <2>1, <2>2, RequestMoves DEF Enter, disk
<1>3. CASE Asked(r)
  <2> DEFINE q == [request[r] EXCEPT !.pc = "admitted"]
  <2>1. q \in RequestSet /\ q.pc = "admitted" /\ request' = [request EXCEPT ![r] = q]
    BY <1>1, <1>3, RequestKinds DEF Asked, Asks, Wait, RequestSet, UploadSet, AllocationSet, AnsweredSet
  <2>a. q \in UploadSet => q.written = 0
    BY <1>1, <1>3 DEF Asked, Asks, IInv, Measured, RequestSet, UploadSet, AllocationSet, AnsweredSet
  <2> HIDE DEF q
  <2>2. guard = r
    BY <1>3 DEF Asked, Asks, Holders, IInv, GuardHeld
  <2>3. Moves(r, q) /\ MeasuredIs(q) /\ ~Pending
    BY <1>3, <2>1, <2>2, <2>a DEF Asked, Moves, MeasuredIs, InFlight, Holders
  <2> QED
    BY <1>3, <2>1, <2>3, RequestMoves DEF Asked, disk
<1> QED
  BY <1>2, <1>3

(* A request that is answered frees the guard. *)
LEMMA AnswerMoves ==
  ASSUME IInv, NEW r \in Requests, NEW pc \in {"ok", "error"}, Answer(r, pc), Freed(r)
  PROVE  \E q \in RequestSet : Moves(r, q) /\ MeasuredIs(q) /\ q.pc \notin InFlight
<1> DEFINE q == [pc |-> pc]
<1>1. q \in RequestSet /\ q.pc = pc
  BY DEF RequestSet, AnsweredSet
<1>2. request' = [request EXCEPT ![r] = q]
  BY DEF Answer
<1> HIDE DEF q
<1>3. Moves(r, q) /\ MeasuredIs(q) /\ q.pc \notin InFlight
  BY <1>1, <1>2 DEF Freed, Moves, MeasuredIs, InFlight, Holders, UploadSet
<1> QED
  BY <1>1, <1>3

LEMMA FailsStep == ASSUME IInv, NEW r \in Requests, Fails(r) PROVE IInv'
<1>1. PICK q \in RequestSet : Moves(r, q) /\ MeasuredIs(q) /\ q.pc \notin InFlight
  BY AnswerMoves DEF Fails, FreedOnError
<1> QED
  BY <1>1, RequestMoves DEF Fails, disk

LEMMA OpenScopeStep == ASSUME IInv, NEW r \in Requests, OpenScope(r) PROVE IInv'
<1>1. PICK q \in RequestSet : Moves(r, q) /\ MeasuredIs(q) /\ q.pc \notin InFlight
  BY AnswerMoves DEF OpenScope
<1>2. request[r].pc \in InFlight
  BY DEF OpenScope, InFlight
<1>3. directory' \in [Users -> BOOLEAN]
  BY DEF OpenScope, Layout, IInv, Shape, TypeOK
<1> QED
  BY <1>1, <1>2, <1>3, RequestMoves DEF OpenScope

LEMMA SumsOfFiles ==
  ASSUME Shape, NEW u \in Users
  PROVE  /\ doc[u] \in [Names -> Nat] /\ SumFunction(doc[u]) \in Nat
         /\ left[u] \in [Requests -> Nat] /\ SumFunction(left[u]) \in Nat
         /\ Used(u) = SumFunction(doc[u]) + SumFunction(left[u])
<1>1. doc[u] \in [Names -> 0..MaxSize] /\ left[u] \in [Requests -> 0..MaxSize]
  BY DEF Shape, TypeOK
<1>2. doc[u] \in [Names -> Nat] /\ left[u] \in [Requests -> Nat]
  BY <1>1, AgentFilesAssumption
<1> QED
  BY <1>2, SumFunctionType, AgentFilesAssumption DEF Used

LEMMA OpenTargetStep == ASSUME IInv, NEW r \in Requests, OpenTarget(r) PROVE IInv'
<1> DEFINE old == request[r]
           q == [old EXCEPT !.pc = "measuring", !.base = doc[old.user][old.name]]
<1>1. old \in UploadSet /\ guard = r /\ old.pc = "admitted" /\ old.written = 0
  BY RequestKinds DEF OpenTarget, IInv, Shape, GuardHeld, Holders, Measured
<1>2. doc[old.user][old.name] \in Int
  BY <1>1, SumsOfFiles DEF IInv, UploadSet
<1>3. q \in UploadSet /\ q.pc = "measuring" /\ q.user = old.user /\ q.name = old.name
      /\ q.base = doc[old.user][old.name] /\ q.written = 0
  BY <1>1, <1>2 DEF UploadSet, Holders
<1>4. request' = [request EXCEPT ![r] = q]
  BY <1>1 DEF OpenTarget, IInv, Shape
<1> HIDE DEF q
<1>5. Moves(r, q) /\ MeasuredIs(q) /\ q \in RequestSet
  BY <1>1, <1>3, <1>4 DEF OpenTarget, Moves, MeasuredIs, RequestSet
<1>6. directory' \in [Users -> BOOLEAN]
  BY DEF OpenTarget, Layout, IInv, Shape, TypeOK
<1> QED
  BY <1>1, <1>5, <1>6, RequestMoves DEF OpenTarget, InFlight

LEMMA MeasuredRecord ==
  \A old \in UploadSet, d \in Int : \A q : q = [old EXCEPT !.pc = "writing", !.base = d] =>
    /\ q \in UploadSet /\ q.pc = "writing" /\ q.user = old.user /\ q.name = old.name
    /\ q.base = d /\ q.written = old.written /\ q.size = old.size
  BY DEF UploadSet, Holders

LEMMA MeasureStep == ASSUME IInv, NEW r \in Requests, Measure(r) PROVE IInv'
<1> DEFINE old == request[r]
           d == Used(old.user) - old.base
           q == [old EXCEPT !.pc = "writing", !.base = d]
<1>1. /\ old \in UploadSet /\ guard = r /\ old.pc = "measuring" /\ old.written = 0
      /\ old.base = doc[old.user][old.name]
  BY RequestKinds DEF Measure, IInv, Shape, GuardHeld, Measured, Holders
<1>2. d \in Int /\ d = Used(old.user) - doc[old.user][old.name] /\ 0 <= old.size
  BY <1>1, SumsOfFiles, AgentFilesAssumption DEF IInv, UploadSet
<1>3. request' = [request EXCEPT ![r] = q]
  BY <1>1 DEF Measure, IInv, Shape
<1>4. /\ q \in UploadSet /\ q.pc = "writing" /\ q.user = old.user /\ q.name = old.name
      /\ q.base = d /\ q.written = old.written /\ q.size = old.size
  <2>1. old \in UploadSet /\ d \in Int
    BY <1>1, <1>2
  <2>2. \A p : p = q => /\ p \in UploadSet /\ p.pc = "writing" /\ p.user = old.user /\ p.name = old.name
                        /\ p.base = d /\ p.written = old.written /\ p.size = old.size
    BY <2>1, MeasuredRecord, Zenon
  <2> QED
    BY <2>2
<1> HIDE DEF d, old, q
<1>5. MeasuredIs(q) /\ q \in RequestSet
  BY <1>1, <1>2, <1>4 DEF MeasuredIs, RequestSet
<1>6. Moves(r, q)
  BY <1>1, <1>3 DEF Measure, Moves
<1> QED
  BY <1>1, <1>5, <1>6, RequestMoves DEF Measure, InFlight, disk, old

LEMMA WriteStep == ASSUME IInv, NEW r \in Requests, Write(r) PROVE IInv'
<1> DEFINE old == request[r]
           q == [old EXCEPT !.written = @ + 1]
<1>1. /\ old \in UploadSet /\ guard = r /\ old.pc = "writing" /\ old.written < old.size
      /\ old.base = Used(old.user) - doc[old.user][old.name]
  BY RequestKinds DEF Write, IInv, Shape, GuardHeld, Measured, Holders
<1>2. CASE Fits(old)
  <2>1. /\ q \in UploadSet /\ q.pc = "writing" /\ q.user = old.user /\ q.name = old.name
        /\ q.base = old.base /\ q.written <= q.size /\ q.base + q.written <= Quota
    BY <1>1, <1>2, AgentFilesAssumption DEF UploadSet, Fits, Holders
  <2>2. request' = [request EXCEPT ![r] = q] /\ guard' = guard
    BY <1>1, <1>2 DEF Write, IInv, Shape
  <2> HIDE DEF q
  <2>3. Moves(r, q) /\ MeasuredIs(q) /\ q \in RequestSet
    BY <1>1, <2>1, <2>2 DEF Write, Moves, MeasuredIs, RequestSet
  <2> QED
    BY <1>1, <2>3, RequestMoves DEF Write, InFlight, disk
<1>3. CASE ~Fits(old)
  <2>1. PICK p \in RequestSet : Moves(r, p) /\ MeasuredIs(p) /\ p.pc \notin InFlight
    BY <1>3, AnswerMoves DEF Write
  <2> QED
    BY <2>1, RequestMoves DEF Write, disk
<1> QED
  BY <1>2, <1>3

(* The guard keeps every other request and the cleanup from the disk until *)
(* the file that was measured for is replaced.                             *)
LEMMA ReplaceQuota ==
  ASSUME IInv, NEW r \in Requests, Replace(r), NEW u \in Users
  PROVE  (SumFunction(doc[u]) <= Quota)' /\ (Used(u) <= Quota + MaxSize)'
<1> DEFINE q == request[r]
<1>1. /\ q \in UploadSet /\ q.pc = "writing" /\ q.written = q.size
      /\ q.base = Used(q.user) - doc[q.user][q.name]
      /\ q.size > 0 => q.base + q.size <= Quota
  BY RequestKinds DEF Replace, IInv, Shape, Measured, Holders
<1>2. q.size \in Nat /\ q.size > 0 /\ q.user \in Users /\ q.name \in Names
  BY <1>1, AgentFilesAssumption DEF UploadSet
<1>3. /\ doc[q.user] \in [Names -> Nat] /\ SumFunction(doc[q.user]) \in Nat
      /\ SumFunction(left[q.user]) \in Nat
      /\ Used(q.user) = SumFunction(doc[q.user]) + SumFunction(left[q.user])
  BY <1>2, SumsOfFiles DEF IInv
<1>4. left' = left
  BY DEF Replace
<1>5. CASE u = q.user
  <2>1. doc'[u] = [doc[q.user] EXCEPT ![q.name] = q.size]
    BY <1>2, <1>5 DEF Replace, IInv, Shape, TypeOK
  <2>2. SumFunction(doc'[u]) = SumFunction(doc[q.user]) - doc[q.user][q.name] + q.size
    BY <1>2, <1>3, <2>1, SumFunctionUpdate, AgentFilesAssumption
  <2>3. Used(u)' = SumFunction(doc'[u]) + SumFunction(left[u])
    BY <1>4 DEF Used
  <2>4. doc[q.user][q.name] \in Nat
    BY <1>2, <1>3
  <2> HIDE DEF q
  <2>5. SumFunction(doc'[u]) + SumFunction(left[q.user]) <= Quota
    BY <1>1, <1>2, <1>3, <2>2, <2>4, AgentFilesAssumption
  <2>6. SumFunction(doc'[u]) \in Int
    BY <1>2, <1>3, <2>2, <2>4
  <2> QED
    BY <1>3, <1>5, <2>3, <2>5, <2>6, AgentFilesAssumption
<1>6. CASE u # q.user
  <2>1. doc'[u] = doc[u]
    BY <1>6 DEF Replace, IInv, Shape, TypeOK
  <2> QED
    BY <1>4, <2>1 DEF IInv, QuotaKept, Used
<1> QED
  BY <1>5, <1>6

LEMMA ReplaceStep == ASSUME IInv, NEW r \in Requests, Replace(r) PROVE IInv'
<1>1. PICK q \in RequestSet : Moves(r, q) /\ MeasuredIs(q) /\ q.pc \notin InFlight
  BY AnswerMoves DEF Replace
<1>2. request' \in [Requests -> RequestSet] /\ GuardHeld' /\ guard' \in Requests \cup {TheCleanup, Nobody}
  BY <1>1, MovesKeepsGuard DEF Replace
<1>3. doc' \in [Users -> [Names -> 0..MaxSize]] /\ stamp' \in [Users -> Nat]
  <2>1. request[r] \in UploadSet
    BY RequestKinds DEF Replace, IInv, Shape
  <2>2. request[r].size \in 0..MaxSize
    BY <2>1, AgentFilesAssumption DEF UploadSet
  <2>3. doc \in [Users -> [Names -> 0..MaxSize]] /\ stamp \in [Users -> Nat]
    BY DEF IInv, Shape, TypeOK
  <2>4. request[r].user \in Users /\ request[r].name \in Names
    BY <2>1 DEF UploadSet
  <2>5. stamp' \in [Users -> Nat]
    BY <2>3, <2>4 DEF Replace, Written
  <2> DEFINE files == [doc[request[r].user] EXCEPT ![request[r].name] = request[r].size]
  <2>6. files \in [Names -> 0..MaxSize]
    BY <2>2, <2>3, <2>4
  <2>7. doc' = [doc EXCEPT ![request[r].user] = files]
    BY <2>3, <2>4 DEF Replace
  <2> HIDE DEF files
  <2>8. doc' \in [Users -> [Names -> 0..MaxSize]]
    BY <2>3, <2>4, <2>6, <2>7
  <2> QED
    BY <2>5, <2>8
<1>4. Shape'
  BY <1>2, <1>3, MovesKeepsShape DEF Replace
<1>5. TaskAt' /\ Stopped'
  BY MovesKeepsDeletion DEF Replace
<1>6. guard = r /\ request[r].pc \in InFlight
  BY DEF Replace, IInv, GuardHeld, Holders, InFlight
<1>7. \A e \in Executions : ~Cleaning(e) /\ ~(receipt[e] = "done" /\ e = execution /\ Pending)
  BY <1>6, AgentFilesAssumption DEF IInv, GuardHeld, NoneAdmitted, InFlight
<1>8. Removed' /\ RemovesPreviewed'
  BY <1>7 DEF Replace, IInv, Removed, RemovesPreviewed, Cleaning
<1>9. CleanedEmpty' /\ NoneAdmitted'
  BY <1>7 DEF Replace, operations, CleanedEmpty, NoneAdmitted, Pending
<1>10. \A s \in Requests \ {r} : request'[s] = request[s] /\ request[s].pc \notin {"measuring", "writing"}
  BY <1>1, <1>6 DEF IInv, Shape, GuardHeld, Moves, Holders
<1>11. request'[r] = q
  BY <1>1 DEF IInv, Shape, Moves
<1>12. Measured'
  BY <1>1, <1>10, <1>11 DEF IInv, Measured, MeasuredIs, InFlight
<1>13. QuotaKept'
  BY ReplaceQuota DEF QuotaKept
<1> QED
  BY <1>2, <1>4, <1>5, <1>8, <1>9, <1>12, <1>13 DEF IInv

----------------------------------------------------------------------------
(* Containers *)

LEMMA ContainerStep ==
  ASSUME IInv, NEW u \in Users, Acquire(u) \/ ContainerWrites(u) PROVE IInv'
<1>1. CASE Acquire(u)
  <2>1. Shape'
    BY <1>1 DEF Acquire, IInv, Shape, TypeOK, operations, service, disk
  <2>2. GuardHeld' /\ TaskAt' /\ Stopped' /\ Removed' /\ NoneAdmitted'
    BY <1>1 DEF Acquire, IInv, GuardHeld, TaskAt, Stopped, Removed, NoneAdmitted, Cleaning, Pending,
                operations, service, disk
  <2>3. Measured' /\ QuotaKept' /\ CleanedEmpty'
    BY <1>1 DEF Acquire, IInv, Measured, QuotaKept, CleanedEmpty, Used, Empty, Pending,
                operations, service, disk
  <2>4. RemovesPreviewed'
    BY <1>1, ImpactSame DEF Acquire, IInv, RemovesPreviewed, operations, service, disk
  <2> QED
    BY <2>1, <2>2, <2>3, <2>4 DEF IInv
<1>2. CASE ContainerWrites(u)
  <2>1. \A e \in Executions : cleanup[e] = "none" /\ receipt[e] # "done"
    BY <1>2 DEF ContainerWrites, IInv, Stopped, Removed
  <2>2. Shape'
    <3>a. writes \in 0..MaxWrites /\ stamp \in [Users -> Nat] /\ state \in [Users -> BOOLEAN]
      BY DEF IInv, Shape, TypeOK
    <3>1. stamp' \in [Users -> Nat] /\ writes' \in 0..MaxWrites
      BY <1>2, <3>a, AgentFilesAssumption DEF ContainerWrites, Written
    <3>2. state' \in [Users -> BOOLEAN]
      BY <1>2, <3>a, Zenon DEF ContainerWrites
    <3>3. request' \in [Requests -> RequestSet] /\ guard' \in Requests \cup {TheCleanup, Nobody}
      BY <1>2 DEF ContainerWrites, IInv, Shape, TypeOK, service
    <3> QED
      BY <1>2, <3>1, <3>2, <3>3, MovesKeepsShape DEF ContainerWrites, service
  <2>3. GuardHeld' /\ TaskAt' /\ Stopped' /\ Removed' /\ NoneAdmitted'
    BY <1>2, <2>1 DEF ContainerWrites, IInv, GuardHeld, TaskAt, Stopped, Removed, NoneAdmitted,
                      Cleaning, Pending, operations, sandbox, service
  <2>4. Measured' /\ QuotaKept'
    BY <1>2 DEF ContainerWrites, IInv, Measured, QuotaKept, Used, service
  <2>5. CleanedEmpty' /\ RemovesPreviewed'
    BY <1>2, <2>1 DEF ContainerWrites, CleanedEmpty, RemovesPreviewed, service
  <2> QED
    BY <2>2, <2>3, <2>4, <2>5 DEF IInv
<1> QED
  BY <1>1, <1>2

----------------------------------------------------------------------------
(* The deletion in operations *)

LEMMA DiskKept ==
  ASSUME IInv, UNCHANGED <<request, doc, left>> PROVE Measured' /\ QuotaKept'
  BY DEF IInv, Measured, QuotaKept, Used

LEMMA WorkerKeepsShape ==
  ASSUME IInv, UNCHANGED <<guard, request, receipt, disk, writes, crashes>>,
         job' \in {"none", "queued", "applying", "succeeded", "needs_recovery", "cancelled"},
         worker' \in {"none", "queued", "sandbox", "files", "cleaning", "catalog"},
         execution' \in 0..MaxExecutions, blocked' \in BOOLEAN, running' \subseteq Users,
         cleanup' \in [Executions -> {"none", "sent", "asking", "authorized", "removing",
                                     "removing state", "ok", "error"}],
         expected' = [e \in Executions |-> expected'[e]]
  PROVE  Shape'
<1>1. state' \in [Users -> BOOLEAN] /\ directory' \in [Users -> BOOLEAN]
  BY Zenon DEF IInv, Shape, TypeOK, disk
<1>2. UNCHANGED <<guard, request, receipt, doc, left, stamp, writes, crashes>>
  BY DEF disk
<1>3. TypeOK'
  BY <1>1, <1>2 DEF IInv, Shape, TypeOK
<1> QED
  BY <1>2, <1>3 DEF IInv, Shape

(* What a step of the deletion may do: the job goes on, or leaves the      *)
(* pending statuses, and the containers stay stopped.                      *)
LEMMA WorkerMoves ==
  ASSUME IInv, UNCHANGED <<service, disk, writes, crashes, execution, expected>>,
         job' \in {"none", "queued", "applying", "succeeded", "needs_recovery", "cancelled"},
         worker' \in {"none", "queued", "sandbox", "files", "cleaning", "catalog"},
         blocked' \in BOOLEAN, running' \subseteq running, blocked => blocked',
         Pending' => Pending, TaskAt', worker' = "files" => blocked' /\ running' = {}
  PROVE  IInv'
<1>1. UNCHANGED <<guard, request, cleanup, receipt, disk, doc, left, state, stamp, directory, writes, crashes>>
  BY DEF service, disk
<1>2. Shape'
  BY <1>1, WorkerKeepsShape DEF IInv, Shape, TypeOK
<1>3. GuardHeld' /\ Removed'
  BY <1>1 DEF IInv, GuardHeld, Removed, Cleaning
<1>4. Stopped'
  BY <1>1 DEF IInv, Stopped
<1>5. NoneAdmitted' /\ CleanedEmpty'
  BY <1>1 DEF IInv, NoneAdmitted, CleanedEmpty, Empty
<1>6. RemovesPreviewed'
  BY <1>1, ImpactSame DEF IInv, RemovesPreviewed
<1> QED
  BY <1>1, <1>2, <1>3, <1>4, <1>5, <1>6, DiskKept DEF IInv

LEMMA WorkerSteps ==
  ASSUME IInv, Preview \/ Begin \/ Cancel \/ DeleteSandboxes \/ FilesCleaned \/ Delete \/ WorkerFails
  PROVE  IInv'
<1> USE DEF sandbox, service
<1>0. /\ job \in {"none", "queued", "applying", "succeeded", "needs_recovery", "cancelled"}
      /\ worker \in {"none", "queued", "sandbox", "files", "cleaning", "catalog"}
      /\ blocked \in BOOLEAN
  BY DEF IInv, Shape, TypeOK
<1>1. CASE Preview
  <2>1. TaskAt'
    BY <1>1 DEF Preview, IInv, TaskAt
  <2> QED
    BY <1>0, <1>1, <2>1, WorkerMoves DEF Preview, IInv, Stopped, Pending
<1>2. CASE Begin
  <2>1. TaskAt' /\ job = "queued"
    BY <1>2 DEF Begin, IInv, TaskAt
  <2> QED
    BY <1>0, <1>2, <2>1, WorkerMoves DEF Begin, IInv, Stopped, Pending
<1>3. CASE Cancel
  <2>1. TaskAt'
    BY <1>3 DEF Cancel, IInv, TaskAt
  <2> QED
    BY <1>0, <1>3, <2>1, WorkerMoves DEF Cancel, IInv, Stopped, Pending
<1>4. CASE DeleteSandboxes
  <2>1. TaskAt'
    BY <1>4 DEF DeleteSandboxes, IInv, TaskAt
  <2> QED
    BY <1>0, <1>4, <2>1, WorkerMoves DEF DeleteSandboxes, Pending
<1>5. CASE FilesCleaned
  <2>1. TaskAt'
    BY <1>5 DEF FilesCleaned, IInv, TaskAt
  <2> QED
    BY <1>0, <1>5, <2>1, WorkerMoves DEF FilesCleaned, IInv, Stopped, Pending
<1>6. CASE Delete
  <2>1. TaskAt'
    BY <1>6 DEF Delete, IInv, TaskAt
  <2> QED
    BY <1>0, <1>6, <2>1, WorkerMoves DEF Delete, IInv, Stopped, Pending
<1>7. CASE WorkerFails
  <2>1. TaskAt' /\ job = "applying"
    BY <1>7 DEF WorkerFails, IInv, TaskAt
  <2>2. blocked' \in BOOLEAN /\ (blocked => blocked')
    BY <1>0, <1>7 DEF WorkerFails
  <2>3. running' \subseteq running
    BY <1>7 DEF WorkerFails
  <2> QED
    BY <1>0, <1>7, <2>1, <2>2, <2>3, WorkerMoves DEF WorkerFails, Pending
<1> QED
  BY <1>1, <1>2, <1>3, <1>4, <1>5, <1>6, <1>7

LEMMA ExecutionNumber == ASSUME IInv PROVE execution \in Nat /\ execution <= MaxExecutions
<1>1. execution \in 0..MaxExecutions
  BY DEF IInv, Shape, TypeOK
<1> QED
  BY <1>1, AgentFilesAssumption

(* An execution that is submitted has not begun anything. *)
LEMMA SubmitStep == ASSUME IInv, Submit PROVE IInv'
<1>1. execution + 1 \in Executions /\ cleanup[execution + 1] = "none" /\ execution \in Nat
  <2>1. execution < MaxExecutions
    BY DEF Submit, IInv, TaskAt
  <2>2. execution + 1 \in Executions /\ execution + 1 > execution
    BY <2>1, ExecutionNumber, AgentFilesAssumption DEF Executions
  <2> QED
    BY <2>2, ExecutionNumber DEF IInv, TaskAt
<1>2. UNCHANGED <<guard, request, cleanup, receipt, disk, doc, left, state, stamp, directory,
                  writes, crashes, blocked, running>>
  BY DEF Submit, service, disk, sandbox
<1>3. /\ expected' = [e \in Executions |-> expected'[e]]
      /\ \A e \in Executions : e # execution + 1 => expected'[e] = expected[e]
  BY <1>1 DEF Submit, IInv, Shape
<1>4. Shape'
  <2>1. execution' \in 0..MaxExecutions
    BY <1>1, AgentFilesAssumption DEF Submit, Executions
  <2> QED
    BY <1>2, <1>3, <2>1, WorkerKeepsShape DEF Submit, IInv, Shape, TypeOK
<1>5. GuardHeld' /\ Removed'
  BY <1>2 DEF IInv, GuardHeld, Removed, Cleaning
<1>6. TaskAt' /\ Stopped'
  <2>1. \A e \in Executions : e > execution + 1 => e > execution
    BY <1>1, AgentFilesAssumption DEF Executions
  <2> QED
    BY <1>1, <1>2, <2>1 DEF Submit, IInv, TaskAt, Stopped
<1>7. receipt[execution + 1] # "done"
  BY <1>1 DEF IInv, Removed
<1>8. NoneAdmitted' /\ CleanedEmpty'
  BY <1>2, <1>7 DEF Submit, NoneAdmitted, CleanedEmpty
<1>9. RemovesPreviewed'
  BY <1>1, <1>2, <1>3, ImpactSame DEF IInv, RemovesPreviewed
<1> QED
  BY <1>2, <1>4, <1>5, <1>6, <1>8, <1>9, DiskKept DEF IInv

LEMMA CleanFilesStep == ASSUME IInv, CleanFiles PROVE IInv'
<1>1. execution \in Executions /\ cleanup[execution] = "none" /\ blocked /\ running = {}
  BY DEF CleanFiles, IInv, TaskAt, Stopped
<1>2. UNCHANGED <<guard, request, receipt, disk, doc, left, state, stamp, directory, writes, crashes,
                  blocked, running, job, execution, expected, impact>>
  BY DEF CleanFiles, disk, sandbox
<1>3. cleanup'[execution] = "sent" /\ \A e \in Executions : e # execution => cleanup'[e] = cleanup[e]
  BY <1>1 DEF CleanFiles, IInv, Shape, TypeOK
<1>4. Shape'
  <2>1. cleanup' \in [Executions -> {"none", "sent", "asking", "authorized", "removing",
                                     "removing state", "ok", "error"}]
    BY <1>1 DEF CleanFiles, IInv, Shape, TypeOK
  <2> QED
    BY <1>2, <2>1, WorkerKeepsShape DEF CleanFiles, IInv, Shape, TypeOK
<1>5. GuardHeld'
  BY <1>2, <1>3 DEF IInv, GuardHeld, Cleaning
<1>6. Removed'
  BY <1>1, <1>2, <1>3 DEF IInv, Removed
<1>7. TaskAt'
  <2>1. ~ (execution > execution)
    BY ExecutionNumber
  <2> QED
    BY <1>1, <1>2, <1>3, <2>1 DEF CleanFiles, IInv, TaskAt
<1>8. Stopped'
  BY <1>1, <1>2 DEF CleanFiles, Stopped
<1>9. NoneAdmitted' /\ CleanedEmpty'
  BY <1>2 DEF IInv, NoneAdmitted, CleanedEmpty, Empty, Pending
<1>10. RemovesPreviewed'
  BY <1>2, <1>3, ImpactSame DEF IInv, RemovesPreviewed
<1> QED
  BY <1>2, <1>4, <1>5, <1>6, <1>7, <1>8, <1>9, <1>10, DiskKept DEF IInv

----------------------------------------------------------------------------
(* Cleanups *)

(* The journal and the calls of the cleanups change, and the guard with    *)
(* them: only the cleanup at work, or the one that takes the free guard.   *)
CleanupMoves(e, pc) ==
  /\ cleanup' = [cleanup EXCEPT ![e] = pc]
  /\ cleanup[e] # "none" /\ pc \in {"asking", "authorized", "removing", "removing state", "ok", "error"}
  /\ \/ guard = TheCleanup /\ Cleaning(e)
     \/ guard = Nobody
  /\ guard' = IF pc \in {"ok", "error"} THEN Nobody ELSE TheCleanup

LEMMA CleanupKeeps ==
  ASSUME IInv, NEW e \in Executions, NEW pc, CleanupMoves(e, pc),
         UNCHANGED <<operations, sandbox, request>>
  PROVE  /\ GuardHeld' /\ TaskAt' /\ Stopped'
         /\ cleanup'[e] = pc /\ \A f \in Executions : f # e => cleanup'[f] = cleanup[f]
         /\ cleanup' \in [Executions -> {"none", "sent", "asking", "authorized", "removing",
                                        "removing state", "ok", "error"}]
         /\ guard' \in {TheCleanup, Nobody}
         /\ \A r \in Requests : request[r].pc \notin Holders
         /\ \A f \in Executions : f # e => ~Cleaning(f)
<1>1. Nobody # TheCleanup /\ Nobody \notin Requests /\ TheCleanup \notin Requests
  BY AgentFilesAssumption DEF Nobody, TheCleanup
<1>2. cleanup \in [Executions -> {"none", "sent", "asking", "authorized", "removing",
                                 "removing state", "ok", "error"}]
  BY DEF IInv, Shape, TypeOK
<1>3. cleanup'[e] = pc /\ \A f \in Executions : f # e => cleanup'[f] = cleanup[f]
  BY <1>2 DEF CleanupMoves
<1>4. cleanup' \in [Executions -> {"none", "sent", "asking", "authorized", "removing",
                                  "removing state", "ok", "error"}]
  BY <1>2 DEF CleanupMoves
<1>5. guard' \in {TheCleanup, Nobody}
  BY DEF CleanupMoves
<1>6. \A r \in Requests : request[r].pc \notin Holders
  BY <1>1 DEF IInv, GuardHeld, CleanupMoves
<1>7. \A f \in Executions : f # e => ~Cleaning(f)
  BY <1>1 DEF IInv, GuardHeld, CleanupMoves
<1>8. GuardHeld'
  BY <1>3, <1>6, <1>7 DEF GuardHeld, Cleaning, CleanupMoves
<1>9. TaskAt' /\ Stopped'
  BY <1>3 DEF IInv, TaskAt, Stopped, CleanupMoves, operations, sandbox
<1> QED
  BY <1>3, <1>4, <1>5, <1>6, <1>7, <1>8, <1>9

LEMMA CleanupKeepsShape ==
  ASSUME IInv, UNCHANGED <<operations, sandbox, request, stamp, writes, crashes>>,
         cleanup' \in [Executions -> {"none", "sent", "asking", "authorized", "removing",
                                     "removing state", "ok", "error"}],
         guard' \in {TheCleanup, Nobody},
         receipt' \in [Executions -> {"none", "begun", "done"}],
         UNCHANGED <<doc, left>> \/ (doc' = [u \in Users |-> NoFiles] /\ left' = [u \in Users |-> NoneLeft]),
         \/ UNCHANGED <<state, directory>>
         \/ state' = [u \in Users |-> FALSE] /\ directory' = [u \in Users |-> FALSE]
  PROVE  Shape'
<1>1. blocked' \in BOOLEAN /\ state' \in [Users -> BOOLEAN] /\ directory' \in [Users -> BOOLEAN]
  BY Zenon DEF IInv, Shape, TypeOK, sandbox
<1>3. doc' \in [Users -> [Names -> 0..MaxSize]] /\ left' \in [Users -> [Requests -> 0..MaxSize]]
  BY NoneType DEF IInv, Shape, TypeOK
<1>4. TypeOK'
  BY <1>1, <1>3 DEF IInv, Shape, TypeOK, operations, sandbox
<1> QED
  BY <1>4 DEF IInv, Shape, operations

(* The steps that leave the disk alone. *)
LEMMA CleanupAlone ==
  ASSUME IInv, NEW e \in Executions, NEW pc, CleanupMoves(e, pc),
         UNCHANGED <<operations, sandbox, request, disk, writes, crashes>>,
         UNCHANGED receipt \/ receipt' = [receipt EXCEPT ![e] = "begun"],
         receipt'[e] # "done", pc # "removing state", pc = "removing" => Impact = expected[e]
  PROVE  IInv'
<1>1. UNCHANGED <<doc, left, state, stamp, directory>>
  BY DEF disk
<1>2. /\ receipt' \in [Executions -> {"none", "begun", "done"}]
      /\ \A f \in Executions : receipt'[f] = "done" => f # e /\ receipt[f] = "done"
  BY DEF IInv, Shape, TypeOK
<1>3. Shape'
  BY <1>1, <1>2, CleanupKeeps, CleanupKeepsShape
<1>4. Removed'
  BY <1>1, <1>2, CleanupKeeps DEF IInv, Removed, CleanupMoves
<1>5. RemovesPreviewed'
  <2>1. Impact' = Impact /\ expected' = expected
    BY <1>1, ImpactSame DEF operations
  <2>2. cleanup'[e] = pc /\ \A f \in Executions : f # e => cleanup'[f] = cleanup[f]
    BY CleanupKeeps
  <2>3. ASSUME NEW f \in Executions, cleanup'[f] = "removing" PROVE Impact' = expected'[f]
    <3>1. CASE f = e
      BY <2>1, <2>2, <2>3, <3>1
    <3>2. CASE f # e
      BY <2>1, <2>2, <2>3, <3>2 DEF IInv, RemovesPreviewed
    <3> QED
      BY <3>1, <3>2
  <2> QED
    BY <2>3 DEF RemovesPreviewed
<1>6. NoneAdmitted' /\ CleanedEmpty'
  BY <1>1, <1>2 DEF IInv, NoneAdmitted, CleanedEmpty, Empty, Pending, operations
<1> QED
  BY <1>1, <1>3, <1>4, <1>5, <1>6, CleanupKeeps, DiskKept DEF IInv

LEMMA CleanupAsksSteps ==
  ASSUME IInv, NEW e \in Executions,
         CleanupEnter(e) \/ CleanupAsked(e) \/ CleanupBegin(e) \/ RemoveFails(e)
  PROVE  IInv'
<1>1. receipt[e] = "done" => cleanup[e] = "ok"
  BY DEF IInv, Removed
<1>2. Cleaning(e) => guard = TheCleanup
  BY DEF IInv, GuardHeld
<1>3. receipt \in [Executions -> {"none", "begun", "done"}]
  BY DEF IInv, Shape, TypeOK
<1>4. CASE CleanupEnter(e)
  BY <1>1, <1>4, CleanupAlone DEF CleanupEnter, CleanupMoves, Cleanup
<1>5. CASE CleanupAsked(e)
  <2>1. CASE Cleanup(e, "authorized") /\ UNCHANGED guard
    BY <1>1, <1>2, <1>5, <2>1, CleanupAlone DEF CleanupAsked, CleanupMoves, Cleanup, Cleaning
  <2>2. CASE Refuse(e)
    BY <1>1, <1>2, <1>5, <2>2, CleanupAlone DEF CleanupAsked, CleanupMoves, Cleanup, Cleaning, Refuse
  <2> QED
    BY <1>5, <2>1, <2>2 DEF CleanupAsked
<1>6. CASE CleanupBegin(e)
  <2>1. CASE AsPreviewed(e)
    <3>1. receipt' = [receipt EXCEPT ![e] = "begun"] /\ receipt'[e] # "done"
      BY <1>3, <1>6, <2>1 DEF CleanupBegin
    <3> QED
      BY <1>2, <1>6, <2>1, <3>1, CleanupAlone
         DEF CleanupBegin, CleanupMoves, Cleanup, Cleaning, AsPreviewed
  <2>2. CASE ~AsPreviewed(e)
    BY <1>1, <1>2, <1>6, <2>2, CleanupAlone DEF CleanupBegin, CleanupMoves, Cleanup, Cleaning, Refuse
  <2> QED
    BY <2>1, <2>2
<1>7. CASE RemoveFails(e)
  BY <1>1, <1>2, <1>7, CleanupAlone DEF RemoveFails, CleanupMoves, Cleanup, Cleaning, Refuse
<1> QED
  BY <1>4, <1>5, <1>6, <1>7

LEMMA RemoveWorkspacesStep ==
  ASSUME IInv, NEW e \in Executions, RemoveWorkspaces(e) PROVE IInv'
<1>1. CleanupMoves(e, "removing state") /\ receipt[e] # "done"
  BY DEF RemoveWorkspaces, CleanupMoves, Cleanup, Cleaning, IInv, GuardHeld, Removed
<1>2. /\ doc' = [u \in Users |-> NoFiles] /\ left' = [u \in Users |-> NoneLeft]
      /\ UNCHANGED <<operations, sandbox, request, receipt, state, stamp, directory, writes, crashes>>
  BY DEF RemoveWorkspaces
<1>3. Shape'
  <2>1. receipt' \in [Executions -> {"none", "begun", "done"}]
    BY <1>2 DEF IInv, Shape, TypeOK
  <2> QED
    BY <1>1, <1>2, <2>1, CleanupKeeps, CleanupKeepsShape
<1>4. Removed'
  BY <1>1, <1>2, CleanupKeeps DEF IInv, Removed
<1>5. RemovesPreviewed'
  BY <1>1, <1>2, CleanupKeeps DEF RemovesPreviewed, Cleaning
<1>6. NoneAdmitted'
  BY <1>2 DEF IInv, NoneAdmitted, Pending, operations
<1>7. CleanedEmpty'
  BY <1>2 DEF IInv, CleanedEmpty, Empty, Pending, operations
<1>8. ASSUME NEW u \in Users PROVE SumFunction(doc'[u]) = 0 /\ SumFunction(left'[u]) = 0
  <2>1. doc'[u] = NoFiles /\ left'[u] = NoneLeft
    BY <1>2
  <2> QED
    BY <2>1, EmptySums
<1>9. QuotaKept'
  BY <1>8, AgentFilesAssumption DEF QuotaKept, Used
<1>10. Measured'
  <2>1. \A r \in Requests : request[r].pc \notin Holders
    BY <1>1, <1>2, CleanupKeeps
  <2> QED
    BY <1>2, <2>1 DEF IInv, Measured, Holders
<1> QED
  BY <1>1, <1>2, <1>3, <1>4, <1>5, <1>6, <1>7, <1>9, <1>10, CleanupKeeps DEF IInv

(* The whole directory is gone when the journal says so. *)
LEMMA RemoveStateStep ==
  ASSUME IInv, NEW e \in Executions, RemoveState(e) PROVE IInv'
<1>1. CleanupMoves(e, "ok")
  BY DEF RemoveState, CleanupMoves, Cleanup, Cleaning, IInv, GuardHeld
<1>2. /\ state' = [u \in Users |-> FALSE] /\ directory' = [u \in Users |-> FALSE]
      /\ receipt' = [receipt EXCEPT ![e] = "done"]
      /\ UNCHANGED <<operations, sandbox, request, doc, left, stamp, writes, crashes>>
  BY DEF RemoveState
<1>3. doc = [u \in Users |-> NoFiles] /\ left = [u \in Users |-> NoneLeft]
  BY DEF RemoveState, IInv, Removed
<1>4. receipt' \in [Executions -> {"none", "begun", "done"}]
      /\ \A f \in Executions : f # e => receipt'[f] = receipt[f]
  BY <1>2 DEF IInv, Shape, TypeOK
<1>5. Shape'
  BY <1>1, <1>2, <1>4, CleanupKeeps, CleanupKeepsShape
<1>6. Removed'
  BY <1>1, <1>2, <1>3, <1>4, CleanupKeeps DEF IInv, Removed
<1>7. RemovesPreviewed'
  BY <1>1, <1>2, CleanupKeeps DEF RemovesPreviewed, Cleaning
<1>8. NoneAdmitted'
  BY <1>1, <1>2, CleanupKeeps DEF NoneAdmitted, Holders
<1>9. CleanedEmpty'
  <2>1. \A u \in Users : Empty(u)' /\ ~directory'[u]
    BY <1>2, <1>3 DEF Empty
  <2> QED
    BY <2>1 DEF CleanedEmpty
<1> QED
  BY <1>1, <1>2, <1>5, <1>6, <1>7, <1>8, <1>9, CleanupKeeps, DiskKept DEF IInv

----------------------------------------------------------------------------
(* Restarts *)

LEMMA RestartOperationsStep == ASSUME IInv, RestartOperations PROVE IInv'
<1>1. crashes' \in 0..MaxCrashes
  <2>1. crashes \in 0..MaxCrashes
    BY DEF IInv, Shape, TypeOK
  <2> QED
    BY <2>1, AgentFilesAssumption DEF RestartOperations, Crash
<1>2. UNCHANGED <<execution, expected, blocked, running, guard, request, cleanup, receipt, disk,
                  doc, left, state, stamp, directory, writes>>
  BY DEF RestartOperations, sandbox, service, disk
<1>3. Shape'
  <2>1. /\ job' \in {"none", "queued", "applying", "succeeded", "needs_recovery", "cancelled"}
        /\ worker' \in {"none", "queued", "sandbox", "files", "cleaning", "catalog"}
    BY DEF RestartOperations, Recovered, IInv, Shape, TypeOK
  <2>2. blocked' \in BOOLEAN /\ state' \in [Users -> BOOLEAN] /\ directory' \in [Users -> BOOLEAN]
    BY <1>2, Zenon DEF IInv, Shape, TypeOK
  <2>3. TypeOK'
    BY <1>1, <1>2, <2>1, <2>2 DEF IInv, Shape, TypeOK
  <2> QED
    BY <1>2, <2>3 DEF IInv, Shape
<1>4. GuardHeld' /\ Removed'
  BY <1>2 DEF IInv, GuardHeld, Removed, Cleaning
<1>5. TaskAt' /\ Stopped'
  BY <1>2 DEF RestartOperations, Recovered, IInv, TaskAt, Stopped
<1>6. Pending' => Pending
  BY DEF RestartOperations, Recovered, Pending
<1>7. NoneAdmitted' /\ CleanedEmpty'
  BY <1>2, <1>6 DEF IInv, NoneAdmitted, CleanedEmpty, Empty
<1>8. RemovesPreviewed'
  BY <1>2, ImpactSame DEF IInv, RemovesPreviewed
<1> QED
  BY <1>2, <1>3, <1>4, <1>5, <1>7, <1>8, DiskKept DEF IInv

(* What an interrupted upload leaves behind: only one can have written.    *)
LEMMA InterruptedQuota ==
  ASSUME IInv, RestartFileService, NEW u \in Users
  PROVE  (SumFunction(doc[u]) <= Quota)' /\ (Used(u) <= Quota + MaxSize)'
<1>1. doc' = doc /\ left'[u] = [r \in Requests |-> IF Interrupted(u, r) THEN request[r].written
                                                  ELSE left[u][r]]
  BY DEF RestartFileService
<1>2. SumFunction(doc[u]) <= Quota /\ Used(u) <= Quota + MaxSize
  BY DEF IInv, QuotaKept
<1>3. CASE \A r \in Requests : ~Interrupted(u, r)
  <2>1. left'[u] = left[u]
    BY <1>1, <1>3, SumsOfFiles DEF IInv
  <2> QED
    BY <1>1, <1>2, <2>1 DEF Used
<1>4. ASSUME NEW r \in Requests, Interrupted(u, r) PROVE (Used(u) <= Quota + MaxSize)'
  <2> DEFINE q == request[r]
  <2>a. q \in UploadSet /\ q.user = u /\ q.written > 0 /\ q.pc = "writing"
    BY <1>4, RequestKinds DEF Interrupted, IInv, Shape, Holders
  <2>b. q.written \in Nat /\ q.name \in Names
    BY <2>a, AgentFilesAssumption DEF UploadSet
  <2>c. q.base = Used(u) - doc[u][q.name] /\ q.base + q.written <= Quota
    BY <2>a DEF IInv, Measured
  <2>1. /\ q \in UploadSet /\ q.user = u /\ q.written \in Nat /\ q.name \in Names
        /\ q.base = Used(u) - doc[u][q.name] /\ q.base + q.written <= Quota /\ q.pc = "writing"
    BY <2>a, <2>b, <2>c
  <2>2. \A s \in Requests : Interrupted(u, s) => s = r
    BY <2>1 DEF IInv, GuardHeld, Interrupted, Holders
  <2>3. /\ doc[u] \in [Names -> 0..MaxSize] /\ SumFunction(doc[u]) \in Nat
        /\ left[u] \in [Requests -> Nat] /\ SumFunction(left[u]) \in Nat
        /\ Used(u) = SumFunction(doc[u]) + SumFunction(left[u])
    BY SumsOfFiles DEF IInv, Shape, TypeOK
  <2>4. left'[u] = [left[u] EXCEPT ![r] = q.written]
    BY <1>1, <1>4, <2>2, <2>3
  <2>5. SumFunction(left'[u]) = SumFunction(left[u]) - left[u][r] + q.written
    BY <2>1, <2>3, <2>4, SumFunctionUpdate, AgentFilesAssumption
  <2>6. Used(u)' = SumFunction(doc[u]) + SumFunction(left'[u])
    BY <1>1 DEF Used
  <2>7. left[u][r] \in Nat /\ doc[u][q.name] \in 0..MaxSize
    BY <2>1, <2>3
  <2> HIDE DEF q
  <2>8. Used(u)' <= Used(u) + q.written
    BY <2>1, <2>3, <2>5, <2>6, <2>7
  <2>9. Used(u)' \in Int
    BY <2>1, <2>3, <2>5, <2>6, <2>7
  <2>10. Used(u) + q.written <= Quota + MaxSize
    BY <2>1, <2>3, <2>7, AgentFilesAssumption
  <2> QED
    BY <2>1, <2>3, <2>8, <2>9, <2>10, AgentFilesAssumption
<1> QED
  BY <1>1, <1>2, <1>3, <1>4

LEMMA RestartFileServiceStep == ASSUME IInv, RestartFileService PROVE IInv'
<1>1. crashes' \in 0..MaxCrashes
  <2>1. crashes \in 0..MaxCrashes
    BY DEF IInv, Shape, TypeOK
  <2> QED
    BY <2>1, AgentFilesAssumption DEF RestartFileService, Crash
<1>2. UNCHANGED <<job, worker, execution, impact, expected, blocked, running, receipt, doc, state,
                  directory, writes>> /\ guard' = Nobody
  BY DEF RestartFileService, operations, sandbox
<1>3. ASSUME NEW r \in Requests
      PROVE  request'[r] \in AnsweredSet \/ (request'[r] = request[r] /\ request[r].pc \in {"idle", "ok"})
  BY DEF RestartFileService, AnsweredSet
<1>4. \A r \in Requests : request'[r] \in RequestSet /\ request'[r].pc \in {"idle", "ok", "error"}
  BY <1>3 DEF IInv, Shape, RequestSet, AnsweredSet
<1>5. /\ request' \in [Requests -> RequestSet]
      /\ \A r \in Requests : request'[r] \notin UploadSet
  BY <1>4 DEF RestartFileService, UploadSet, Holders
<1>a. cleanup' = [e \in Executions |-> IF cleanup[e] \in {"none", "ok"} THEN cleanup[e] ELSE "error"]
  BY DEF RestartFileService
<1>6. ASSUME NEW e \in Executions
      PROVE  /\ cleanup[e] \in {"none", "ok"} => cleanup'[e] = cleanup[e]
             /\ cleanup[e] \notin {"none", "ok"} => cleanup'[e] = "error"
  BY <1>a
<1>7. cleanup' \in [Executions -> {"none", "sent", "asking", "authorized", "removing",
                                  "removing state", "ok", "error"}]
  BY DEF RestartFileService
<1>8. left' \in [Users -> [Requests -> 0..MaxSize]] /\ stamp' \in [Users -> Nat]
  <2>1. left \in [Users -> [Requests -> 0..MaxSize]] /\ stamp \in [Users -> Nat]
    BY DEF IInv, Shape, TypeOK
  <2>2. ASSUME NEW u \in Users, NEW r \in Requests, Interrupted(u, r)
        PROVE  request[r].written \in 0..MaxSize
    <3>1. request[r] \in UploadSet
      BY <2>2, RequestKinds DEF IInv, Shape, Interrupted, Holders
    <3> QED
      BY <3>1 DEF UploadSet
  <2>3. left' \in [Users -> [Requests -> 0..MaxSize]]
    BY <2>1, <2>2 DEF RestartFileService
  <2>4. stamp' \in [Users -> Nat]
    BY <2>1 DEF RestartFileService
  <2> QED
    BY <2>3, <2>4
<1>9. Shape'
  <2>1. blocked' \in BOOLEAN /\ state' \in [Users -> BOOLEAN] /\ directory' \in [Users -> BOOLEAN]
    BY <1>2, Zenon DEF IInv, Shape, TypeOK
  <2>2. TypeOK'
    BY <1>1, <1>2, <1>4, <1>7, <1>8, <2>1 DEF IInv, Shape, TypeOK
  <2> QED
    BY <1>2, <1>5, <2>2 DEF IInv, Shape
<1>10. GuardHeld' /\ Removed' /\ RemovesPreviewed'
  BY <1>2, <1>4, <1>6 DEF IInv, GuardHeld, Removed, RemovesPreviewed, Cleaning, Holders
<1>11. TaskAt' /\ Stopped'
  BY <1>2, <1>6 DEF IInv, TaskAt, Stopped
<1>12. NoneAdmitted' /\ Measured'
  BY <1>4, <1>5 DEF NoneAdmitted, Measured
<1>13. CleanedEmpty'
  <2>1. SUFFICES ASSUME NEW e \in Executions, (receipt[e] = "done" /\ e = execution /\ Pending)',
                        NEW u \in Users
                 PROVE  Empty(u)' /\ ~directory'[u]
    BY DEF CleanedEmpty
  <2>2. receipt[e] = "done" /\ e = execution /\ Pending
    BY <1>2, <2>1 DEF Pending
  <2>3. Empty(u) /\ ~directory[u] /\ \A r \in Requests : ~Interrupted(u, r)
    BY <2>2 DEF IInv, CleanedEmpty, NoneAdmitted, Interrupted
  <2>4. left[u] \in [Requests -> 0..MaxSize]
    BY DEF IInv, Shape, TypeOK
  <2>5. left'[u] = left[u]
    BY <2>3, <2>4 DEF RestartFileService
  <2> QED
    BY <1>2, <2>3, <2>5 DEF Empty
<1>14. QuotaKept'
  BY InterruptedQuota DEF QuotaKept
<1> QED
  BY <1>9, <1>10, <1>11, <1>12, <1>13, <1>14 DEF IInv

----------------------------------------------------------------------------
(* Theorems *)

LEMMA RequestSteps ==
  ASSUME IInv, NEW r \in Requests, Send(r) \/ RequestStep(r) PROVE IInv'
  BY SendStep, EnterStep, FailsStep, OpenScopeStep, OpenTargetStep, MeasureStep, WriteStep, ReplaceStep
     DEF RequestStep

LEMMA NextIInv == ASSUME IInv, [Next]_vars PROVE IInv'
<1>1. ASSUME NEW r \in Requests, Send(r) \/ RequestStep(r) PROVE IInv'
  BY <1>1, RequestSteps
<1>2. ASSUME NEW e \in Executions, CleanupStep(e) PROVE IInv'
  BY <1>2, CleanupAsksSteps, RemoveWorkspacesStep, RemoveStateStep DEF CleanupStep
<1>3. ASSUME NEW u \in Users, Acquire(u) \/ ContainerWrites(u) PROVE IInv'
  BY <1>3, ContainerStep
<1>4. CASE Preview \/ Submit \/ Cancel \/ WorkerStep
  BY <1>4, WorkerSteps, SubmitStep, CleanFilesStep DEF WorkerStep
<1>5. CASE RestartOperations \/ RestartFileService
  BY <1>5, RestartOperationsStep, RestartFileServiceStep
<1>6. CASE UNCHANGED vars
  <2>1. UNCHANGED <<job, worker, execution, impact, expected, blocked, running, guard, request, cleanup,
                    receipt, doc, left, state, stamp, directory, writes, crashes>>
    BY <1>6 DEF vars, operations, sandbox, service, disk
  <2>2. Shape'
    BY <2>1 DEF IInv, Shape, TypeOK
  <2>3. GuardHeld' /\ TaskAt' /\ Stopped' /\ Removed' /\ NoneAdmitted'
    BY <2>1 DEF IInv, GuardHeld, TaskAt, Stopped, Removed, NoneAdmitted, Cleaning, Pending
  <2>4. RemovesPreviewed' /\ CleanedEmpty'
    BY <2>1, ImpactSame DEF IInv, RemovesPreviewed, CleanedEmpty, Empty, Pending
  <2> QED
    BY <2>1, <2>2, <2>3, <2>4, DiskKept DEF IInv
<1> QED
  BY <1>1, <1>2, <1>3, <1>4, <1>5, <1>6 DEF Next

(* The inductive invariant holds throughout.                               *)
THEOREM FilesInvariance == Spec => []IInv
  BY InitIInv, NextIInv, PTL DEF Spec

(* The types of the files, the journal, the requests and the deletion      *)
(* (file_service and operations, as in AgentFiles).                        *)
THEOREM FilesTypeCorrectness == Spec => []TypeOK
<1>1. IInv => TypeOK
  BY DEF IInv, Shape
<1> QED
  BY <1>1, FilesInvariance, PTL

(* A removal begins on exactly the files of the administrator's preview,   *)
(* whatever uploads and containers do (file_service/main.py:175-205).      *)
THEOREM OnlyPreviewedRemoved == Spec => []RemovesPreviewed
<1>1. IInv => RemovesPreviewed
  BY DEF IInv
<1> QED
  BY <1>1, FilesInvariance, PTL

(* As long as a deletion whose files are removed is pending, nothing comes *)
(* back: neither an upload admitted before it nor a container.             *)
THEOREM NothingComesBack == Spec => []CleanedEmpty
<1>1. IInv => CleanedEmpty
  BY DEF IInv
<1> QED
  BY <1>1, FilesInvariance, PTL

(* Uploads keep every user within the quota, whatever interrupted uploads  *)
(* left behind (files.py:62-121).                                          *)
THEOREM QuotaRespected == Spec => []QuotaKept
<1>1. IInv => QuotaKept
  BY DEF IInv
<1> QED
  BY <1>1, FilesInvariance, PTL

=============================================================================
