--------------------------- MODULE LoadTestProofs ---------------------------
(***************************************************************************)
(* Proofs about LoadTest, for any numbers of tests, users, cleanups,       *)
(* crashes and failures of Docker: types, a test that ended leaves nobody  *)
(* waiting, and nothing of a cleaned user comes back.                      *)
(***************************************************************************)
EXTENDS LoadTest, TLAPS

USE DEF tests, users, tasks, sandbox, files, vars

----------------------------------------------------------------------------
(* Types *)

CallPC == {"none", "sent", "allocating", "allocated", "creating", "leased", "binding", "ok", "error"}
AllocPC == {"none", "queued", "checked", "ok", "refused"}
CleanPC == {"none", "queued", "removing", "ok", "error"}
Rows == {"none", "blank", "known"}
Receipts == {"none", "begun", "done"}

LEMMA InitType == Init => TypeOK
  BY LoadTestAssumption DEF Init, TypeOK, Calls, Attempts, Active, LivePhases, Aborting, Nobody

LEMMA FunctionTypes ==
  ASSUME TypeOK
  PROVE  /\ call \in [Users -> [Calls -> CallPC]] /\ alloc \in [Users -> [Calls -> AllocPC]]
         /\ sweep \in [Users -> [Attempts -> CleanPC]]
         /\ removal \in [Users -> [Attempts -> CleanPC]]
         /\ container \in [Users -> BOOLEAN] /\ row \in [Users -> Rows]
         /\ routes \in [Users -> BOOLEAN]
         /\ receipt \in [Users -> Receipts] /\ directory \in [Users -> BOOLEAN]
  BY DEF TypeOK, CallPC, AllocPC, CleanPC, Rows, Receipts

LEMMA SandboxTypes ==
  ASSUME TypeOK, NEW u \in Users, NEW k \in Calls, SandboxStep(u, k) PROVE TypeOK'
<1>0. call \in [Users -> [Calls -> CallPC]] /\ alloc \in [Users -> [Calls -> AllocPC]]
      /\ container \in [Users -> BOOLEAN] /\ row \in [Users -> Rows]
      /\ routes \in [Users -> BOOLEAN]
  BY FunctionTypes
<1>1. CASE Admit(u, k)
  <2>1. /\ \E pc \in CallPC : call' = [call EXCEPT ![u][k] = pc]
        /\ alloc' = alloc \/ \E pc \in AllocPC : alloc' = [alloc EXCEPT ![u][k] = pc]
    BY <1>1 DEF Admit, Call, Alloc, CallPC, AllocPC
  <2>2. call' \in [Users -> [Calls -> CallPC]]
    BY <1>0, <2>1
  <2>3. alloc' \in [Users -> [Calls -> AllocPC]]
    <3>1. CASE alloc' = alloc
      BY <1>0, <3>1
    <3>2. CASE \E pc \in AllocPC : alloc' = [alloc EXCEPT ![u][k] = pc]
      BY <1>0, <3>2
    <3> QED
      BY <2>1, <3>1, <3>2
  <2> QED
    BY <1>1, <2>2, <2>3 DEF Admit, TypeOK, AllocPC, CallPC
<1>2. CASE AllocAnswered(u, k)
  <2>1. \E pc \in CallPC : call' = [call EXCEPT ![u][k] = pc]
    BY <1>2 DEF AllocAnswered, Call, CallPC
  <2>2. call' \in [Users -> [Calls -> CallPC]]
    BY <1>0, <2>1
  <2> QED
    BY <1>2, <2>2 DEF AllocAnswered, TypeOK, CallPC
<1>3. CASE Reuse(u, k)
  <2>1. /\ call' = call \/ \E pc \in CallPC : call' = [call EXCEPT ![u][k] = pc]
        /\ container' = container \/ container' = [container EXCEPT ![u] = FALSE]
        /\ row' = row \/ row' = [row EXCEPT ![u] = "known"]
    BY <1>3 DEF Reuse, Call, CallPC
  <2>2. call' \in [Users -> [Calls -> CallPC]]
    <3>1. CASE call' = call
      BY <1>0, <3>1
    <3>2. CASE \E pc \in CallPC : call' = [call EXCEPT ![u][k] = pc]
      BY <1>0, <3>2
    <3> QED
      BY <2>1, <3>1, <3>2
  <2>3. container' \in [Users -> BOOLEAN]
    BY <1>0, <2>1
  <2>4. row' \in [Users -> Rows]
    BY <1>0, <2>1 DEF Rows
  <2> QED
    BY <1>3, <2>2, <2>3, <2>4 DEF Reuse, TypeOK, CallPC, Rows
<1>4. CASE StartCreate(u, k)
  BY <1>4 DEF StartCreate, Call, TypeOK
<1>5. CASE Created(u, k)
  <2>1. /\ \E pc \in CallPC : call' = [call EXCEPT ![u][k] = pc]
        /\ container' = container \/ container' = [container EXCEPT ![u] = TRUE]
        /\ row' = row \/ row' = [row EXCEPT ![u] = "known"]
    BY <1>5 DEF Created, Call, CallPC
  <2>2. call' \in [Users -> [Calls -> CallPC]]
    BY <1>0, <2>1
  <2>3. container' \in [Users -> BOOLEAN]
    BY <1>0, <2>1
  <2>4. row' \in [Users -> Rows]
    BY <1>0, <2>1 DEF Rows
  <2>5. dockerFaults' \in 0..MaxDockerFaults
    BY <1>5, LoadTestAssumption DEF Created, TypeOK
  <2> QED
    BY <1>5, <2>2, <2>3, <2>4, <2>5 DEF Created, TypeOK, CallPC, Rows
<1>6. CASE Serve(u, k)
  <2>1. /\ \E pc \in CallPC : call' = [call EXCEPT ![u][k] = pc]
        /\ alloc' = alloc \/ \E pc \in AllocPC : alloc' = [alloc EXCEPT ![u][k] = pc]
        /\ routes' = routes \/ routes' = [routes EXCEPT ![u] = TRUE]
    BY <1>6 DEF Serve, Call, Alloc, CallPC, AllocPC
  <2>2. call' \in [Users -> [Calls -> CallPC]]
    BY <1>0, <2>1
  <2>3. alloc' \in [Users -> [Calls -> AllocPC]]
    <3>1. CASE alloc' = alloc
      BY <1>0, <3>1
    <3>2. CASE \E pc \in AllocPC : alloc' = [alloc EXCEPT ![u][k] = pc]
      BY <1>0, <3>2
    <3> QED
      BY <2>1, <3>1, <3>2
  <2>4. routes' \in [Users -> BOOLEAN]
    BY <1>0, <2>1
  <2> QED
    BY <1>6, <2>2, <2>3, <2>4 DEF Serve, TypeOK, AllocPC, CallPC
<1> QED
  BY <1>1, <1>2, <1>3, <1>4, <1>5, <1>6 DEF SandboxStep

LEMMA FilesTypes ==
  ASSUME TypeOK, NEW u \in Users, NEW k \in Calls, FilesStep(u, k) PROVE TypeOK'
<1>1. CASE AllocChecked(u, k)
  BY <1>1 DEF AllocChecked, Alloc, TypeOK
<1>2. CASE AllocDone(u, k)
  BY <1>2 DEF AllocDone, Allocated, Alloc, TypeOK
<1> QED
  BY <1>1, <1>2 DEF FilesStep

LEMMA CleanTypes ==
  ASSUME TypeOK, NEW u \in Users, NEW a \in Attempts, CleanStep(u, a) PROVE TypeOK'
<1>0. /\ sweep \in [Users -> [Attempts -> CleanPC]] /\ removal \in [Users -> [Attempts -> CleanPC]]
      /\ container \in [Users -> BOOLEAN] /\ row \in [Users -> Rows] /\ routes \in [Users -> BOOLEAN]
      /\ receipt \in [Users -> Receipts] /\ directory \in [Users -> BOOLEAN]
  BY FunctionTypes
<1>1. CASE SweepStart(u, a)
  BY <1>1 DEF SweepStart, Sweep, TypeOK
<1>2. CASE SweepEnd(u, a)
  <2>1. /\ \E pc \in CleanPC : sweep' = [sweep EXCEPT ![u][a] = pc]
        /\ container' = container \/ container' = [container EXCEPT ![u] = @ /\ row[u] # "known"]
        /\ row' = row \/ row' = [row EXCEPT ![u] = "none"]
        /\ routes' = routes \/ routes' = [routes EXCEPT ![u] = FALSE]
    BY <1>2 DEF SweepEnd, Sweep, CleanPC
  <2>2. sweep' \in [Users -> [Attempts -> CleanPC]]
    BY <1>0, <2>1
  <2>3. container' \in [Users -> BOOLEAN]
    BY <1>0, <2>1
  <2>4. row' \in [Users -> Rows]
    BY <1>0, <2>1 DEF Rows
  <2>5. routes' \in [Users -> BOOLEAN]
    BY <1>0, <2>1
  <2> QED
    BY <1>2, <2>2, <2>3, <2>4, <2>5 DEF SweepEnd, TypeOK, CleanPC, Rows
<1>3. CASE RemovalStart(u, a)
  <2>1. /\ \E pc \in CleanPC : removal' = [removal EXCEPT ![u][a] = pc]
        /\ receipt' = receipt \/ receipt' = [receipt EXCEPT ![u] = "begun"]
    BY <1>3 DEF RemovalStart, Removal, CleanPC
  <2>2. removal' \in [Users -> [Attempts -> CleanPC]]
    BY <1>0, <2>1
  <2>3. receipt' \in [Users -> Receipts]
    BY <1>0, <2>1 DEF Receipts
  <2> QED
    BY <1>3, <2>2, <2>3 DEF RemovalStart, TypeOK, CleanPC, Receipts
<1>4. CASE RemovalEnd(u, a)
  <2>1. /\ \E pc \in CleanPC : removal' = [removal EXCEPT ![u][a] = pc]
        /\ receipt' = receipt \/ receipt' = [receipt EXCEPT ![u] = "done"]
        /\ directory' = directory \/ directory' = [directory EXCEPT ![u] = FALSE]
    BY <1>4 DEF RemovalEnd, Removal, CleanPC
  <2>2. removal' \in [Users -> [Attempts -> CleanPC]]
    BY <1>0, <2>1
  <2>3. receipt' \in [Users -> Receipts]
    BY <1>0, <2>1 DEF Receipts
  <2>4. directory' \in [Users -> BOOLEAN]
    BY <1>0, <2>1
  <2> QED
    BY <1>4, <2>2, <2>3, <2>4 DEF RemovalEnd, TypeOK, CleanPC, Receipts
<1> QED
  BY <1>1, <1>2, <1>3, <1>4 DEF CleanStep

LEMMA ChildTypes == ASSUME TypeOK, NEW u \in Users, ChildStep(u) PROVE TypeOK'
<1>1. CASE SessionAnswered(u)
  BY <1>1 DEF SessionAnswered, ChildUnchanged, Child, Phase, TypeOK, LivePhases
<1>2. CASE PrepareTimeout(u)
  BY <1>2 DEF PrepareTimeout, ChildUnchanged, Child, TypeOK
<1>3. CASE MessageAnswered(u)
  BY <1>3 DEF MessageAnswered, ChildUnchanged, Child, Phase, TypeOK
<1>4. CASE MessageFailed(u)
  BY <1>4 DEF MessageFailed, Abort, ChildUnchanged, Child, Call, TypeOK, Aborting, Calls
<1>5. CASE GenerateTimeout(u)
  BY <1>5 DEF GenerateTimeout, Abort, ChildUnchanged, Child, Call, TypeOK, Aborting, Calls
<1>6. CASE Aborted(u)
  BY <1>6 DEF Aborted, Aborting, ChildUnchanged, Child, Phase, TypeOK
<1> QED
  BY <1>1, <1>2, <1>3, <1>4, <1>5, <1>6 DEF ChildStep

TestStatus == Active \cup {"none", "completed", "completed_with_errors", "failed", "cancelled",
                           "interrupted"}
UserPhases == LivePhases \cup {"none", "prepare_failed", "succeeded", "failed", "timed_out",
                               "cancelled", "interrupted"}

LEMMA LeaveTypes ==
  ASSUME TypeOK, NEW t \in Tests, NEW blocked \in BOOLEAN,
         Leave(t, blocked, phase) \/ Leave(t, blocked, Refused(t))
  PROVE  phase' \in [Users -> UserPhases] /\ runner' = [runner EXCEPT ![t] = "idle"]
         /\ lock' \in {lock, Nobody}
<1>1. Refused(t) \in [Users -> UserPhases]
  BY DEF TypeOK, Refused, For, UserPhases
<1>2. phase \in [Users -> UserPhases]
  BY DEF TypeOK, UserPhases
<1> QED
  BY <1>1, <1>2 DEF Leave, To, UserPhases

LEMMA StepTypes ==
  ASSUME TypeOK, NEW t \in Tests, Step(t)
  PROVE  cancelling' \in [Tests -> {"no", "scheduled", "due"}]
  BY DEF TypeOK, Step

(* The users started get a new phase and place to wait, and send a request. *)
LEMMA LaunchTypes ==
  ASSUME TypeOK, NEW t \in Tests, NEW S \in SUBSET Users,
         \/ Launch(t, S, "session", "preparing", "preparing")
         \/ Launch(t, S, "message", "generating", "running")
  PROVE  /\ child' \in [Users -> {"done", "preparing", "late", "settling", "generating"}
                                 \cup Aborting]
         /\ phase' \in [Users -> UserPhases]
         /\ call' \in [Users -> [Calls -> CallPC]]
<1>1. call \in [Users -> [Calls -> CallPC]] /\ phase \in [Users -> UserPhases]
  BY FunctionTypes DEF TypeOK, UserPhases
<1>2. child' \in [Users -> {"done", "preparing", "late", "settling", "generating"} \cup Aborting]
  BY DEF Launch, For, TypeOK
<1>3. phase' \in [Users -> UserPhases]
  BY <1>1 DEF Launch, For, UserPhases, LivePhases
<1>4. \E T \in SUBSET Users : \E k \in Calls :
        call' = [u \in Users |-> IF u \in T THEN [call[u] EXCEPT ![k] = "sent"] ELSE call[u]]
  <2> DEFINE started == IF cancelling[t] = "scheduled" THEN {} ELSE S
  <2>1. \E k \in Calls : call' = For(call, started, LAMBDA u : [call[u] EXCEPT ![k] = "sent"])
    BY DEF Launch, Calls
  <2>2. started \in SUBSET Users
    OBVIOUS
  <2> HIDE DEF started
  <2> QED
    BY <2>1, <2>2 DEF For
<1>5. call' \in [Users -> [Calls -> CallPC]]
  BY <1>1, <1>4 DEF CallPC
<1> QED
  BY <1>2, <1>3, <1>5

LEMMA StartTypes == ASSUME TypeOK, NEW t \in Tests, Start(t) PROVE TypeOK'
<1>1. status' \in [Tests -> TestStatus] /\ runner' = [runner EXCEPT ![t] = "lock"]
  BY DEF Start, CreateRows, SetStatus, To, TypeOK, Active, TestStatus
<1>2. /\ storage' \in [Users -> {"none", "retained", "cleaning", "cleaned"}]
      /\ phase' \in [Users -> UserPhases]
  BY DEF Start, CreateRows, For, TypeOK, LivePhases, UserPhases
<1> QED
  BY <1>1, <1>2 DEF Start, TypeOK, TestStatus, UserPhases

LEMMA RunTypes == ASSUME TypeOK, NEW t \in Tests, RunStep(t) PROVE TypeOK'
<1>0. /\ phase \in [Users -> UserPhases] /\ status \in [Tests -> TestStatus]
      /\ call \in [Users -> [Calls -> CallPC]]
  BY FunctionTypes DEF TypeOK, UserPhases, TestStatus
<1>1. CASE Begin(t)
  BY <1>1, StepTypes DEF Begin, To, TypeOK
<1>2. CASE Refreshed(t)
  <2>1. cancelling' \in [Tests -> {"no", "scheduled", "due"}]
    BY <1>2, StepTypes DEF Refreshed
  <2>2. status' \in [Tests -> TestStatus]
    BY <1>0, <1>2 DEF Refreshed, SetStatus, TestStatus, Active
  <2>3. /\ phase' \in [Users -> UserPhases] /\ lock' \in {lock, Nobody}
        /\ \E pc \in {"capacity", "idle"} : runner' = [runner EXCEPT ![t] = pc]
    BY <1>0, <1>2, LeaveTypes DEF Refreshed, To
  <2> QED
    BY <1>2, <2>1, <2>2, <2>3 DEF Refreshed, TypeOK, UserPhases, TestStatus
<1>3. CASE Prepare(t)
  <2>1. cancelling' \in [Tests -> {"no", "scheduled", "due"}]
    BY <1>3, StepTypes DEF Prepare
  <2>2. \E S \in SUBSET Users : Launch(t, S, "session", "preparing", "preparing")
    BY <1>3 DEF Prepare, Batches, UsersOf
  <2>3. /\ child' \in [Users -> {"done", "preparing", "late", "settling", "generating"}
                                \cup Aborting]
        /\ phase' \in [Users -> UserPhases] /\ call' \in [Users -> [Calls -> CallPC]]
    BY <2>2, LaunchTypes
  <2> QED
    BY <1>3, <2>1, <2>3 DEF Prepare, To, TypeOK, UserPhases, CallPC
<1>4. CASE Prepared(t)
  BY <1>4, StepTypes DEF Prepared, To, TypeOK
<1>5. CASE Blocked(t)
  <2>1. cancelling' \in [Tests -> {"no", "scheduled", "due"}]
    BY <1>5, StepTypes DEF Blocked
  <2>2. status' \in [Tests -> TestStatus]
    BY <1>0, <1>5 DEF Blocked, SetStatus, TestStatus
  <2>3. /\ phase' \in [Users -> UserPhases] /\ lock' \in {lock, Nobody}
        /\ runner' = [runner EXCEPT ![t] = "idle"]
    BY <1>5, LeaveTypes DEF Blocked
  <2>4. capacityBlocked' \in [Tests -> BOOLEAN]
    <3>1. capacityBlocked \in [Tests -> BOOLEAN]
      BY DEF TypeOK
    <3>2. \/ capacityBlocked' = [capacityBlocked EXCEPT ![t] = TRUE]
          \/ capacityBlocked' = capacityBlocked
      BY <1>5 DEF Blocked
    <3> QED
      BY <3>1, <3>2
  <2>5. UNCHANGED <<cancelRequested, cleanup, storage, child, cleaner, attempt, sandbox, files,
                    crashes>>
    BY <1>5 DEF Blocked
  <2> QED
    <3>1. /\ runner' \in [Tests -> {"idle", "lock", "refresh", "capacity", "preparing",
                                   "generating", "unwinding"}]
          /\ lock' \in Tests \cup {Nobody}
      BY <2>3 DEF TypeOK
    <3> QED
      BY <2>1, <2>2, <2>3, <2>4, <2>5, <3>1 DEF TypeOK, UserPhases, TestStatus
<1>6. CASE Generate(t)
  <2>1. cancelling' \in [Tests -> {"no", "scheduled", "due"}]
    BY <1>6, StepTypes DEF Generate
  <2>2. status' \in [Tests -> TestStatus]
    BY <1>0, <1>6 DEF Generate, SetStatus, TestStatus, Active
  <2>3. /\ child' \in [Users -> {"done", "preparing", "late", "settling", "generating"}
                                \cup Aborting]
        /\ phase' \in [Users -> UserPhases] /\ call' \in [Users -> [Calls -> CallPC]]
        /\ lock' \in {lock, Nobody}
        /\ \E pc \in {"generating", "idle"} : runner' = [runner EXCEPT ![t] = pc]
    <3>1. \/ /\ Leave(t, FALSE, phase) /\ UNCHANGED <<child, call>>
          \/ /\ \E S \in SUBSET Users : Launch(t, S, "message", "generating", "running")
             /\ UNCHANGED lock /\ To(t, "generating")
      BY <1>6 DEF Generate, UsersOf
    <3>2. CASE Leave(t, FALSE, phase) /\ UNCHANGED <<child, call>>
      BY <1>0, <3>2, LeaveTypes DEF TypeOK
    <3>3. CASE /\ \E S \in SUBSET Users : Launch(t, S, "message", "generating", "running")
               /\ UNCHANGED lock /\ To(t, "generating")
      BY <3>3, LaunchTypes DEF To
    <3> QED
      BY <3>1, <3>2, <3>3
  <2> QED
    BY <1>6, <2>1, <2>2, <2>3 DEF Generate, TypeOK, UserPhases, TestStatus, CallPC
<1>7. CASE Generated(t)
  <2>1. cancelling' \in [Tests -> {"no", "scheduled", "due"}]
    BY <1>7, StepTypes DEF Generated
  <2>2. status' \in [Tests -> TestStatus]
    BY <1>0, <1>7 DEF Generated, SetStatus, TestStatus
  <2>3. /\ phase' \in [Users -> UserPhases] /\ lock' \in {lock, Nobody}
        /\ runner' = [runner EXCEPT ![t] = "idle"]
    BY <1>7, LeaveTypes DEF Generated, TypeOK
  <2> QED
    BY <1>7, <2>1, <2>2, <2>3 DEF Generated, TypeOK, UserPhases, TestStatus
<1>8. CASE Deliver(t)
  <2>1. \A pc \in {"done", "preparing", "late", "settling", "generating"} \cup Aborting :
          Cancelled(pc) \in {"done", "preparing", "late", "settling", "generating"} \cup Aborting
    BY DEF Cancelled, Aborting
  <2>2. child' \in [Users -> {"done", "preparing", "late", "settling", "generating"}
                             \cup Aborting]
    BY <1>8, <2>1 DEF Deliver, For, TypeOK
  <2>3. \E T \in SUBSET Users : call' =
          [u \in Users |-> IF u \in T THEN [call[u] EXCEPT !["abort"] = "sent"] ELSE call[u]]
    BY <1>8 DEF Deliver, For, UsersOf
  <2>4. call' \in [Users -> [Calls -> CallPC]]
    BY <1>0, <2>3 DEF Calls, CallPC
  <2> QED
    BY <1>8, <2>2, <2>4 DEF Deliver, To, TypeOK, CallPC
<1>9. CASE Unwound(t)
  <2>1. status' \in [Tests -> TestStatus]
    BY <1>0, <1>9 DEF Unwound, SetStatus, TestStatus
  <2>2. /\ phase' \in [Users -> UserPhases] /\ lock' \in {lock, Nobody}
        /\ runner' = [runner EXCEPT ![t] = "idle"]
    BY <1>9, LeaveTypes DEF Unwound, TypeOK
  <2> QED
    BY <1>9, <2>1, <2>2 DEF Unwound, TypeOK, UserPhases, TestStatus
<1> QED
  BY <1>1, <1>2, <1>3, <1>4, <1>5, <1>6, <1>7, <1>8, <1>9 DEF RunStep

LEMMA CleanerTypes ==
  ASSUME TypeOK, NEW t \in Tests, Cancel(t) \/ Cleanup(t) \/ CleanerStep(t) PROVE TypeOK'
<1>1. CASE Cancel(t)
  BY <1>1 DEF Cancel, SetStatus, TypeOK, Active
<1>2. CASE Cleanup(t)
  <2>1. storage' \in [Users -> {"none", "retained", "cleaning", "cleaned"}]
    BY <1>2 DEF Cleanup, For, TypeOK
  <2>2. attempt' \in [Tests -> 0..MaxCleanups]
    <3>1. attempt[t] < MaxCleanups /\ attempt' = [attempt EXCEPT ![t] = @ + 1]
      BY <1>2 DEF Cleanup
    <3>2. attempt[t] \in 0..MaxCleanups /\ attempt \in [Tests -> 0..MaxCleanups]
      BY DEF TypeOK
    <3>3. attempt[t] + 1 \in 0..MaxCleanups
      BY <3>1, <3>2, LoadTestAssumption
    <3> QED
      BY <3>1, <3>2, <3>3
  <2> QED
    BY <1>2, <2>1, <2>2 DEF Cleanup, CleanerTo, TypeOK
<1>3. CASE CleanerLocked(t)
  BY <1>3 DEF CleanerLocked, CleanerTo, TypeOK
<1>4. CASE CleanSandbox(t)
  <2>1. sweep \in [Users -> [Attempts -> CleanPC]]
    BY FunctionTypes
  <2>2. PICK u \in Users : sweep' = [sweep EXCEPT ![u][attempt[t]] = "queued"]
    BY <1>4 DEF CleanSandbox, Sweep, UsersOf
  <2>3. [sweep[u] EXCEPT ![attempt[t]] = "queued"] \in [Attempts -> CleanPC]
    BY <2>1 DEF CleanPC
  <2>4. sweep' = [sweep EXCEPT ![u] = [sweep[u] EXCEPT ![attempt[t]] = "queued"]]
    BY <2>1, <2>2
  <2>5. sweep' \in [Users -> [Attempts -> CleanPC]]
    BY <2>1, <2>3, <2>4
  <2> QED
    BY <1>4, <2>5 DEF CleanSandbox, CleanerTo, TypeOK, CleanPC
<1>5. CASE CleanFiles(t)
  <2>1. removal \in [Users -> [Attempts -> CleanPC]]
    BY FunctionTypes
  <2>2. PICK u \in Users : removal' = [removal EXCEPT ![u][attempt[t]] = "queued"]
    BY <1>5 DEF CleanFiles, Removal, UsersOf
  <2>3. [removal[u] EXCEPT ![attempt[t]] = "queued"] \in [Attempts -> CleanPC]
    BY <2>1 DEF CleanPC
  <2>4. removal' = [removal EXCEPT ![u] = [removal[u] EXCEPT ![attempt[t]] = "queued"]]
    BY <2>1, <2>2
  <2>5. removal' \in [Users -> [Attempts -> CleanPC]]
    BY <2>1, <2>3, <2>4
  <2> QED
    BY <1>5, <2>5 DEF CleanFiles, CleanerTo, TypeOK, CleanPC
<1>6. CASE UserCleaned(t)
  BY <1>6 DEF UserCleaned, CleanerTo, TypeOK
<1>7. CASE TestCleaned(t)
  BY <1>7 DEF TestCleaned, CleanerTo, TypeOK
<1>8. CASE CleanupFails(t)
  BY <1>8 DEF CleanupFails, CleanerTo, TypeOK
<1> QED
  BY <1>1, <1>2, <1>3, <1>4, <1>5, <1>6, <1>7, <1>8 DEF CleanerStep

LEMMA RestartTypes == ASSUME TypeOK, Restart PROVE TypeOK'
<1>0. /\ call \in [Users -> [Calls -> CallPC]] /\ alloc \in [Users -> [Calls -> AllocPC]]
      /\ sweep \in [Users -> [Attempts -> CleanPC]]
      /\ removal \in [Users -> [Attempts -> CleanPC]]
      /\ row \in [Users -> Rows]
  BY FunctionTypes
<1>1. CASE RestartOperations
  <2>1. /\ status' \in [Tests -> TestStatus]
        /\ cleanup' \in [Tests -> {"retained", "cleaning", "cleaned", "failed"}]
        /\ runner' = [t \in Tests |-> "idle"] /\ cleaner' = [t \in Tests |-> "idle"]
        /\ cancelling' = [t \in Tests |-> "no"] /\ lock' = Nobody
        /\ child' = [u \in Users |-> "done"]
    BY <1>1 DEF RestartOperations, Uncleaned, TypeOK, TestStatus
  <2>2. phase' \in [Users -> UserPhases]
    BY <1>1 DEF RestartOperations, For, TypeOK, UserPhases
  <2>3. crashes' \in 0..MaxCrashes
    <3>1. crashes < MaxCrashes /\ crashes' = crashes + 1
      BY <1>1 DEF RestartOperations, Crash
    <3> QED
      BY <3>1, LoadTestAssumption DEF TypeOK
  <2>4. UNCHANGED <<cancelRequested, capacityBlocked, storage, attempt, sandbox, files>>
    BY <1>1 DEF RestartOperations
  <2> QED
    BY <2>1, <2>2, <2>3, <2>4 DEF TypeOK, TestStatus, UserPhases
<1>2. CASE RestartSandboxManager
  <2>1. /\ container' \in [Users -> BOOLEAN]
        /\ row' = [u \in Users |-> IF container'[u] THEN "known" ELSE row[u]]
    BY <1>2 DEF RestartSandboxManager
  <2>2. row' \in [Users -> Rows]
    BY <1>0, <2>1 DEF Rows
  <2>3. call' \in [Users -> [Calls -> CallPC]]
    BY <1>0, <1>2 DEF RestartSandboxManager, CallPC
  <2>4. sweep' \in [Users -> [Attempts -> CleanPC]]
    BY <1>0, <1>2 DEF RestartSandboxManager, CleanPC
  <2>5. crashes' \in 0..MaxCrashes
    BY <1>2, LoadTestAssumption DEF RestartSandboxManager, Crash, TypeOK
  <2> QED
    BY <1>2, <2>1, <2>2, <2>3, <2>4, <2>5 DEF RestartSandboxManager, TypeOK, Rows, CallPC, CleanPC
<1>3. CASE RestartFileService
  <2>1. directory' \in [Users -> BOOLEAN]
    BY <1>3 DEF RestartFileService
  <2>2. alloc' \in [Users -> [Calls -> AllocPC]]
    BY <1>0, <1>3 DEF RestartFileService, AllocPC
  <2>3. removal' \in [Users -> [Attempts -> CleanPC]]
    BY <1>0, <1>3 DEF RestartFileService, CleanPC
  <2>4. crashes' \in 0..MaxCrashes
    BY <1>3, LoadTestAssumption DEF RestartFileService, Crash, TypeOK
  <2> QED
    BY <1>3, <2>1, <2>2, <2>3, <2>4 DEF RestartFileService, TypeOK, AllocPC, CleanPC
<1> QED
  BY <1>1, <1>2, <1>3 DEF Restart

(* Every variable keeps its type (TypeOK). *)
THEOREM LoadTestTypeCorrectness == Spec => []TypeOK
<1>1. Init => TypeOK
  BY InitType
<1>2. TypeOK /\ [Next]_vars => TypeOK'
  <2> SUFFICES ASSUME TypeOK, [Next]_vars PROVE TypeOK'
    OBVIOUS
  <2>1. CASE \E t \in Tests :
               Start(t) \/ Cancel(t) \/ Cleanup(t) \/ RunStep(t) \/ CleanerStep(t)
    BY <2>1, StartTypes, RunTypes, CleanerTypes
  <2>2. CASE \E u \in Users : ChildStep(u)
    BY <2>2, ChildTypes
  <2>3. CASE \E u \in Users, k \in Calls : SandboxStep(u, k) \/ FilesStep(u, k)
    BY <2>3, SandboxTypes, FilesTypes
  <2>4. CASE \E u \in Users, a \in Attempts : CleanStep(u, a)
    BY <2>4, CleanTypes
  <2>5. CASE Restart
    BY <2>5, RestartTypes
  <2>6. CASE UNCHANGED vars
    BY <2>6 DEF TypeOK
  <2> QED
    BY <2>1, <2>2, <2>3, <2>4, <2>5, <2>6 DEF Next
<1> QED
  BY <1>1, <1>2, PTL DEF Spec

----------------------------------------------------------------------------
(* The invariant behind EndedSettled: run() is there exactly while the     *)
(* test is active, and its children only while it waits for them.          *)
Waiting == {"preparing", "generating", "unwinding"}

RunInv ==
  /\ \A t \in Tests : runner[t] # "idle" => status[t] \in Active
  /\ \A u \in Users : child[u] # "done" => runner[TestOf[u]] \in Waiting
  /\ EndedSettled

LEMMA InitRun == Init => RunInv
  BY LoadTestAssumption DEF Init, RunInv, EndedSettled, UsersOf, Active, LivePhases

LEMMA LeaveRun ==
  ASSUME TypeOK, RunInv, NEW t \in Tests, NEW blocked \in BOOLEAN,
         Leave(t, blocked, phase) \/ Leave(t, blocked, Refused(t))
  PROVE  /\ runner' = [runner EXCEPT ![t] = "idle"]
         /\ \A u \in UsersOf(t) : phase'[u] \notin LivePhases
         /\ \A u \in Users : TestOf[u] # t => phase'[u] = phase[u]
<1>1. runner' = [runner EXCEPT ![t] = "idle"]
  BY DEF Leave, To
<1>2. ASSUME NEW u \in Users
      PROVE  IF TestOf[u] = t THEN phase'[u] \notin LivePhases ELSE phase'[u] = phase[u]
  <2>1. CASE Leave(t, blocked, phase)
    BY <2>1 DEF Leave, UsersOf, LivePhases
  <2>2. CASE Leave(t, blocked, Refused(t))
    <3>1. Refused(t)[u] = IF TestOf[u] = t /\ phase[u] = "queued" THEN "prepare_failed"
                                                                 ELSE phase[u]
      BY DEF Refused, For, UsersOf
    <3>2. phase'[u] \in {Refused(t)[u], "cancelled", "interrupted"}
      BY <2>2 DEF Leave
    <3>3. TestOf[u] = t /\ Refused(t)[u] \in LivePhases
            => phase'[u] \in {"cancelled", "interrupted"}
      BY <2>2 DEF Leave, UsersOf
    <3>4. TestOf[u] # t => phase'[u] = Refused(t)[u]
      BY <2>2 DEF Leave, UsersOf
    <3> QED
      BY <3>1, <3>2, <3>3, <3>4 DEF LivePhases
  <2> QED
    BY <2>1, <2>2
<1> QED
  BY <1>1, <1>2 DEF UsersOf

LEMMA StartRun == ASSUME TypeOK, RunInv, NEW t \in Tests, Start(t) PROVE RunInv'
<1>1. /\ status[t] = "none" /\ status' = [status EXCEPT ![t] = "queued"]
      /\ runner' = [runner EXCEPT ![t] = "lock"] /\ UNCHANGED child
      /\ \A u \in Users : TestOf[u] # t => phase'[u] = phase[u]
  BY DEF Start, Admissible, CreateRows, SetStatus, To, For, UsersOf, TypeOK
<1>2. \A s \in Tests \ {t} : runner'[s] = runner[s] /\ status'[s] = status[s]
  BY <1>1 DEF TypeOK
<1>3. runner'[t] = "lock" /\ status'[t] = "queued" /\ runner[t] = "idle"
  <2>1. t \in DOMAIN runner /\ t \in DOMAIN status
    BY DEF TypeOK
  <2>2. runner[t] = "idle"
    BY <1>1 DEF RunInv, Active
  <2> QED
    BY <1>1, <2>1, <2>2
<1>4. \A u \in Users : TestOf[u] = t => child[u] = "done"
  BY <1>3 DEF RunInv, Waiting
<1> QED
  BY <1>1, <1>2, <1>3, <1>4, LoadTestAssumption DEF RunInv, EndedSettled, UsersOf, Waiting, Active

LEMMA CancelRun == ASSUME TypeOK, RunInv, NEW t \in Tests, Cancel(t) PROVE RunInv'
<1>1. /\ runner[t] # "idle" /\ status' = [status EXCEPT ![t] = "cancelling"]
      /\ UNCHANGED <<runner, child, phase>>
  BY DEF Cancel, SetStatus
<1> QED
  BY <1>1, LoadTestAssumption DEF RunInv, EndedSettled, UsersOf, Active, TypeOK

LEMMA RunRun == ASSUME TypeOK, RunInv, NEW t \in Tests, RunStep(t) PROVE RunInv'
<1>1. CASE Begin(t)
  <2>1. /\ runner[t] = "lock" /\ runner' = [runner EXCEPT ![t] = "refresh"]
        /\ UNCHANGED <<status, child, phase>>
    BY <1>1 DEF Begin, To
  <2> QED
    BY <2>1, LoadTestAssumption DEF RunInv, EndedSettled, UsersOf, Waiting, TypeOK
<1>2. CASE Refreshed(t)
  <2>1. /\ runner[t] = "refresh" /\ UNCHANGED child
        /\ \/ /\ status' = [status EXCEPT ![t] = "preparing"]
              /\ runner' = [runner EXCEPT ![t] = "capacity"] /\ UNCHANGED phase
           \/ /\ status' = [status EXCEPT ![t] = "failed"] /\ Leave(t, FALSE, phase)
    BY <1>2 DEF Refreshed, SetStatus, To
  <2>2. CASE Leave(t, FALSE, phase) /\ status' = [status EXCEPT ![t] = "failed"]
    <3>1. /\ runner' = [runner EXCEPT ![t] = "idle"]
          /\ \A u \in UsersOf(t) : phase'[u] \notin LivePhases
          /\ \A u \in Users : TestOf[u] # t => phase'[u] = phase[u]
      BY <2>2, LeaveRun
    <3> QED
      BY <2>1, <2>2, <3>1, LoadTestAssumption
      DEF RunInv, EndedSettled, UsersOf, Waiting, Active, TypeOK
  <2>3. CASE /\ status' = [status EXCEPT ![t] = "preparing"]
             /\ runner' = [runner EXCEPT ![t] = "capacity"] /\ UNCHANGED phase
    BY <2>1, <2>3, LoadTestAssumption DEF RunInv, EndedSettled, UsersOf, Waiting, Active, TypeOK
  <2> QED
    BY <2>1, <2>2, <2>3
<1>3. CASE Prepare(t)
  <2>1. /\ runner[t] = "capacity" /\ runner' = [runner EXCEPT ![t] = "preparing"]
        /\ UNCHANGED status
        /\ \A u \in Users : TestOf[u] # t => phase'[u] = phase[u] /\ child'[u] = child[u]
    BY <1>3 DEF Prepare, To, Launch, Batches, For, UsersOf, TypeOK
  <2> QED
    BY <2>1, LoadTestAssumption DEF RunInv, EndedSettled, UsersOf, Waiting, TypeOK
<1>4. CASE Prepared(t)
  <2>1. /\ runner[t] = "preparing" /\ runner' = [runner EXCEPT ![t] = "capacity"]
        /\ \A u \in UsersOf(t) : child[u] = "done"
        /\ UNCHANGED <<status, child, phase>>
    BY <1>4 DEF Prepared, To
  <2> QED
    BY <2>1, LoadTestAssumption DEF RunInv, EndedSettled, UsersOf, Waiting, TypeOK
<1>5. CASE Blocked(t)
  <2>1. /\ runner[t] = "capacity" /\ status' = [status EXCEPT ![t] = "failed"]
        /\ Leave(t, TRUE, Refused(t)) \/ Leave(t, FALSE, phase)
        /\ UNCHANGED child
    BY <1>5 DEF Blocked, SetStatus
  <2>2. /\ runner' = [runner EXCEPT ![t] = "idle"]
        /\ \A u \in UsersOf(t) : phase'[u] \notin LivePhases
        /\ \A u \in Users : TestOf[u] # t => phase'[u] = phase[u]
    BY <2>1, LeaveRun
  <2> QED
    BY <2>1, <2>2, LoadTestAssumption DEF RunInv, EndedSettled, UsersOf, Waiting, Active, TypeOK
<1>6. CASE Generate(t)
  <2>1. /\ runner[t] = "capacity"
        /\ \/ /\ status' = [status EXCEPT ![t] = "failed"] /\ Leave(t, FALSE, phase)
              /\ UNCHANGED child
           \/ /\ status' = [status EXCEPT ![t] = "running"]
              /\ runner' = [runner EXCEPT ![t] = "generating"]
              /\ \A u \in Users : TestOf[u] # t => phase'[u] = phase[u] /\ child'[u] = child[u]
    <3>1. CASE {u \in UsersOf(t) : phase[u] = "ready"} = {}
      BY <1>6, <3>1 DEF Generate, SetStatus
    <3>2. CASE {u \in UsersOf(t) : phase[u] = "ready"} # {}
      BY <1>6, <3>2 DEF Generate, SetStatus, To, Launch, For, UsersOf
    <3> QED
      BY <3>1, <3>2
  <2>2. CASE /\ status' = [status EXCEPT ![t] = "failed"] /\ Leave(t, FALSE, phase)
             /\ UNCHANGED child
    <3>1. /\ runner' = [runner EXCEPT ![t] = "idle"]
          /\ \A u \in UsersOf(t) : phase'[u] \notin LivePhases
          /\ \A u \in Users : TestOf[u] # t => phase'[u] = phase[u]
      BY <2>2, LeaveRun
    <3> QED
      BY <2>1, <2>2, <3>1, LoadTestAssumption
      DEF RunInv, EndedSettled, UsersOf, Waiting, Active, TypeOK
  <2>3. CASE /\ status' = [status EXCEPT ![t] = "running"]
             /\ runner' = [runner EXCEPT ![t] = "generating"]
             /\ \A u \in Users : TestOf[u] # t => phase'[u] = phase[u] /\ child'[u] = child[u]
    BY <2>1, <2>3, LoadTestAssumption DEF RunInv, EndedSettled, UsersOf, Waiting, Active, TypeOK
  <2> QED
    BY <2>1, <2>2, <2>3
<1>7. CASE Generated(t) \/ Unwound(t)
  <2>1. /\ runner[t] # "idle" /\ \A u \in UsersOf(t) : child[u] = "done"
        /\ \E st \in {"completed", "completed_with_errors", "cancelled"} :
             status' = [status EXCEPT ![t] = st]
        /\ Leave(t, capacityBlocked[t], phase) /\ UNCHANGED child
    BY <1>7 DEF Generated, Unwound, SetStatus
  <2>2. /\ runner' = [runner EXCEPT ![t] = "idle"]
        /\ \A u \in UsersOf(t) : phase'[u] \notin LivePhases
        /\ \A u \in Users : TestOf[u] # t => phase'[u] = phase[u]
    BY <2>1, LeaveRun DEF TypeOK
  <2> QED
    BY <2>1, <2>2, LoadTestAssumption DEF RunInv, EndedSettled, UsersOf, Waiting, Active, TypeOK
<1>8. CASE Deliver(t)
  <2>1. /\ runner[t] # "idle" /\ runner' = [runner EXCEPT ![t] = "unwinding"]
        /\ UNCHANGED <<status, phase>>
        /\ \A u \in Users : TestOf[u] # t => child'[u] = child[u]
    BY <1>8 DEF Deliver, To, For, UsersOf, TypeOK
  <2> QED
    BY <2>1, LoadTestAssumption DEF RunInv, EndedSettled, UsersOf, Waiting, TypeOK
<1> QED
  BY <1>1, <1>2, <1>3, <1>4, <1>5, <1>6, <1>7, <1>8 DEF RunStep

LEMMA ChildRun == ASSUME TypeOK, RunInv, NEW u \in Users, ChildStep(u) PROVE RunInv'
<1>1. /\ child[u] # "done" /\ UNCHANGED <<status, runner>>
      /\ \E pc : child' = [child EXCEPT ![u] = pc]
      /\ \A v \in Users \ {u} : phase'[v] = phase[v]
  BY DEF ChildStep, SessionAnswered, PrepareTimeout, MessageAnswered, MessageFailed,
         GenerateTimeout, Aborted, Aborting, Abort, ChildUnchanged, Child, Phase, TypeOK
<1>2. runner[TestOf[u]] # "idle"
  BY <1>1 DEF RunInv, Waiting
<1>3. \A v \in Users \ {u} : child'[v] = child[v]
  BY <1>1 DEF TypeOK
<1> QED
  BY <1>1, <1>2, <1>3, LoadTestAssumption DEF RunInv, EndedSettled, UsersOf, Waiting

LEMMA RestartRun == ASSUME TypeOK, RunInv, RestartOperations PROVE RunInv'
<1>1. /\ status' = [t \in Tests |-> IF Recovers(t) THEN "interrupted" ELSE status[t]]
      /\ runner' = [t \in Tests |-> "idle"] /\ child' = [u \in Users |-> "done"]
      /\ \A u \in Users : phase'[u] = IF Recovers(TestOf[u]) /\ phase[u] \in LivePhases
                                        THEN "interrupted" ELSE phase[u]
  BY DEF RestartOperations, For
<1> QED
  BY <1>1, LoadTestAssumption DEF RunInv, EndedSettled, Recovers, UsersOf, Active, LivePhases, TypeOK

LEMMA RunInvStep == ASSUME TypeOK, RunInv, [Next]_vars PROVE RunInv'
<1>1. CASE UNCHANGED <<status, runner, child, phase>>
  BY <1>1 DEF RunInv, EndedSettled, UsersOf
<1>2. CASE \E t \in Tests : Start(t) \/ Cancel(t) \/ RunStep(t)
  BY <1>2, StartRun, CancelRun, RunRun
<1>3. CASE \E t \in Tests : Cleanup(t) \/ CleanerStep(t)
  <2> UNCHANGED <<status, runner, child, phase>>
    BY <1>3 DEF Cleanup, CleanerStep, CleanerLocked, CleanSandbox, CleanFiles, UserCleaned,
                TestCleaned, CleanupFails
  <2> QED
    BY <1>1
<1>4. CASE \E u \in Users : ChildStep(u)
  BY <1>4, ChildRun
<1>5. CASE \E u \in Users, k \in Calls : SandboxStep(u, k) \/ FilesStep(u, k)
  <2> UNCHANGED <<status, runner, child, phase>>
    BY <1>5 DEF SandboxStep, Admit, AllocAnswered, Reuse, StartCreate, Created, Serve,
                FilesStep, AllocChecked, AllocDone
  <2> QED
    BY <1>1
<1>6. CASE \E u \in Users, a \in Attempts : CleanStep(u, a)
  <2> UNCHANGED <<status, runner, child, phase>>
    BY <1>6 DEF CleanStep, SweepStart, SweepEnd, RemovalStart, RemovalEnd
  <2> QED
    BY <1>1
<1>7. CASE RestartOperations
  BY <1>7, RestartRun
<1>8. CASE RestartSandboxManager \/ RestartFileService
  <2> UNCHANGED <<status, runner, child, phase>>
    BY <1>8 DEF RestartSandboxManager, RestartFileService
  <2> QED
    BY <1>1
<1> QED
  BY <1>1, <1>2, <1>3, <1>4, <1>5, <1>6, <1>7, <1>8 DEF Next, Restart

(* A test without its run() is in no active status and none of its users   *)
(* still waits (EndedSettled).                                             *)
THEOREM EndedIsSettled == Spec => []EndedSettled
<1>1. Init => RunInv
  BY InitRun
<1>2. TypeOK /\ RunInv /\ [Next]_vars => RunInv'
  BY RunInvStep
<1>3. RunInv => EndedSettled
  BY DEF RunInv
<1> QED
  BY <1>1, <1>2, <1>3, LoadTestTypeCorrectness, PTL DEF Spec

----------------------------------------------------------------------------
(* The invariant behind CleanedGone, for a user u: once its cleanup began, *)
(* it stays begun; each step of the cleanup that was answered left nothing *)
(* of u, and no request on its way can bring something back.               *)
Begun(u) == storage[u] \in {"cleaning", "cleaned"}

(* No request of u holds the sandbox or will be admitted to it. *)
Quiet(u) == \A k \in Calls : call[u][k] \in {"none", "sent", "ok", "error"}

Swept(u) ==
  /\ Quiet(u) /\ ~routes[u]
  /\ dockerFaults = 0 => ~container[u] /\ row[u] = "none"

StorageInv(u) ==
  /\ Begun(u) => status[TestOf[u]] # "none"
  /\ cleaner[TestOf[u]] # "idle" => Begun(u) /\ attempt[TestOf[u]] \in Attempts

SweepInv(u) ==
  /\ dockerFaults = 0 /\ container[u] => row[u] = "known"
  /\ \A a \in Attempts :
       /\ sweep[u][a] # "none" => Begun(u)
       /\ sweep[u][a] = "removing" => Quiet(u)
       /\ sweep[u][a] = "ok" => Swept(u)

RemovalInv(u) ==
  /\ \A a \in Attempts :
       /\ removal[u][a] # "none" => Begun(u) /\ Swept(u)
       /\ removal[u][a] = "removing" => receipt[u] # "none"
       /\ removal[u][a] = "ok" => receipt[u] = "done"
  /\ receipt[u] # "none" => Begun(u) /\ \A k \in Calls : alloc[u][k] # "checked"
  /\ receipt[u] = "done" => ~directory[u]

CleanedInv(u) == storage[u] = "cleaned" => receipt[u] = "done" /\ Swept(u)

UserInv(u) == StorageInv(u) /\ SweepInv(u) /\ RemovalInv(u) /\ CleanedInv(u)
CleanInv == \A u \in Users : UserInv(u)

LEMMA InitClean == Init => CleanInv
  BY LoadTestAssumption
  DEF Init, CleanInv, UserInv, StorageInv, SweepInv, RemovalInv, CleanedInv, Begun

(* Steps that leave what is cleaned of v alone: v keeps its state, but for *)
(* requests sent to it; its test keeps its cleanup, or loses it.           *)
TestKept(t) ==
  /\ status'[t] = "none" => status[t] = "none"
  /\ cleaner'[t] # "idle" => cleaner[t] # "idle" /\ attempt'[t] = attempt[t]
SweptKept(v) ==
  /\ \A k \in Calls : call'[v][k] \in {call[v][k], "sent"}
  /\ UNCHANGED <<container[v], row[v], routes[v]>> /\ (dockerFaults' = 0 => dockerFaults = 0)
FilesKept(v) ==
  UNCHANGED <<alloc[v], removal[v], receipt[v], directory[v]>>

LEMMA SweptStays == ASSUME NEW v \in Users, Swept(v), SweptKept(v) PROVE Swept(v)'
  BY DEF Swept, SweptKept, Quiet

LEMMA UserKept ==
  ASSUME CleanInv, NEW v \in Users, TestKept(TestOf[v]), SweptKept(v), FilesKept(v),
         UNCHANGED <<storage[v], sweep[v]>>
  PROVE  UserInv(v)'
<1>0. UserInv(v)
  BY DEF CleanInv
<1>1. (Begun(v)' <=> Begun(v)) /\ (Quiet(v) => Quiet(v)')
  BY DEF Begun, Quiet, SweptKept
<1>2. StorageInv(v)'
  BY <1>0, <1>1 DEF UserInv, StorageInv, TestKept
<1>3. SweepInv(v)'
  BY <1>0, <1>1, SweptStays DEF UserInv, SweepInv, SweptKept
<1>4. RemovalInv(v)'
  BY <1>0, <1>1, SweptStays DEF UserInv, RemovalInv, FilesKept
<1>5. CleanedInv(v)'
  BY <1>0, SweptStays DEF UserInv, CleanedInv, FilesKept
<1> QED
  BY <1>2, <1>3, <1>4, <1>5 DEF UserInv

(* operations runs its tests: requests are sent, the cleanup is not touched. *)
LEMMA RunClean ==
  ASSUME TypeOK, CleanInv, NEW t \in Tests, Cancel(t) \/ RunStep(t) PROVE CleanInv'
<1>1. /\ UNCHANGED <<storage, cleaner, attempt, container, row, routes, sweep, dockerFaults, files>>
      /\ \E st \in {"preparing", "running", "failed", "completed", "completed_with_errors",
                    "cancelled", "cancelling"} : status' \in {status, [status EXCEPT ![t] = st]}
  BY DEF Cancel, RunStep, Begin, Refreshed, Prepare, Prepared, Blocked, Generate, Generated,
         Deliver, Unwound, SetStatus
<1>2. ASSUME NEW v \in Users, NEW k \in Calls PROVE call'[v][k] \in {call[v][k], "sent"}
  <2>1. CASE Prepare(t)
    BY <2>1 DEF Prepare, Launch, For, TypeOK
  <2>2. CASE Generate(t)
    <3>1. \/ call' = call
          \/ \E T \in SUBSET Users : call' =
               [w \in Users |-> IF w \in T THEN [call[w] EXCEPT !["message"] = "sent"] ELSE call[w]]
      <4>1. CASE {w \in UsersOf(t) : phase[w] = "ready"} = {}
        BY <2>2, <4>1 DEF Generate
      <4>2. CASE {w \in UsersOf(t) : phase[w] = "ready"} # {}
        BY <2>2, <4>2 DEF Generate, Launch, For, UsersOf
      <4> QED
        BY <4>1, <4>2
    <3>2. CASE call' = call
      BY <3>2
    <3>3. CASE call' # call
      <4>1. PICK T \in SUBSET Users : call' =
              [w \in Users |-> IF w \in T THEN [call[w] EXCEPT !["message"] = "sent"] ELSE call[w]]
        BY <3>1, <3>3
      <4>2. call'[v] \in {call[v], [call[v] EXCEPT !["message"] = "sent"]}
        BY <4>1
      <4> QED
        BY <4>2, FunctionTypes
    <3> QED
      BY <3>2, <3>3
  <2>3. CASE Deliver(t)
    BY <2>3 DEF Deliver, For, TypeOK
  <2>4. CASE ~(Prepare(t) \/ Generate(t) \/ Deliver(t))
    BY <2>4 DEF Cancel, RunStep, Begin, Refreshed, Prepared, Blocked, Generated, Unwound
  <2> QED
    BY <2>1, <2>2, <2>3, <2>4
<1>3. ASSUME NEW v \in Users PROVE UserInv(v)'
  <2>1. TestKept(TestOf[v])
    BY <1>1, LoadTestAssumption DEF TestKept, TypeOK
  <2>2. SweptKept(v) /\ FilesKept(v)
    BY <1>1, <1>2 DEF SweptKept, FilesKept
  <2> QED
    BY <1>1, <2>1, <2>2, UserKept
<1> QED
  BY <1>3 DEF CleanInv

LEMMA ChildClean == ASSUME TypeOK, CleanInv, NEW u \in Users, ChildStep(u) PROVE CleanInv'
<1>1. /\ UNCHANGED <<status, storage, cleaner, attempt, container, row, routes, sweep,
                     dockerFaults, files>>
      /\ call' \in {call, [call EXCEPT ![u]["abort"] = "sent"]}
  BY DEF ChildStep, SessionAnswered, PrepareTimeout, MessageAnswered, MessageFailed,
         GenerateTimeout, Aborted, Abort, Call, ChildUnchanged
<1>2. ASSUME NEW v \in Users PROVE UserInv(v)'
  <2>1. TestKept(TestOf[v]) /\ FilesKept(v)
    BY <1>1 DEF TestKept, FilesKept
  <2>2. SweptKept(v)
    <3>1. \A k \in Calls : call'[v][k] \in {call[v][k], "sent"}
      <4>1. CASE call' = call
        BY <4>1
      <4>2. CASE call' = [call EXCEPT ![u]["abort"] = "sent"]
        BY <4>2 DEF TypeOK
      <4> QED
        BY <1>1, <4>1, <4>2
    <3> QED
      BY <1>1, <3>1 DEF SweptKept
  <2> QED
    BY <1>1, <2>1, <2>2, UserKept
<1> QED
  BY <1>2 DEF CleanInv

(* A test is started once: no cleanup of its users has begun. *)
LEMMA StartClean == ASSUME TypeOK, CleanInv, NEW t \in Tests, Start(t) PROVE CleanInv'
<1>1. /\ status[t] = "none" /\ status' = [status EXCEPT ![t] = "queued"]
      /\ UNCHANGED <<cleaner, attempt, sandbox, files>>
      /\ \A v \in Users : storage'[v] = IF TestOf[v] = t THEN "retained" ELSE storage[v]
  BY DEF Start, Admissible, CreateRows, SetStatus, For, UsersOf
<1>2. ASSUME NEW v \in Users PROVE UserInv(v)'
  <2>1. TestKept(TestOf[v]) /\ FilesKept(v) /\ SweptKept(v)
    BY <1>1, LoadTestAssumption DEF TestKept, FilesKept, SweptKept, TypeOK
  <2>2. CASE TestOf[v] # t
    BY <1>1, <2>1, <2>2, UserKept
  <2>3. CASE TestOf[v] = t
    <3>1. UserInv(v) /\ ~Begun(v) /\ ~Begun(v)' /\ cleaner[t] = "idle"
      BY <1>1, <2>3 DEF CleanInv, UserInv, StorageInv, Begun
    <3> QED
      BY <1>1, <2>3, <3>1
      DEF UserInv, StorageInv, SweepInv, RemovalInv, CleanedInv, Begun
  <2> QED
    BY <2>2, <2>3
<1> QED
  BY <1>2 DEF CleanInv

(* sandbox_manager serves a request of u: once u is swept or being swept,  *)
(* only to refuse it.                                                      *)
LEMMA SandboxClean ==
  ASSUME TypeOK, CleanInv, NEW u \in Users, NEW k \in Calls, SandboxStep(u, k) PROVE CleanInv'
<1>1. /\ UNCHANGED <<status, storage, cleaner, attempt, sweep, removal, receipt, directory>>
      /\ dockerFaults' = 0 => dockerFaults = 0
      /\ \E pc \in CallPC : call' \in {call, [call EXCEPT ![u][k] = pc]}
      /\ alloc' \in {alloc, [alloc EXCEPT ![u][k] = "queued"]}
  BY LoadTestAssumption
  DEF SandboxStep, Admit, AllocAnswered, Reuse, StartCreate, Created, Serve, Call, Alloc,
      CallPC, TypeOK
<1>2. \A v \in Users \ {u} : UNCHANGED <<container[v], row[v], routes[v]>>
  BY DEF SandboxStep, Admit, AllocAnswered, Reuse, StartCreate, Created, Serve, TypeOK
<1>3. ASSUME NEW v \in Users, v # u PROVE UserInv(v)'
  <2>1. TestKept(TestOf[v]) /\ SweptKept(v) /\ FilesKept(v)
    BY <1>1, <1>2, <1>3 DEF TestKept, SweptKept, FilesKept, TypeOK
  <2> QED
    BY <1>1, <2>1, UserKept
<1>4. UserInv(u)
  BY DEF CleanInv
<1>5. Quiet(u) /\ Begun(u) => call' = [call EXCEPT ![u][k] = "error"]
                              /\ UNCHANGED <<container, row, routes, alloc>>
  BY DEF Quiet, Begun, SandboxStep, Admit, AllocAnswered, Reuse, StartCreate, Created, Serve, Call,
         Admission, Retained, TypeOK
<1>6. Quiet(u) /\ Begun(u) => Quiet(u)'
  <2> SUFFICES ASSUME Quiet(u), Begun(u), NEW j \in Calls
               PROVE  call'[u][j] \in {"none", "sent", "ok", "error"}
    BY DEF Quiet
  <2>1. call' = [call EXCEPT ![u][k] = "error"] /\ call[u] \in [Calls -> CallPC]
    BY <1>5, FunctionTypes
  <2>2. call'[u][j] = IF j = k THEN "error" ELSE call[u][j]
    BY <2>1, FunctionTypes
  <2> QED
    BY <2>2 DEF Quiet
<1>7. Swept(u) /\ Begun(u) => Swept(u)'
  BY <1>1, <1>5, <1>6 DEF Swept
<1>8. dockerFaults' = 0 /\ container'[u] => row'[u] = "known"
  BY <1>4, LoadTestAssumption
  DEF UserInv, SweepInv, SandboxStep, Admit, AllocAnswered, Reuse, StartCreate, Created, Serve, TypeOK
<1>9. \A j \in Calls : alloc'[u][j] = "checked" => alloc[u][j] = "checked"
  BY <1>1 DEF TypeOK
<1>10. UserInv(u)'
  <2>1. StorageInv(u)'
    BY <1>1, <1>4 DEF UserInv, StorageInv, Begun
  <2>2. SweepInv(u)'
    BY <1>1, <1>4, <1>6, <1>7, <1>8 DEF UserInv, SweepInv, Begun
  <2>3. RemovalInv(u)'
    BY <1>1, <1>4, <1>7, <1>9 DEF UserInv, RemovalInv, Begun
  <2>4. CleanedInv(u)'
    BY <1>1, <1>4, <1>7 DEF UserInv, CleanedInv, Begun
  <2> QED
    BY <2>1, <2>2, <2>3, <2>4 DEF UserInv
<1> QED
  BY <1>3, <1>10 DEF CleanInv

(* file_service allocates: never for a user whose receipt exists. *)
LEMMA FilesClean ==
  ASSUME TypeOK, CleanInv, NEW u \in Users, NEW k \in Calls, FilesStep(u, k) PROVE CleanInv'
<1>1. /\ UNCHANGED <<status, storage, cleaner, attempt, sandbox, removal, receipt>>
      /\ \A v \in Users \ {u} : UNCHANGED <<alloc[v], directory[v]>>
  BY DEF FilesStep, AllocChecked, AllocDone, Alloc, Allocated, TypeOK
<1>2. ASSUME NEW v \in Users, v # u PROVE UserInv(v)'
  <2>1. TestKept(TestOf[v]) /\ SweptKept(v) /\ FilesKept(v)
    BY <1>1, <1>2 DEF TestKept, SweptKept, FilesKept
  <2> QED
    BY <1>1, <2>1, UserKept
<1>3. UserInv(u) /\ SweptKept(u)
  BY <1>1 DEF CleanInv, SweptKept
<1>4. receipt[u] # "none" => directory' = directory /\ \A j \in Calls : alloc'[u][j] # "checked"
  BY <1>3 DEF UserInv, RemovalInv, Begun, FilesStep, AllocChecked, AllocDone, Alloc, Retained, TypeOK
<1>5. UserInv(u)'
  BY <1>1, <1>3, <1>4, SweptStays
  DEF UserInv, StorageInv, SweepInv, RemovalInv, CleanedInv, Begun, Quiet
<1> QED
  BY <1>2, <1>5 DEF CleanInv

(* sandbox_manager cleans up after u. *)
LEMMA SweepClean ==
  ASSUME TypeOK, CleanInv, NEW u \in Users, NEW a \in Attempts, SweepStart(u, a) \/ SweepEnd(u, a)
  PROVE  CleanInv'
<1>1. /\ UNCHANGED <<status, storage, cleaner, attempt, call, dockerFaults, files>>
      /\ \E pc \in CleanPC : sweep' = [sweep EXCEPT ![u][a] = pc]
      /\ \A v \in Users \ {u} : UNCHANGED <<container[v], row[v], routes[v]>>
  BY DEF SweepStart, SweepEnd, Sweep, CleanPC, TypeOK
<1>2. ASSUME NEW v \in Users, v # u PROVE UserInv(v)'
  <2>1. TestKept(TestOf[v]) /\ SweptKept(v) /\ FilesKept(v) /\ UNCHANGED <<storage[v], sweep[v]>>
    BY <1>1, <1>2 DEF TestKept, SweptKept, FilesKept, TypeOK
  <2> QED
    BY <2>1, UserKept
<1>3. UserInv(u) /\ Begun(u) /\ (Quiet(u)' <=> Quiet(u)) /\ (Begun(u)' <=> Begun(u))
  BY <1>1 DEF CleanInv, UserInv, SweepInv, Begun, Quiet, SweepStart, SweepEnd
<1>4. Quiet(u) \/ sweep'[u][a] = "error"
  <2>1. CASE SweepStart(u, a)
    <3>1. CASE Leased(u)
      BY <2>1, <3>1 DEF SweepStart, Sweep, TypeOK
    <3>2. CASE ~Leased(u)
      BY <2>1, <3>2 DEF SweepStart, SweepEnters, UserLocked, Leased, Quiet, TypeOK
    <3> QED
      BY <3>1, <3>2
  <2>2. CASE SweepEnd(u, a)
    BY <1>3, <2>2 DEF SweepEnd, UserInv, SweepInv
  <2> QED
    BY <2>1, <2>2
<1>5. \A b \in Attempts \ {a} : sweep'[u][b] = sweep[u][b]
  BY <1>1 DEF TypeOK
<1>6. Swept(u) => Swept(u)'
  BY <1>1, <1>3 DEF Swept, SweepStart, SweepEnd, TypeOK
<1>7. sweep'[u][a] = "ok" => Swept(u)'
  <2>1. CASE SweepStart(u, a)
    BY <1>1, <2>1 DEF SweepStart, Sweep, TypeOK
  <2>2. CASE SweepEnd(u, a)
    <3>1. CASE sweep' = [sweep EXCEPT ![u][a] = "error"]
      BY <3>1 DEF TypeOK
    <3>2. CASE /\ container' = [container EXCEPT ![u] = @ /\ row[u] # "known"]
               /\ row' = [row EXCEPT ![u] = "none"] /\ routes' = [routes EXCEPT ![u] = FALSE]
      <4>1. row'[u] = "none" /\ ~routes'[u] /\ (container'[u] => container[u] /\ row[u] # "known")
        BY <3>2, FunctionTypes
      <4>2. Quiet(u)' /\ (dockerFaults = 0 /\ container[u] => row[u] = "known")
        BY <1>3, <2>2 DEF SweepEnd, UserInv, SweepInv
      <4> QED
        BY <1>1, <4>1, <4>2 DEF Swept
    <3> QED
      BY <2>2, <3>1, <3>2 DEF SweepEnd, Sweep
  <2> QED
    BY <2>1, <2>2
<1>8. dockerFaults' = 0 /\ container'[u] => row'[u] = "known"
  <2>1. CASE UNCHANGED <<container, row>>
    BY <1>1, <1>3, <2>1 DEF UserInv, SweepInv
  <2>2. CASE container' = [container EXCEPT ![u] = @ /\ row[u] # "known"]
    <3>1. container'[u] => container[u] /\ row[u] # "known"
      BY <2>2, FunctionTypes
    <3> QED
      BY <1>1, <1>3, <3>1 DEF UserInv, SweepInv
  <2> QED
    BY <2>1, <2>2 DEF SweepStart, SweepEnd
<1>9. UserInv(u)'
  <2>1. StorageInv(u)'
    BY <1>1, <1>3 DEF UserInv, StorageInv
  <2>2. SweepInv(u)'
    BY <1>3, <1>4, <1>5, <1>6, <1>7, <1>8 DEF UserInv, SweepInv
  <2>3. RemovalInv(u)'
    BY <1>1, <1>3, <1>6 DEF UserInv, RemovalInv
  <2>4. CleanedInv(u)'
    BY <1>1, <1>3, <1>6 DEF UserInv, CleanedInv
  <2> QED
    BY <2>1, <2>2, <2>3, <2>4 DEF UserInv
<1> QED
  BY <1>2, <1>9 DEF CleanInv

(* file_service removes the files of u: once the receipt is done they are gone. *)
LEMMA RemovalClean ==
  ASSUME TypeOK, CleanInv, NEW u \in Users, NEW a \in Attempts,
         RemovalStart(u, a) \/ RemovalEnd(u, a)
  PROVE  CleanInv'
<1>1. /\ UNCHANGED <<status, storage, cleaner, attempt, sandbox, alloc>>
      /\ \A v \in Users \ {u} : UNCHANGED <<removal[v], receipt[v], directory[v]>>
  BY DEF RemovalStart, RemovalEnd, Removal, TypeOK
<1>2. ASSUME NEW v \in Users, v # u PROVE UserInv(v)'
  <2>1. TestKept(TestOf[v]) /\ SweptKept(v) /\ FilesKept(v) /\ UNCHANGED <<storage[v], sweep[v]>>
    BY <1>1, <1>2 DEF TestKept, SweptKept, FilesKept
  <2> QED
    BY <2>1, UserKept
<1>3. UserInv(u) /\ Begun(u) /\ Swept(u)
  BY DEF CleanInv, UserInv, RemovalInv, RemovalStart, RemovalEnd
<1>4. (Begun(u)' <=> Begun(u)) /\ Swept(u)' /\ (Quiet(u)' <=> Quiet(u))
  BY <1>1, <1>3 DEF Begun, Swept, Quiet
<1>5. \A b \in Attempts \ {a} : removal'[u][b] = removal[u][b]
  BY DEF RemovalStart, RemovalEnd, Removal, TypeOK
<1>6. receipt'[u] # "none" => \A k \in Calls : alloc[u][k] # "checked"
  BY <1>3 DEF RemovalStart, RemovalEnd, Guarded, UserInv, RemovalInv, TypeOK
<1>7. receipt[u] = "done" => receipt'[u] = "done"
  BY <1>3 DEF RemovalStart, RemovalEnd, UserInv, RemovalInv, TypeOK
<1>8. /\ receipt[u] # "none" => receipt'[u] # "none"
      /\ receipt'[u] = "done" => ~directory'[u]
      /\ removal'[u][a] = "removing" => receipt'[u] # "none"
      /\ removal'[u][a] = "ok" => receipt'[u] = "done"
  BY <1>3 DEF RemovalStart, RemovalEnd, Removal, UserInv, RemovalInv, TypeOK
<1>9. UserInv(u)'
  <2>1. StorageInv(u)'
    BY <1>1, <1>3, <1>4 DEF UserInv, StorageInv
  <2>2. SweepInv(u)'
    BY <1>1, <1>3, <1>4 DEF UserInv, SweepInv
  <2>3. RemovalInv(u)'
    BY <1>1, <1>3, <1>4, <1>5, <1>6, <1>7, <1>8 DEF UserInv, RemovalInv
  <2>4. CleanedInv(u)'
    BY <1>1, <1>3, <1>4, <1>7 DEF UserInv, CleanedInv
  <2> QED
    BY <2>1, <2>2, <2>3, <2>4 DEF UserInv
<1> QED
  BY <1>2, <1>9 DEF CleanInv

(* operations asks for the cleanup of a test, and of its users one by one. *)
LEMMA CleanupClean == ASSUME TypeOK, CleanInv, NEW t \in Tests, Cleanup(t) PROVE CleanInv'
<1>1. /\ status[t] # "none" /\ attempt[t] < MaxCleanups /\ UNCHANGED <<status, sandbox, files>>
      /\ cleaner' = [cleaner EXCEPT ![t] = "lock"] /\ attempt' = [attempt EXCEPT ![t] = @ + 1]
  BY DEF Cleanup, CleanerTo
<1>2. ASSUME NEW v \in Users
      PROVE  storage'[v] = IF TestOf[v] = t /\ storage[v] # "cleaned" THEN "cleaning" ELSE storage[v]
  BY DEF Cleanup, For, UsersOf
<1>3. attempt'[t] \in Attempts
  BY <1>1, LoadTestAssumption DEF Attempts, TypeOK
<1>4. ASSUME NEW v \in Users PROVE UserInv(v)'
  <2>1. UserInv(v) /\ SweptKept(v) /\ FilesKept(v)
    BY <1>1 DEF CleanInv, SweptKept, FilesKept
  <2>2. CASE TestOf[v] # t
    <3>1. TestKept(TestOf[v])
      BY <1>1, <2>2, LoadTestAssumption DEF TestKept, TypeOK
    <3> QED
      BY <1>1, <1>2, <2>1, <2>2, <3>1, UserKept
  <2>3. CASE TestOf[v] = t
    <3>1. Begun(v)' /\ (storage'[v] = "cleaned" <=> storage[v] = "cleaned") /\ (Quiet(v)' <=> Quiet(v))
      BY <1>1, <1>2, <2>3 DEF Begun, Quiet
    <3> QED
      BY <1>1, <1>3, <2>1, <2>3, <3>1, SweptStays
      DEF UserInv, StorageInv, SweepInv, RemovalInv, CleanedInv
  <2> QED
    BY <2>2, <2>3
<1> QED
  BY <1>4 DEF CleanInv

LEMMA CleanerClean == ASSUME TypeOK, CleanInv, NEW t \in Tests, CleanerStep(t) PROVE CleanInv'
<1>1. /\ cleaner[t] # "idle" /\ \E pc : cleaner' = [cleaner EXCEPT ![t] = pc]
      /\ UNCHANGED <<status, attempt, call, container, row, routes, dockerFaults,
                     alloc, receipt, directory>>
  BY DEF CleanerStep, CleanerLocked, CleanSandbox, CleanFiles, UserCleaned, TestCleaned,
         CleanupFails, CleanerTo
<1>2. ASSUME NEW v \in Users PROVE TestKept(TestOf[v]) /\ SweptKept(v)
  BY <1>1, LoadTestAssumption DEF TestKept, SweptKept, TypeOK
<1>3. ASSUME NEW v \in Users, UNCHANGED <<storage[v], sweep[v], removal[v]>> PROVE UserInv(v)'
  BY <1>1, <1>2, <1>3, UserKept DEF FilesKept
<1>4. ASSUME NEW v \in Users, TestOf[v] = t
      PROVE  UserInv(v) /\ StorageInv(v) /\ Begun(v) /\ attempt[t] \in Attempts
  BY <1>1, <1>4 DEF CleanInv, UserInv, StorageInv
<1>5. CASE UNCHANGED <<storage, sweep, removal>>
  BY <1>3, <1>5 DEF CleanInv
<1>6. CASE CleanSandbox(t)
  <2>1. PICK u \in UsersOf(t) : sweep' = [sweep EXCEPT ![u][attempt[t]] = "queued"]
    BY <1>6 DEF CleanSandbox, Sweep
  <2>2. u \in Users /\ TestOf[u] = t /\ UNCHANGED <<storage, removal>>
    BY <1>6 DEF CleanSandbox, UsersOf
  <2>3. \A v \in Users \ {u} : sweep'[v] = sweep[v]
    BY <2>1, FunctionTypes
  <2>4. \A a \in Attempts : sweep'[u][a] \in {sweep[u][a], "queued"}
    BY <1>4, <2>1, <2>2, FunctionTypes
  <2>5. UserInv(u)'
    BY <1>1, <1>2, <1>4, <2>2, <2>4, SweptStays
    DEF UserInv, StorageInv, SweepInv, RemovalInv, CleanedInv, Begun, Quiet, TestKept
  <2> QED
    BY <1>3, <2>2, <2>3, <2>5 DEF CleanInv
<1>7. CASE CleanFiles(t)
  <2>1. PICK u \in UsersOf(t) : /\ sweep[u][attempt[t]] = "ok"
                                /\ removal' = [removal EXCEPT ![u][attempt[t]] = "queued"]
    BY <1>7 DEF CleanFiles, Removal
  <2>2. u \in Users /\ TestOf[u] = t /\ UNCHANGED <<storage, sweep>>
    BY <1>7 DEF CleanFiles, UsersOf
  <2>3. \A v \in Users \ {u} : removal'[v] = removal[v]
    BY <2>1, FunctionTypes
  <2>4. \A a \in Attempts : \/ removal'[u][a] = removal[u][a]
                            \/ a = attempt[t] /\ removal'[u][a] = "queued"
    BY <1>4, <2>1, <2>2, FunctionTypes
  <2>5. Swept(u)
    BY <1>4, <2>1, <2>2 DEF UserInv, SweepInv
  <2>6. UserInv(u)'
    BY <1>1, <1>2, <1>4, <2>2, <2>4, <2>5, SweptStays
    DEF UserInv, StorageInv, SweepInv, RemovalInv, CleanedInv, Begun, Quiet, TestKept
  <2> QED
    BY <1>3, <2>2, <2>3, <2>6 DEF CleanInv
<1>8. CASE UserCleaned(t)
  <2>1. PICK u \in UsersOf(t) : /\ removal[u][attempt[t]] = "ok"
                                /\ storage' = [storage EXCEPT ![u] = "cleaned"]
    BY <1>8 DEF UserCleaned
  <2>2. u \in Users /\ TestOf[u] = t /\ UNCHANGED <<sweep, removal>>
    BY <1>8 DEF UserCleaned, UsersOf
  <2>3. storage'[u] = "cleaned" /\ \A v \in Users \ {u} : storage'[v] = storage[v]
    BY <2>1, <2>2 DEF TypeOK
  <2>4. receipt[u] = "done" /\ Swept(u)
    BY <1>4, <2>1, <2>2 DEF UserInv, RemovalInv
  <2>5. UserInv(u)'
    BY <1>1, <1>2, <1>4, <2>2, <2>3, <2>4, SweptStays
    DEF UserInv, StorageInv, SweepInv, RemovalInv, CleanedInv, Begun, Quiet, TestKept
  <2> QED
    BY <1>3, <2>2, <2>3, <2>5 DEF CleanInv
<1>9. CASE CleanerLocked(t) \/ TestCleaned(t) \/ CleanupFails(t)
  BY <1>5, <1>9 DEF CleanerLocked, TestCleaned, CleanupFails
<1> QED
  BY <1>6, <1>7, <1>8, <1>9 DEF CleanerStep

LEMMA RestartClean == ASSUME TypeOK, CleanInv, Restart PROVE CleanInv'
<1>1. CASE RestartOperations
  <2>1. /\ \A t \in Tests : status'[t] = "none" => status[t] = "none"
        /\ cleaner' = [t \in Tests |-> "idle"]
        /\ UNCHANGED <<storage, sandbox, files>>
    BY <1>1 DEF RestartOperations
  <2>2. ASSUME NEW v \in Users
        PROVE  TestKept(TestOf[v]) /\ SweptKept(v) /\ FilesKept(v)
               /\ UNCHANGED <<storage[v], sweep[v]>>
    BY <2>1, LoadTestAssumption DEF TestKept, SweptKept, FilesKept
  <2> QED
    BY <2>2, UserKept DEF CleanInv
<1>2. CASE RestartSandboxManager
  <2> SUFFICES ASSUME NEW v \in Users PROVE UserInv(v)'
    BY DEF CleanInv
  <2>1. UserInv(v) /\ UNCHANGED <<tests, users, tasks, routes, dockerFaults, files>>
    BY <1>2 DEF CleanInv, RestartSandboxManager
  <2>2. /\ \/ container'[v] = container[v]
           \/ container'[v] /\ \E k \in Calls : call[v][k] = "creating"
           \/ ~container'[v]
        /\ row'[v] = IF container'[v] THEN "known" ELSE row[v]
    BY <1>2 DEF RestartSandboxManager
  <2>3. /\ \A k \in Calls : call'[v][k] = IF call[v][k] \in {"none", "ok"} THEN call[v][k]
                                                                           ELSE "error"
        /\ \A a \in Attempts : sweep'[v][a] = IF sweep[v][a] \in {"none", "ok"} THEN sweep[v][a]
                                                                               ELSE "error"
    BY <1>2 DEF RestartSandboxManager
  <2>4. Quiet(v)' /\ (Begun(v)' <=> Begun(v))
    BY <2>1, <2>3 DEF Quiet, Begun
  <2>5. Swept(v) => Swept(v)'
    BY <2>1, <2>2, <2>4, FunctionTypes DEF Swept, Quiet
  <2> QED
    BY <2>1, <2>2, <2>3, <2>4, <2>5
    DEF UserInv, StorageInv, SweepInv, RemovalInv, CleanedInv
<1>3. CASE RestartFileService
  <2> SUFFICES ASSUME NEW v \in Users PROVE UserInv(v)'
    BY DEF CleanInv
  <2>1. UserInv(v) /\ UNCHANGED <<tests, users, tasks, sandbox, receipt>>
    BY <1>3 DEF CleanInv, RestartFileService
  <2>2. directory'[v] = directory[v] \/ ~directory'[v]
    BY <1>3 DEF RestartFileService
  <2>3. /\ \A k \in Calls : alloc'[v][k] \in {alloc[v][k], "refused"}
        /\ \A a \in Attempts : removal'[v][a] = IF removal[v][a] \in {"none", "ok"}
                                                  THEN removal[v][a] ELSE "error"
    BY <1>3 DEF RestartFileService
  <2>4. (Begun(v)' <=> Begun(v)) /\ (Swept(v)' <=> Swept(v)) /\ (Quiet(v)' <=> Quiet(v))
    BY <2>1 DEF Begun, Swept, Quiet
  <2> QED
    BY <2>1, <2>2, <2>3, <2>4 DEF UserInv, StorageInv, SweepInv, RemovalInv, CleanedInv
<1> QED
  BY <1>1, <1>2, <1>3 DEF Restart

LEMMA CleanInvStep == ASSUME TypeOK, CleanInv, [Next]_vars PROVE CleanInv'
<1>1. CASE \E t \in Tests :
             Start(t) \/ Cancel(t) \/ Cleanup(t) \/ RunStep(t) \/ CleanerStep(t)
  BY <1>1, StartClean, RunClean, CleanupClean, CleanerClean
<1>2. CASE \E u \in Users : ChildStep(u)
  BY <1>2, ChildClean
<1>3. CASE \E u \in Users, k \in Calls : SandboxStep(u, k) \/ FilesStep(u, k)
  BY <1>3, SandboxClean, FilesClean
<1>4. CASE \E u \in Users, a \in Attempts : CleanStep(u, a)
  BY <1>4, SweepClean, RemovalClean DEF CleanStep
<1>5. CASE Restart
  BY <1>5, RestartClean
<1>6. CASE UNCHANGED vars
  BY <1>6 DEF CleanInv, UserInv, StorageInv, SweepInv, RemovalInv, CleanedInv, Begun, Swept, Quiet
<1> QED
  BY <1>1, <1>2, <1>3, <1>4, <1>5, <1>6 DEF Next

(* The cleanup of a user leaves nothing behind that can come back.         *)
THEOREM CleanupInvariance == Spec => []CleanInv
<1>1. Init => CleanInv
  BY InitClean
<1>2. TypeOK /\ CleanInv /\ [Next]_vars => CleanInv'
  BY CleanInvStep
<1> QED
  BY <1>1, <1>2, LoadTestTypeCorrectness, PTL DEF Spec

(* Nothing of a cleaned user comes back, whatever request or allocation is *)
(* late (CleanedGone).                                                     *)
THEOREM NothingOfACleanedUser == Spec => []CleanedGone
<1>1. CleanInv => CleanedGone
  BY DEF CleanInv, UserInv, RemovalInv, CleanedInv, Swept, CleanedGone
<1> QED
  BY <1>1, CleanupInvariance, PTL
=============================================================================
