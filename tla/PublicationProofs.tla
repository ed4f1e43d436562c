------------------------- MODULE PublicationProofs -------------------------
(***************************************************************************)
(* Proofs about Publication, for every set of jobs, tasks, drafts and      *)
(* clients and every bound: a publication's steps are steps of the job     *)
(* table, a version is staged only behind the block and the drain, no      *)
(* request is served by an uncommitted one, and a publication that         *)
(* succeeded is committed.                                                 *)
(***************************************************************************)
EXTENDS Publication, JobStoreProofs, SequenceTheorems, FiniteSetTheorems

USE DEF rows, control, loads, history, vars, catalog, sandbox, bounds, rest, pubVars

----------------------------------------------------------------------------
(* Publication implements JobStore *)

LEMMA ReconcileRefines ==
  ASSUME NEW j \in Jobs, RecBegin(j) \/ Reconcile(j) PROVE [Next]_vars
<1>1. CASE RecBegin(j)
  BY <1>1 DEF RecBegin, Next
<1>2. CASE RecCheck(j)
  BY <1>2 DEF RecCheck, CallResume, RecNext, RecFail, Next
<1>3. CASE RecObserve(j)
  BY <1>3 DEF RecObserve, RecNext, RecFail, Next
<1>4. CASE RecCommit(j)
  BY <1>4 DEF RecCommit, CallResume, RecFail, Next
<1>5. CASE RecEnd(j)
  BY <1>5 DEF RecEnd, RecFail, Next
<1> QED
  BY <1>1, <1>2, <1>3, <1>4, <1>5 DEF Reconcile

LEMMA StepRefines ==
  ASSUME [PubNext]_pubVars PROVE [Next]_vars
<1>1. CASE OperationsStep
  BY <1>1 DEF OperationsStep, Operations, Next
<1>2. CASE SandboxStep \/ SandboxCrash
  BY <1>2 DEF SandboxStep, SandboxCrash, Block, DrainTimeOut, Quiesced, Apply, Verify, Resume
<1>3. ASSUME NEW w \in Workers, WorkerAnswered(w) \/ WorkerFailed(w) PROVE [Next]_vars
  BY <1>3 DEF WorkerAnswered, WorkerFailed, Step, Next
<1>4. ASSUME NEW x \in Callers, TimeOut(x) \/ Lose(x) PROVE UNCHANGED vars
  BY <1>4 DEF TimeOut, Lose
<1>5. ASSUME NEW j \in Jobs, CommitRun(j) PROVE UNCHANGED vars
  BY <1>5 DEF CommitRun
<1>6. ASSUME NEW c \in Clients, Admit(c) \/ EndRequest(c) PROVE UNCHANGED vars
  BY <1>6 DEF Admit, EndRequest
<1>7. CASE UNCHANGED pubVars
  BY <1>7
<1> QED
  BY <1>1, <1>2, <1>3, <1>4, <1>5, <1>6, <1>7, ReconcileRefines DEF PubNext

(* The composition of the three services implements the job table: what is *)
(* proved of the table holds of publications too, whatever the calls do.   *)
THEOREM PublicationImplementsJobStore == PubSpec => Spec
<1>1. PubInit => Init
  BY DEF PubInit
<1>2. [PubNext]_pubVars => [Next]_vars
  BY StepRefines
<1> QED
  BY <1>1, <1>2, PTL DEF PubSpec, Spec

----------------------------------------------------------------------------
(* The inductive invariant *)

Data == Contents \cup {NoContent}
CommandSet == [by : Callers \cup {Nobody}, job : Jobs, op : Commands]
ReleaseSet == [n : Nat, c : Data, old : Nat, prev : Nat]

(* What has to be known of the shape of the state. *)
Shape ==
  /\ versions \in Seq(Data) /\ versions # <<>>
  /\ release \in [Jobs -> ReleaseSet]
  /\ queue \in Seq(CommandSet)
  /\ serving = [c \in Clients |-> serving[c]]
  /\ blocked \in BOOLEAN

(* While a command drains, the block is set and the command is first. *)
DrainBlocks ==
  draining => blocked /\ queue # <<>> /\ queue[1].op \in {"quiesce", "apply", "compensate"}

PubIInv ==
  Shape /\ DrainBlocks /\ StagedBehindBlock /\ StagedUnderNobody /\ ServedCommitted

LEMMA PubInitInv == ASSUME PubInit PROVE PubIInv
<1>1. PICK c \in Contents : versions = <<c>>
  BY DEF PubInit
<1>2. versions \in Seq(Data) /\ versions # <<>>
  BY <1>1 DEF Data
<1>3. release \in [Jobs -> ReleaseSet]
  BY DEF PubInit, NoRelease, ReleaseSet, Data
<1>4. queue \in Seq(CommandSet)
  BY EmptySeq DEF PubInit
<1> QED
  BY <1>2, <1>3, <1>4
     DEF PubInit, PubIInv, Shape, DrainBlocks, StagedBehindBlock, StagedUnderNobody,
         ServedCommitted

(* Orphaning a command changes neither its operation nor its place. *)
LEMMA OrphanedKeeps ==
  ASSUME NEW X, queue \in Seq(CommandSet)
  PROVE  /\ Orphaned(X) \in Seq(CommandSet)
         /\ Len(Orphaned(X)) = Len(queue)
         /\ \A i \in 1 .. Len(queue) : Orphaned(X)[i].op = queue[i].op
<1>1. Len(queue) \in Nat /\ DOMAIN queue = 1 .. Len(queue)
      /\ \A i \in 1 .. Len(queue) : queue[i] \in CommandSet
  BY LenProperties, ElementOfSeq
<1>2. \A i \in 1 .. Len(queue) : /\ Orphaned(X)[i] \in CommandSet
                                 /\ Orphaned(X)[i].op = queue[i].op
  BY <1>1 DEF Orphaned, CommandSet
<1>3. Orphaned(X) \in [1 .. Len(queue) -> CommandSet]
  BY <1>1, <1>2 DEF Orphaned
<1>4. Orphaned(X) \in Seq(CommandSet)
  BY <1>1, <1>3, SeqDef
<1>5. Len(Orphaned(X)) = Len(queue)
  BY <1>1, <1>3, <1>4, LenProperties
<1> QED
  BY <1>2, <1>4, <1>5

(* The head of the queue stays at the head when commands behind it are     *)
(* added, orphaned or lost.                                                *)
HeadStays ==
  queue # <<>> => queue' # <<>> /\ queue'[1].op = queue[1].op

LEMMA OrphanedHead ==
  ASSUME NEW X, queue \in Seq(CommandSet), queue' = Orphaned(X)
  PROVE  queue' \in Seq(CommandSet) /\ HeadStays
<1>1. CASE queue = <<>>
  BY <1>1, OrphanedKeeps DEF HeadStays
<1>2. CASE queue # <<>>
  BY <1>2, OrphanedKeeps, EmptySeq DEF HeadStays
<1> QED
  BY <1>1, <1>2

LEMMA AppendHead ==
  ASSUME NEW q \in Seq(CommandSet), NEW e \in CommandSet, queue \in Seq(CommandSet),
         Len(q) = Len(queue), \A i \in 1 .. Len(queue) : q[i].op = queue[i].op,
         queue' = Append(q, e)
  PROVE  queue' \in Seq(CommandSet) /\ HeadStays
<1>1. queue' \in Seq(CommandSet) /\ queue' # <<>>
      /\ \A i \in 1 .. Len(q) : queue'[i] = q[i]
  BY AppendProperties
<1>2. queue # <<>> => 1 \in 1 .. Len(queue)
  BY EmptySeq, LenProperties
<1> QED
  BY <1>1, <1>2 DEF HeadStays

LEMMA RemoveHead ==
  ASSUME queue \in Seq(CommandSet), NEW i \in DOMAIN queue, queue' = RemoveAt(queue, i)
  PROVE  queue' \in Seq(CommandSet) /\ (i # 1 => HeadStays)
<1>1. Len(queue) \in Nat /\ DOMAIN queue = 1 .. Len(queue)
      /\ \A k \in 1 .. Len(queue) : queue[k] \in CommandSet
  BY LenProperties, ElementOfSeq
<1> DEFINE a == SubSeq(queue, 1, i - 1)
           b == SubSeq(queue, i + 1, Len(queue))
<1>2. /\ a \in Seq(CommandSet) /\ Len(a) = IF 1 <= i - 1 THEN i - 1 ELSE 0
      /\ \A k \in 1 .. i - 1 : a[k] = queue[k]
  <2>1. i - 1 \in Int /\ 1 \in Int /\ \A k \in 1 .. i - 1 : queue[k] \in CommandSet
    BY <1>1
  <2> HIDE DEF a
  <2>2. /\ a \in Seq(CommandSet) /\ Len(a) = IF 1 <= i - 1 THEN i - 1 - 1 + 1 ELSE 0
        /\ \A k \in 1 .. i - 1 - 1 + 1 : a[k] = queue[1 + k - 1]
    BY <2>1, SubSeqProperties DEF a
  <2> QED
    BY <1>1, <2>2
<1>3. b \in Seq(CommandSet)
  <2>1. i + 1 \in Int /\ Len(queue) \in Int
        /\ \A k \in i + 1 .. Len(queue) : queue[k] \in CommandSet
    BY <1>1
  <2> QED
    BY <2>1, SubSeqProperties
<1>4. queue' = a \o b
  BY DEF RemoveAt
<1> HIDE DEF a, b
<1>5. /\ queue' \in Seq(CommandSet) /\ Len(queue') = Len(a) + Len(b)
      /\ \A k \in 1 .. Len(a) : queue'[k] = a[k]
  <2>1. Len(a) \in Nat /\ Len(b) \in Nat
    BY <1>2, <1>3, LenProperties
  <2>2. /\ a \o b \in Seq(CommandSet) /\ Len(a \o b) = Len(a) + Len(b)
        /\ \A k \in 1 .. Len(a) + Len(b) :
             (a \o b)[k] = IF k <= Len(a) THEN a[k] ELSE b[k - Len(a)]
    BY <1>2, <1>3, ConcatProperties
  <2> QED
    BY <1>4, <2>1, <2>2
<1>6. ASSUME i # 1 PROVE queue' # <<>> /\ queue'[1].op = queue[1].op
  <2>1. 1 \in 1 .. Len(a) /\ 1 \in 1 .. i - 1
    BY <1>1, <1>2, <1>6
  <2>2. Len(queue') # 0
    BY <1>3, <1>5, <2>1, LenProperties
  <2> QED
    BY <1>2, <1>5, <2>1, <2>2, EmptySeq
<1> QED
  BY <1>5, <1>6 DEF HeadStays

(* A worker's call goes behind the commands that wait already. *)
LEMMA SendHead ==
  ASSUME TypeOK', queue \in Seq(CommandSet), NEW w \in Workers, Send(w)
  PROVE  queue' \in Seq(CommandSet) /\ HeadStays
<1> DEFINE pc == worker'[w].pc
           j  == worker'[w].job
<1>1. CASE pc \in Commands
  <2>1. j \in Jobs
    BY <1>1 DEF TypeOK, NoWorker, Commands
  <2>2. Command(w, j, pc) \in CommandSet
    BY <1>1, <2>1 DEF Command, CommandSet, Callers
  <2>3. queue' = Append(Orphaned({w}), Command(w, j, pc))
    BY <1>1 DEF Send
  <2> HIDE DEF pc, j
  <2> QED
    BY <2>2, <2>3, OrphanedKeeps, AppendHead
<1>2. CASE pc \notin Commands
  BY <1>2, OrphanedHead DEF Send
<1> QED
  BY <1>1, <1>2

(* Whoever is not the command at the head leaves the head alone. *)
LEMMA OthersHead ==
  ASSUME TypeOK, TypeOK', Shape, PubNext, ~SandboxStep, ~SandboxCrash
  PROVE  queue' \in Seq(CommandSet) /\ (draining => HeadStays)
<1>0. queue \in Seq(CommandSet)
  BY DEF Shape
<1>1. CASE queue' = queue
  BY <1>0, <1>1 DEF HeadStays
<1>2. CASE OperationsStep
  <2>1. ASSUME NEW w \in Workers, Send(w)
        PROVE  queue' \in Seq(CommandSet) /\ HeadStays
    BY <1>0, <2>1, SendHead
  <2>2. CASE queue' = Orphaned(Callers)
    BY <1>0, <2>2, OrphanedHead
  <2> QED
    BY <1>1, <1>2, <2>1, <2>2 DEF OperationsStep, Operations
<1>3. ASSUME NEW w \in Workers, WorkerAnswered(w) \/ WorkerFailed(w)
      PROVE  queue' \in Seq(CommandSet) /\ HeadStays
  BY <1>0, <1>3, SendHead DEF WorkerAnswered, WorkerFailed
<1>4. ASSUME NEW x \in Callers, TimeOut(x)
      PROVE  queue' \in Seq(CommandSet) /\ HeadStays
  BY <1>0, <1>4, OrphanedHead DEF TimeOut
<1>5. ASSUME NEW x \in Callers, Lose(x)
      PROVE  queue' \in Seq(CommandSet) /\ (draining => HeadStays)
  <2>1. CASE queue' = queue
    BY <1>1, <2>1
  <2>2. ASSUME NEW i \in DOMAIN queue, ~(i = 1 /\ draining), queue' = RemoveAt(queue, i)
        PROVE  queue' \in Seq(CommandSet) /\ (draining => HeadStays)
    BY <1>0, <2>2, RemoveHead
  <2> QED
    BY <1>5, <2>1, <2>2 DEF Lose
<1>6. ASSUME NEW j \in Jobs, RecBegin(j) \/ Reconcile(j)
      PROVE  queue' \in Seq(CommandSet) /\ HeadStays
  <2>1. ASSUME queue' = Append(queue, Command(j, j, "resume"))
        PROVE  queue' \in Seq(CommandSet) /\ HeadStays
    <3>1. Command(j, j, "resume") \in CommandSet
      BY DEF Command, CommandSet, Callers, Commands
    <3> QED
      BY <1>0, <2>1, <3>1, AppendHead
  <2>2. CASE queue' = Orphaned({j})
    BY <1>0, <2>2, OrphanedHead
  <2>3. CASE queue' = queue
    BY <1>0, <2>3 DEF HeadStays
  <2> QED
    BY <1>6, <2>1, <2>2, <2>3
       DEF RecBegin, Reconcile, RecCheck, RecObserve, RecCommit, RecEnd, CallResume,
           RecFail, RecNext
<1>7. ASSUME NEW j \in Jobs, CommitRun(j) PROVE queue' = queue
  BY <1>7 DEF CommitRun
<1>8. ASSUME NEW c \in Clients, Admit(c) \/ EndRequest(c) PROVE queue' = queue
  BY <1>8 DEF Admit, EndRequest
<1> QED
  BY <1>1, <1>2, <1>3, <1>4, <1>5, <1>6, <1>7, <1>8 DEF PubNext

----------------------------------------------------------------------------
(* What a step does to each part of the state *)

(* The catalog's list only grows, by the content of some job's release.    *)
LEMMA VersionsStep ==
  ASSUME PubNext
  PROVE  versions' = versions \/ \E j \in Jobs : versions' = Append(versions, release[j].c)
<1>1. ASSUME NEW j \in Jobs, CommitRun(j) \/ Reconcile(j)
      PROVE  versions' = versions \/ versions' = Append(versions, release[j].c)
  BY <1>1 DEF CommitRun, Commit, Reconcile, RecCheck, RecObserve, RecCommit, RecEnd
<1>2. ASSUME NEW j \in Jobs, RecBegin(j) PROVE versions' = versions
  BY <1>2 DEF RecBegin
<1>3. CASE OperationsStep
  BY <1>3 DEF OperationsStep
<1>4. CASE SandboxStep \/ SandboxCrash
  BY <1>4 DEF SandboxStep, SandboxCrash, Block, DrainTimeOut, Quiesced, Apply, Verify, Resume
<1>5. ASSUME NEW w \in Workers, WorkerAnswered(w) \/ WorkerFailed(w) PROVE versions' = versions
  BY <1>5 DEF WorkerAnswered, WorkerFailed
<1>6. ASSUME NEW x \in Callers, TimeOut(x) \/ Lose(x) PROVE versions' = versions
  BY <1>6 DEF TimeOut, Lose
<1>7. ASSUME NEW c \in Clients, Admit(c) \/ EndRequest(c) PROVE versions' = versions
  BY <1>7 DEF Admit, EndRequest
<1> QED
  BY <1>1, <1>2, <1>3, <1>4, <1>5, <1>6, <1>7 DEF PubNext

LEMMA VersionsGrow ==
  ASSUME Shape, PubNext
  PROVE  /\ versions' \in Seq(Data) /\ versions' # <<>>
         /\ CommittedVersions \subseteq CommittedVersions'
<1>1. versions \in Seq(Data) /\ versions # <<>> /\ release \in [Jobs -> ReleaseSet]
  BY DEF Shape
<1>2. CASE versions' = versions
  BY <1>1, <1>2 DEF CommittedVersions, Version
<1>3. ASSUME NEW j \in Jobs, versions' = Append(versions, release[j].c)
      PROVE  /\ versions' \in Seq(Data) /\ versions' # <<>>
             /\ CommittedVersions \subseteq CommittedVersions'
  <2>1. release[j].c \in Data
    BY <1>1 DEF ReleaseSet
  <2>2. /\ versions' \in Seq(Data) /\ versions' # <<>>
        /\ Len(versions') = Len(versions) + 1
        /\ \A i \in 1 .. Len(versions) : versions'[i] = versions[i]
    BY <1>1, <1>3, <2>1, AppendProperties
  <2>3. /\ Len(versions) \in Nat /\ DOMAIN versions = 1 .. Len(versions)
        /\ DOMAIN versions' = 1 .. Len(versions')
    BY <1>1, <2>2, LenProperties
  <2>4. \A i \in DOMAIN versions : i \in DOMAIN versions' /\ versions'[i] = versions[i]
    BY <2>2, <2>3
  <2> QED
    BY <2>2, <2>4 DEF CommittedVersions, Version
<1> QED
  BY <1>2, <1>3, VersionsStep

(* The active version is a committed one. *)
LEMMA ActiveCommitted ==
  ASSUME Shape PROVE ActiveVersion \in CommittedVersions
<1>1. versions \in Seq(Data) /\ versions # <<>>
  BY DEF Shape
<1>2. Len(versions) \in DOMAIN versions
  BY <1>1, EmptySeq, LenProperties
<1> QED
  BY <1>2 DEF ActiveVersion, ActiveNumber, CommittedVersions

(* A release is written by its own worker, while it prepares. *)
LEMMA ReleaseStep ==
  ASSUME Shape, PubNext PROVE release' \in [Jobs -> ReleaseSet]
<1>1. release \in [Jobs -> ReleaseSet] /\ ActiveNumber \in Nat
  BY LenProperties DEF Shape, ActiveNumber
<1>2. ASSUME NEW w \in Workers, Prepare(w) PROVE release' \in [Jobs -> ReleaseSet]
  <2> DEFINE j == worker[w].job
  <2>1. CASE release' = [release EXCEPT ![j].prev = ActiveNumber]
    BY <1>1, <2>1 DEF ReleaseSet
  <2>2. ASSUME NEW c \in Contents, NEW p \in release[j].prev .. ActiveNumber,
               release' = [release EXCEPT ![j] =
                  [n |-> ActiveNumber + 1, c |-> c, old |-> ActiveNumber, prev |-> p]]
        PROVE  release' \in [Jobs -> ReleaseSet]
    <3>1. CASE j \in Jobs
      <4>1. release[j].prev \in Nat
        BY <1>1, <3>1 DEF ReleaseSet
      <4>2. p \in Nat /\ c \in Data
        BY <1>1, <4>1 DEF Data
      <4>3. [n |-> ActiveNumber + 1, c |-> c, old |-> ActiveNumber, prev |-> p] \in ReleaseSet
        BY <1>1, <4>2 DEF ReleaseSet
      <4> QED
        BY <1>1, <2>2, <4>3
    <3>2. CASE j \notin Jobs
      BY <1>1, <2>2, <3>2
    <3> QED
      BY <3>1, <3>2
  <2>3. CASE release' = release
    BY <1>1, <2>3
  <2> QED
    BY <1>2, <2>1, <2>2, <2>3 DEF Prepare
<1>3. ASSUME NEW w \in Workers, WorkerAnswered(w) \/ WorkerFailed(w)
      PROVE  release' \in [Jobs -> ReleaseSet]
  BY <1>1, <1>2, <1>3 DEF WorkerAnswered, WorkerFailed
<1>4. CASE release' = release
  BY <1>1, <1>4
<1>5. ASSUME NEW j \in Jobs, CommitRun(j) \/ Reconcile(j) \/ RecBegin(j)
      PROVE  release' = release
  BY <1>5 DEF CommitRun, Reconcile, RecBegin, RecCheck, RecObserve, RecCommit, RecEnd
<1>6. CASE OperationsStep
  BY <1>4, <1>6 DEF OperationsStep
<1>7. CASE SandboxStep \/ SandboxCrash
  BY <1>4, <1>7
     DEF SandboxStep, SandboxCrash, Block, DrainTimeOut, Quiesced, Apply, Verify, Resume
<1>8. ASSUME NEW x \in Callers, TimeOut(x) \/ Lose(x) PROVE release' = release
  BY <1>8 DEF TimeOut, Lose
<1>9. ASSUME NEW c \in Clients, Admit(c) \/ EndRequest(c) PROVE release' = release
  BY <1>9 DEF Admit, EndRequest
<1> QED
  BY <1>3, <1>4, <1>5, <1>6, <1>7, <1>8, <1>9 DEF PubNext

----------------------------------------------------------------------------
(* The block and the staged version *)

(* The steps of operations and of the catalog do not touch the sandboxes.  *)
Elsewhere == UNCHANGED <<blocked, override, draining, serving>>

LEMMA SandboxesStep ==
  ASSUME PubNext
  PROVE  \/ Elsewhere \/ SandboxStep \/ SandboxCrash
         \/ \E c \in Clients : Admit(c) \/ EndRequest(c)
<1>1. ASSUME NEW j \in Jobs, CommitRun(j) \/ RecBegin(j) \/ Reconcile(j) PROVE Elsewhere
  BY <1>1
     DEF Elsewhere, CommitRun, RecBegin, Reconcile, RecCheck, RecObserve, RecCommit, RecEnd
<1>2. CASE OperationsStep
  BY <1>2 DEF OperationsStep, Elsewhere
<1>3. ASSUME NEW w \in Workers, WorkerAnswered(w) \/ WorkerFailed(w) PROVE Elsewhere
  BY <1>3 DEF WorkerAnswered, WorkerFailed, Elsewhere
<1>4. ASSUME NEW x \in Callers, TimeOut(x) \/ Lose(x) PROVE Elsewhere
  BY <1>4 DEF TimeOut, Lose, Elsewhere
<1> QED
  BY <1>1, <1>2, <1>3, <1>4 DEF PubNext

(* Staging happens under the block and after the drain, admission without  *)
(* the block; resume unstages and unblocks, or does neither.               *)
LEMMA StagedStep ==
  ASSUME PubIInv, PubNext PROVE StagedBehindBlock' /\ StagedUnderNobody'
<1>1. /\ draining => blocked
      /\ override # 0 => blocked /\ Idle
      /\ blocked \in BOOLEAN /\ serving = [c \in Clients |-> serving[c]]
  BY DEF PubIInv, DrainBlocks, StagedBehindBlock, StagedUnderNobody, Shape
<1>2. CASE UNCHANGED <<blocked, override, serving>>
  BY <1>1, <1>2 DEF StagedBehindBlock, StagedUnderNobody, Idle, NoVersion, Version
<1>3. CASE SandboxStep
  <2>1. CASE Block
    BY <1>1, <2>1 DEF Block, StagedBehindBlock, StagedUnderNobody, Idle, NoVersion, Version
  <2>2. CASE DrainTimeOut \/ Quiesced \/ Verify
    BY <1>2, <2>2 DEF DrainTimeOut, Quiesced, Verify
  <2>3. CASE Apply
    BY <1>1, <2>3
       DEF Apply, Drained, StagedBehindBlock, StagedUnderNobody, Idle, NoVersion, Version
  <2>4. CASE Resume
    <3>1. CASE Resumable
      BY <2>4, <3>1 DEF Resume, StagedBehindBlock, StagedUnderNobody
    <3>2. CASE ~Resumable
      BY <1>1, <1>2, <2>4, <3>2 DEF Resume, StillBlocked
    <3> QED
      BY <3>1, <3>2
  <2> QED
    BY <1>3, <2>1, <2>2, <2>3, <2>4 DEF SandboxStep
<1>4. CASE SandboxCrash
  BY <1>1, <1>4 DEF SandboxCrash, StagedBehindBlock, StagedUnderNobody, Idle, NoVersion, Version
<1>5. ASSUME NEW c \in Clients, Admit(c)
      PROVE  StagedBehindBlock' /\ StagedUnderNobody'
  BY <1>1, <1>5 DEF Admit, Admitted, StagedBehindBlock, StagedUnderNobody
<1>6. ASSUME NEW c \in Clients, EndRequest(c)
      PROVE  StagedBehindBlock' /\ StagedUnderNobody'
  <2>1. UNCHANGED <<override, blocked>>
        /\ \A d \in Clients : serving'[d] \in {serving[d], NoVersion}
    BY <1>1, <1>6 DEF EndRequest
  <2> QED
    BY <1>1, <2>1 DEF StagedBehindBlock, StagedUnderNobody, Idle, NoVersion, Version
<1> QED
  BY <1>2, <1>3, <1>4, <1>5, <1>6, SandboxesStep DEF Elsewhere

(* A request is admitted without a block, on what is then loaded.          *)
LEMMA ServedStep ==
  ASSUME PubIInv, PubNext PROVE ServedCommitted'
<1>1. CommittedVersions \subseteq CommittedVersions'
  BY VersionsGrow DEF PubIInv
<1>2. \A c \in Clients : serving[c] # NoVersion => serving[c] \in CommittedVersions'
  BY <1>1 DEF PubIInv, ServedCommitted
<1>3. CASE serving' = serving
  BY <1>2, <1>3 DEF ServedCommitted, NoVersion, Version
<1>4. ASSUME NEW c \in Clients, Admit(c) PROVE ServedCommitted'
  <2>1. ~blocked /\ serving' = [serving EXCEPT ![c] = Loaded]
    BY <1>4 DEF Admit, Admitted
  <2>2. Loaded \in CommittedVersions
    BY <2>1, ActiveCommitted DEF Loaded, PubIInv, StagedBehindBlock
  <2>3. \A d \in Clients : serving'[d] = IF d = c THEN Loaded ELSE serving[d]
    BY <2>1 DEF PubIInv, Shape
  <2> QED
    BY <1>1, <1>2, <2>2, <2>3 DEF ServedCommitted, NoVersion, Version
<1>5. ASSUME NEW c \in Clients, EndRequest(c) PROVE ServedCommitted'
  <2>1. \A d \in Clients : serving'[d] = IF d = c THEN NoVersion ELSE serving[d]
    BY <1>5 DEF EndRequest, PubIInv, Shape
  <2> QED
    BY <1>2, <2>1 DEF ServedCommitted, NoVersion, Version
<1>6. CASE SandboxCrash
  <2>1. \A d \in Clients : serving'[d] = NoVersion
    BY <1>6 DEF SandboxCrash
  <2> QED
    BY <2>1 DEF ServedCommitted, NoVersion, Version
<1>7. CASE SandboxStep
  BY <1>3, <1>7 DEF SandboxStep, Block, DrainTimeOut, Quiesced, Apply, Verify, Resume
<1> QED
  BY <1>3, <1>4, <1>5, <1>6, <1>7, SandboxesStep DEF Elsewhere

(* Only Block starts a drain; while it lasts its command stays first.      *)
LEMMA DrainStep ==
  ASSUME TypeOK, TypeOK', PubIInv, PubNext
  PROVE  queue' \in Seq(CommandSet) /\ DrainBlocks'
<1>0. queue \in Seq(CommandSet) /\ blocked \in BOOLEAN
  BY DEF PubIInv, Shape
<1>1. CASE SandboxStep
  <2>1. CASE Block
    BY <1>0, <2>1 DEF Block, DrainBlocks, First
  <2>2. ASSUME NEW a, Answer(a), queue # <<>> PROVE queue' \in Seq(CommandSet)
    BY <1>0, <2>2, HeadTailProperties DEF Answer
  <2>3. CASE DrainTimeOut \/ Quiesced \/ Apply
    <3>1. queue # <<>> /\ draining' = FALSE
      BY <2>3 DEF DrainTimeOut, Quiesced, Apply, PubIInv, DrainBlocks
    <3> QED
      BY <2>2, <2>3, <3>1 DEF DrainTimeOut, Quiesced, Apply, DrainBlocks
  <2>4. CASE Verify \/ Resume
    <3>1. queue # <<>> /\ ~draining' /\ queue' \in Seq(CommandSet)
      <4>1. queue # <<>> /\ First.op \in {"verify", "recheck", "resume"}
            /\ draining' = draining
        BY <2>4 DEF Verify, Resume
      <4>2. ~draining
        BY <4>1 DEF PubIInv, DrainBlocks, First
      <4> QED
        BY <2>2, <2>4, <4>1, <4>2 DEF Verify, Resume
    <3> QED
      BY <3>1 DEF DrainBlocks
  <2> QED
    BY <1>1, <2>1, <2>3, <2>4 DEF SandboxStep
<1>2. CASE SandboxCrash
  BY <1>2, EmptySeq DEF SandboxCrash, DrainBlocks
<1>3. CASE ~SandboxStep /\ ~SandboxCrash
  <2>1. queue' \in Seq(CommandSet) /\ (draining => HeadStays)
    BY <1>3, OthersHead DEF PubIInv
  <2>2. UNCHANGED <<draining, blocked>>
    BY <1>3, SandboxesStep DEF Elsewhere, Admit, EndRequest
  <2> QED
    BY <2>1, <2>2 DEF PubIInv, DrainBlocks, HeadStays
<1> QED
  BY <1>1, <1>2, <1>3

LEMMA SandboxesShape ==
  ASSUME Shape, PubNext
  PROVE  serving' = [c \in Clients |-> serving'[c]] /\ blocked' \in BOOLEAN
<1>1. serving = [c \in Clients |-> serving[c]] /\ blocked \in BOOLEAN
  BY DEF Shape
<1>2. CASE Elsewhere
  BY <1>1, <1>2 DEF Elsewhere
<1>3. ASSUME NEW c \in Clients, Admit(c) \/ EndRequest(c)
      PROVE  serving' = [d \in Clients |-> serving'[d]] /\ blocked' \in BOOLEAN
  BY <1>1, <1>3 DEF Admit, EndRequest
<1>4. CASE SandboxCrash
  BY <1>1, <1>4 DEF SandboxCrash
<1>5. CASE SandboxStep
  BY <1>1, <1>5
     DEF SandboxStep, Block, DrainTimeOut, Quiesced, Apply, Verify, Resume, StillBlocked
<1> QED
  BY <1>2, <1>3, <1>4, <1>5, SandboxesStep

LEMMA PubInvStep ==
  ASSUME TypeOK, TypeOK', PubIInv, [PubNext]_pubVars PROVE PubIInv'
<1>1. CASE PubNext
  <2>1. Shape'
    BY <1>1, VersionsGrow, ReleaseStep, DrainStep, SandboxesShape DEF PubIInv, Shape
  <2> QED
    BY <1>1, <2>1, DrainStep, StagedStep, ServedStep DEF PubIInv
<1>2. CASE UNCHANGED pubVars
  BY <1>2 DEF PubIInv, Shape, DrainBlocks, StagedBehindBlock, StagedUnderNobody, Idle,
     ServedCommitted, CommittedVersions, NoVersion, Version
<1> QED
  BY <1>1, <1>2

(* The inductive invariant, over the types proved of the job table.        *)
THEOREM PublicationInvariance == PubSpec => []PubIInv
<1>1. PubInit => PubIInv
  BY PubInitInv
<1>2. TypeOK /\ TypeOK' /\ PubIInv /\ [PubNext]_pubVars => PubIInv'
  BY PubInvStep
<1>3. PubSpec => []TypeOK
  BY PublicationImplementsJobStore, TypeCorrectness
<1> QED
  BY <1>1, <1>2, <1>3, PTL DEF PubSpec

(* "Block and drain first, then apply": a version is staged only behind    *)
(* the block, whichever commands are late, lost, orphaned or cut off by a  *)
(* crash, whichever job or reconciliation resumes the agent.               *)
THEOREM StagedOnlyBehindBlock == PubSpec => []StagedBehindBlock
<1>1. PubIInv => StagedBehindBlock
  BY DEF PubIInv
<1> QED
  BY <1>1, PublicationInvariance, PTL

(* No user's request runs while a version is staged.                       *)
THEOREM NobodyWhileStaged == PubSpec => []StagedUnderNobody
<1>1. PubIInv => StagedUnderNobody
  BY DEF PubIInv
<1> QED
  BY <1>1, PublicationInvariance, PTL

(* No request is ever served by a version that is not committed.           *)
THEOREM OnlyCommittedServed == PubSpec => []ServedCommitted
<1>1. PubIInv => ServedCommitted
  BY DEF PubIInv
<1> QED
  BY <1>1, PublicationInvariance, PTL
----------------------------------------------------------------------------
(* What the workers, their calls and the catalog know of a release *)

(* The stages of a worker that publishes an agent, and its steps. *)
ApplyStages == {"idle", "start", "prepare", "validate", "quiesce", "apply", "verify", "commit",
                "inspect", "compensate", "recheck", "resume"}
Edge(s, t) ==
  \/ t \in {"idle", "resume"}
  \/ <<s, t>> \in {<<"start", "prepare">>, <<"prepare", "validate">>, <<"validate", "quiesce">>,
                    <<"quiesce", "apply">>, <<"apply", "verify">>, <<"verify", "commit">>,
                    <<"commit", "inspect">>, <<"compensate", "recheck">>}
  \/ s \in {"apply", "verify", "inspect"} /\ t = "compensate"

Path == \A w \in Workers : worker[w].pc \in ApplyStages

Takes(w, t) ==
  worker' = [worker EXCEPT ![w] = IF t = "idle" THEN NoWorker ELSE [job |-> worker[w].job, pc |-> t]]
Written(row, old, success) ==
  row = old \/ row \notin {"none", "queued", "succeeded"} \/ (row = "succeeded" /\ success)

(* A worker goes on to another stage and writes its row, or leaves it; it  *)
(* reports success, and goes past an error, only when it was answered.     *)
WorkerMoves(w, answered) ==
  LET j == worker[w].job IN
  /\ worker[w].pc # "idle" /\ j \in Jobs
  /\ \E t : /\ Edge(worker[w].pc, t) /\ Takes(w, t)
            /\ answered \/ t \in {"idle", "resume", "compensate", "inspect"}
  /\ \E row : /\ Written(row, status[j], answered /\ worker[w].pc \in {"commit", "inspect"})
              /\ status' = [status EXCEPT ![j] = row]
  /\ reconciling' = reconciling

LEMMA AllApply == ASSUME TypeOK, NEW j \in Jobs PROVE kind[j] = "agent.apply"
  BY AgentApplyOnly DEF TypeOK

LEMMA ApplyTask ==
  ASSUME TypeOK, Path, NEW w \in Workers, worker[w].pc # "idle"
  PROVE  LET j == worker[w].job IN
         /\ j \in Jobs /\ kind[j] = "agent.apply" /\ status[j] \in Statuses
         /\ worker[w].pc \in Stages /\ worker[w].pc \in ApplyStages \ {"idle"}
         /\ status = [status EXCEPT ![j] = status[j]]
<1>1. worker[w] \in [job : Jobs, pc : Stages]
  BY InTask
<1>2. status = [status EXCEPT ![worker[w].job] = status[worker[w].job]]
  BY <1>1 DEF TypeOK
<1> QED
  BY <1>1, <1>2, AllApply DEF TypeOK, Path

(* Goto and the finally clause, as a choice of the next stage. *)
LEMMA EndEdge ==
  ASSUME TypeOK, Path, NEW w \in Workers, worker[w].pc # "idle", NEW s, NEW f,
         Finally(w, s, f)
  PROVE  \E t \in {"resume", "idle"} : Takes(w, t)
<1>1. worker[w].pc \in Stages
  BY ApplyTask
<1> QED
  BY <1>1, FinallyMoves DEF Takes

LEMMA NextEdge ==
  ASSUME NEW s \in {"start", "prepare", "validate", "quiesce", "apply", "verify"}
  PROVE  /\ NextStage("agent.apply", s) \in ApplyStages \ {"idle"}
         /\ Edge(s, NextStage("agent.apply", s))
<1>1. CASE s = "start"
  BY <1>1 DEF NextStage, ApplyKinds, ApplyStages, Edge
<1>2. CASE s = "prepare"
  BY <1>2 DEF NextStage, ApplyStages, Edge
<1>3. CASE s = "validate"
  BY <1>3 DEF NextStage, ApplyStages, Edge
<1>4. CASE s = "quiesce"
  BY <1>4 DEF NextStage, ApplyKinds, DeleteKinds, ApplyStages, Edge
<1>5. CASE s = "apply"
  BY <1>5 DEF NextStage, ApplyStages, Edge
<1>6. CASE s = "verify"
  BY <1>6 DEF NextStage, ApplyStages, Edge
<1> QED
  BY <1>1, <1>2, <1>3, <1>4, <1>5, <1>6

LEMMA AnswerMoves ==
  ASSUME TypeOK, Path, NEW w \in Workers, OnAnswer(w)
  PROVE  WorkerMoves(w, TRUE)
<1> DEFINE j == worker[w].job
           s == worker[w].pc
<1>0. s # "idle"
  BY DEF OnAnswer, Advance, StopCancelled, Refuse, Succeed, Reapplied, Compensated, Resumed, Body,
         Quiet, Effects, LastStages
<1>1. /\ j \in Jobs /\ kind[j] = "agent.apply" /\ status[j] \in Statuses
      /\ s \in Stages /\ s \in ApplyStages \ {"idle"}
      /\ status = [status EXCEPT ![j] = status[j]]
  BY <1>0, ApplyTask
<1>2. CASE Advance(w)
  <2>1. /\ s \in {"start", "prepare", "validate", "quiesce", "apply", "verify"}
    BY <1>1, <1>2 DEF Advance, ApplyStages, Body, Quiet, Effects, LastStages
  <2>2. NextStage(kind[j], s) \in ApplyStages \ {"idle"} /\ Edge(s, NextStage(kind[j], s))
    BY <1>1, <2>1, NextEdge
  <2>3. Takes(w, NextStage(kind[j], s))
    <3>1. Goto(w, NextStage(kind[j], s)) /\ NextStage(kind[j], s) \in Stages
      BY <1>2, NextStageType DEF Advance, Stages
    <3> QED
      BY <1>1, <2>2, <3>1, GotoMoves DEF Takes
  <2>4. Written(Entered(kind[j], s, NextStage(kind[j], s), status[j]), status[j],
                TRUE /\ s \in {"commit", "inspect"})
    BY DEF Entered, Written
  <2>5. status' = [status EXCEPT ![j] = Entered(kind[j], s, NextStage(kind[j], s), status[j])]
        /\ reconciling' = reconciling
    BY <1>2 DEF Advance, SetStatus
  <2> QED
    BY <1>0, <1>1, <2>2, <2>3, <2>4, <2>5 DEF WorkerMoves
<1>3. CASE StopCancelled(w) \/ Resumed(w)
  <2>1. status' = status /\ reconciling' = reconciling
    BY <1>3 DEF StopCancelled, Resumed
  <2>2. \E t \in {"resume", "idle"} : Takes(w, t)
    BY <1>0, <1>3, EndEdge DEF StopCancelled, Resumed, Finish, Takes
  <2> QED
    BY <1>0, <1>1, <2>1, <2>2 DEF WorkerMoves, Edge, Written
<1>4. ASSUME NEW f \in Statuses \ {"none", "queued"}, End(w, s, f), reconciling' = reconciling,
             f = "succeeded" => s \in {"commit", "inspect"}
      PROVE  WorkerMoves(w, TRUE)
  <2>1. status' = [status EXCEPT ![j] = f] /\ Finally(w, s, f)
    BY <1>4 DEF End, SetStatus
  <2>2. \E t \in {"resume", "idle"} : Takes(w, t)
    BY <1>0, <2>1, EndEdge
  <2> QED
    BY <1>0, <1>1, <1>4, <2>1, <2>2 DEF WorkerMoves, Edge, Written
<1>5. ASSUME NEW t \in {"compensate", "recheck"}, Goto(w, t), status' = status, reconciling' = reconciling,
             Edge(s, t)
      PROVE  WorkerMoves(w, TRUE)
  <2>1. Takes(w, t)
    BY <1>1, <1>5, GotoMoves DEF Takes, Stages
  <2> QED
    BY <1>0, <1>1, <1>5, <2>1 DEF WorkerMoves, Written
<1>6. CASE Refuse(w)
  BY <1>4, <1>5, <1>6 DEF Refuse, Give, Compensate, Edge, Statuses, Active, Held
<1>7. CASE Succeed(w)
  BY <1>1, <1>4, <1>7 DEF Succeed, LastStages, ApplyStages, Statuses
<1>8. CASE Reapplied(w)
  BY <1>5, <1>8 DEF Reapplied, Edge
<1>9. CASE Compensated(w)
  BY <1>4, <1>9 DEF Compensated, Statuses
<1> QED
  BY <1>2, <1>3, <1>6, <1>7, <1>8, <1>9 DEF OnAnswer

LEMMA ErrorMoves ==
  ASSUME TypeOK, Path, NEW w \in Workers, OnError(w)
  PROVE  WorkerMoves(w, FALSE)
<1> DEFINE j == worker[w].job
           s == worker[w].pc
<1>0. s # "idle"
  BY DEF OnError, FailCall, LookUp, NotCompensated, NotResumed, Body, Quiet, Effects
<1>1. /\ j \in Jobs /\ kind[j] = "agent.apply" /\ status[j] \in Statuses
      /\ s \in Stages /\ s \in ApplyStages \ {"idle"}
      /\ status = [status EXCEPT ![j] = status[j]]
  BY <1>0, ApplyTask
<1>2. ASSUME NEW f \in {"needs_recovery", "failed"}, End(w, s, f), reconciling' = reconciling
      PROVE  WorkerMoves(w, FALSE)
  <2>1. status' = [status EXCEPT ![j] = f] /\ Finally(w, s, f)
    BY <1>2 DEF End, SetStatus
  <2>2. \E t \in {"resume", "idle"} : Takes(w, t)
    BY <1>0, <2>1, EndEdge
  <2> QED
    BY <1>0, <1>1, <1>2, <2>1, <2>2 DEF WorkerMoves, Edge, Written
<1>3. ASSUME NEW t \in {"compensate", "inspect"}, Goto(w, t), status' = status, reconciling' = reconciling,
             Edge(s, t)
      PROVE  WorkerMoves(w, FALSE)
  <2>1. Takes(w, t)
    BY <1>1, <1>3, GotoMoves DEF Takes, Stages, Body, Effects
  <2> QED
    BY <1>0, <1>1, <1>3, <2>1 DEF WorkerMoves, Written
<1>4. CASE FailCall(w)
  BY <1>2, <1>3, <1>4 DEF FailCall, Give, Compensate, Edge
<1>5. CASE LookUp(w)
  <2>1. s = "commit" /\ Goto(w, "inspect") /\ status' = status /\ reconciling' = reconciling
    BY <1>5 DEF LookUp
  <2>2. Edge(s, "inspect")
    BY <2>1 DEF Edge
  <2> QED
    BY <1>3, <2>1, <2>2
<1>6. CASE NotCompensated(w)
  BY <1>2, <1>6 DEF NotCompensated
<1>7. CASE NotResumed(w)
  <2>1. /\ Takes(w, "idle")
        /\ status' = [status EXCEPT ![j] = "needs_recovery"] /\ reconciling' = reconciling
    BY <1>7 DEF NotResumed, Finish, SetStatus, Takes
  <2> QED
    BY <1>0, <1>1, <2>1 DEF WorkerMoves, Edge, Written
<1> QED
  BY <1>4, <1>5, <1>6, <1>7 DEF OnError

LEMMA CancelMoves ==
  ASSUME TypeOK, Path, NEW w \in Workers, DeliverCancel(w), worker[w].pc # "idle"
  PROVE  WorkerMoves(w, FALSE)
<1> DEFINE j == worker[w].job
           s == worker[w].pc
<1>1. /\ j \in Jobs /\ status[j] \in Statuses
      /\ s \in ApplyStages \ {"idle"}
      /\ status = [status EXCEPT ![j] = status[j]]
  BY ApplyTask
<1>2. \E f : (Finally(w, s, f) \/ Finish(w))
         /\ \/ status' = status
            \/ f \in {"needs_recovery", "interrupted"} /\ status' = [status EXCEPT ![j] = f]
  BY DEF DeliverCancel, End, SetStatus
<1>3. \E t \in {"resume", "idle"} : Takes(w, t)
  <2>1. PICK f : Finally(w, s, f) \/ Finish(w)
    BY <1>2
  <2>2. CASE Finally(w, s, f)
    BY <2>2, EndEdge
  <2>3. CASE Finish(w)
    BY <2>3 DEF Finish, Takes
  <2> QED
    BY <2>1, <2>2, <2>3
<1>4. reconciling' = reconciling
  BY DEF DeliverCancel
<1> QED
  BY <1>1, <1>2, <1>3, <1>4 DEF WorkerMoves, Edge, Written

Prepared(j) == release[j].old # 0
PastPrepare == {"validate", "quiesce", "apply", "verify", "commit", "inspect", "compensate", "recheck"}

(* A release that is prepared is the next version of one that was active;  *)
(* one that is not has at most the bundle its worker read first.           *)
ReleaseFits ==
  \A j \in Jobs :
    IF Prepared(j) THEN /\ release[j].n = release[j].old + 1 /\ release[j].n \in Numbers
                        /\ release[j].old \in 1 .. Len(versions) /\ release[j].prev \in 1 .. Len(versions)
                        /\ release[j].c \in Contents
                   ELSE /\ release[j].n = 0 /\ release[j].c = NoContent
                        /\ release[j].prev \in 0 .. Len(versions)

WorkerPrepared ==
  \A w \in Workers : /\ worker[w].pc \in PastPrepare => Prepared(worker[w].job)
                     /\ worker[w].pc = "prepare" => release[worker[w].job].prev # 0

QueuePrepared == \A q \in Range(queue) : q.op \in {"apply", "compensate"} => Prepared(q.job)

(* A command that a worker still waits for is the call of its stage.       *)
Owned == \A q \in Range(queue) : q.by \in Workers => worker[q.by] = [job |-> q.job, pc |-> q.op]

(* A job whose commit was sent or carried out never prepares again.        *)
NotYet ==
  \A j \in committed \cup commits :
    /\ status[j] \notin {"none", "queued"}
    /\ \A w \in Workers : worker[w].pc \in {"start", "prepare"} => worker[w].job # j

(* What a committed release, an acknowledgement, the resume of a reconcile *)
(* and a row that succeeded stand for.                                     *)
CommittedListed ==
  \A j \in committed : release[j].n \in 1 .. Len(versions) /\ versions[release[j].n] = release[j].c
Acked == \A w \in Workers : worker[w].pc = "commit" /\ reply[w] = "ok" => worker[w].job \in committed
Evidenced ==
  \A j \in Jobs : /\ evidence[j] # "none" => j \in reconciling
                  /\ evidence[j] = "resume" => j \in committed
Succeeded == \A j \in Jobs : status[j] = "succeeded" => j \in committed

(* Every version but the first is that of a job. *)
Few == Len(versions) <= Cardinality(committed) + 1

CallTypes ==
  /\ versions \in Seq(Contents) /\ committed \subseteq Jobs /\ commits \subseteq Jobs
  /\ reply \in [Callers -> {"none", "wait", "ok", "err"}]
  /\ evidence \in [Jobs -> {"none", "check", "status", "commit", "resume"}]

Calls == Owned /\ QueuePrepared /\ Acked /\ Evidenced
Listed == ReleaseFits /\ CommittedListed /\ Few
CatalogInv == Path /\ CallTypes /\ Calls /\ Listed /\ WorkerPrepared /\ NotYet /\ Succeeded

(* What is known already: the job table's invariants and the sandboxes'.   *)
Known == IInv /\ TaskInv /\ PubIInv

(* A command that stays at the lock, its caller gone perhaps.              *)
Late(q, p) == q.job = p.job /\ q.op = p.op /\ q.by \in {p.by, Nobody}

LEMMA OrphanedRange ==
  ASSUME NEW X \in SUBSET Callers, queue \in Seq(CommandSet)
  PROVE  \A q \in Range(Orphaned(X)) : q.by \notin X /\ \E p \in Range(queue) : Late(q, p)
<1>1. \A i \in DOMAIN queue : queue[i] \in CommandSet
  BY LenProperties, ElementOfSeq
<1>2. \A i \in DOMAIN queue : Orphaned(X)[i].by \notin X /\ Late(Orphaned(X)[i], queue[i])
  BY <1>1, CallersAssumption DEF Orphaned, Late, CommandSet
<1>3. DOMAIN Orphaned(X) = DOMAIN queue
  BY DEF Orphaned
<1> QED
  BY <1>2, <1>3 DEF Range

LEMMA AppendRange ==
  ASSUME NEW S, NEW q \in Seq(S), NEW e \in S
  PROVE  Range(Append(q, e)) = Range(q) \cup {e}
<1>1. /\ Append(q, e) \in Seq(S) /\ Len(Append(q, e)) = Len(q) + 1 /\ Len(q) \in Nat
      /\ \A i \in 1 .. Len(q) : Append(q, e)[i] = q[i]
      /\ Append(q, e)[Len(q) + 1] = e
  BY AppendProperties, LenProperties
<1>2. Range(Append(q, e)) = {Append(q, e)[i] : i \in 1 .. Len(q) + 1}
  BY <1>1, RangeEquality
<1>3. Range(q) = {q[i] : i \in 1 .. Len(q)}
  BY RangeEquality
<1>4. 1 .. Len(q) + 1 = (1 .. Len(q)) \cup {Len(q) + 1}
  BY <1>1
<1> QED
  BY <1>1, <1>2, <1>3, <1>4

LEMMA TailRange ==
  ASSUME NEW S, NEW q \in Seq(S), q # <<>>
  PROVE  Range(Tail(q)) \subseteq Range(q) /\ q[1] \in Range(q)
<1>1. /\ Tail(q) \in Seq(S) /\ Len(Tail(q)) = Len(q) - 1 /\ Len(q) \in Nat /\ Len(q) # 0
      /\ \A i \in 1 .. Len(Tail(q)) : Tail(q)[i] = q[i + 1]
  BY HeadTailProperties, LenProperties, EmptySeq
<1>2. Range(Tail(q)) = {Tail(q)[i] : i \in 1 .. Len(Tail(q))} /\ Range(q) = {q[i] : i \in 1 .. Len(q)}
  BY <1>1, RangeEquality
<1>3. 1 \in 1 .. Len(q) /\ \A i \in 1 .. Len(Tail(q)) : i + 1 \in 1 .. Len(q)
  BY <1>1
<1> QED
  BY <1>1, <1>2, <1>3

LEMMA RemoveRange ==
  ASSUME NEW S, NEW q \in Seq(S), NEW i \in DOMAIN q
  PROVE  Range(RemoveAt(q, i)) \subseteq Range(q)
<1> DEFINE a == SubSeq(q, 1, i - 1)
           b == SubSeq(q, i + 1, Len(q))
<1>1. Len(q) \in Nat /\ i \in 1 .. Len(q) /\ \A k \in 1 .. Len(q) : q[k] \in Range(q)
  BY LenProperties, RangeEquality
<1>2. a \in Seq(Range(q)) /\ b \in Seq(Range(q))
  <2>1. /\ i - 1 \in Int /\ i + 1 \in Int
        /\ \A k \in 1 .. i - 1 : q[k] \in Range(q)
        /\ \A k \in i + 1 .. Len(q) : q[k] \in Range(q)
    BY <1>1
  <2> HIDE DEF a, b
  <2>2. a \in Seq(Range(q))
    BY <2>1, SubSeqProperties DEF a
  <2>3. b \in Seq(Range(q))
    BY <1>1, <2>1, SubSeqProperties DEF b
  <2> QED
    BY <2>2, <2>3
<1>3. RemoveAt(q, i) = a \o b
  BY DEF RemoveAt
<1> HIDE DEF a, b
<1>4. a \o b \in Seq(Range(q))
  BY <1>2, ConcatProperties
<1> QED
  BY <1>3, <1>4, RangeOfSeq

LEMMA Room ==
  ASSUME CallTypes, Few, versions # <<>>
  PROVE  /\ IsFiniteSet(committed) /\ Len(versions) \in Numbers
         /\ Cardinality(committed) \in Nat
         /\ \A j \in Jobs \ committed : /\ Len(versions) + 1 \in Numbers
                                        /\ Cardinality(committed \cup {j}) = Cardinality(committed) + 1
<1>1. /\ IsFiniteSet(committed) /\ Cardinality(committed) \in Nat
      /\ Cardinality(Jobs) \in Nat /\ Cardinality(committed) <= Cardinality(Jobs)
  BY JobsFinite, FS_Subset, FS_CardinalityType DEF CallTypes
<1>2. Len(versions) \in Nat /\ Len(versions) # 0
  BY LenProperties, EmptySeq DEF CallTypes
<1>3. ASSUME NEW j \in Jobs \ committed
      PROVE  /\ Cardinality(committed \cup {j}) = Cardinality(committed) + 1
             /\ Cardinality(committed) + 1 <= Cardinality(Jobs)
  <2>1. Cardinality(committed \cup {j}) = Cardinality(committed) + 1
    BY <1>1, <1>3, FS_AddElement
  <2>2. Cardinality(committed \cup {j}) <= Cardinality(Jobs)
    BY <1>3, JobsFinite, FS_Subset DEF CallTypes
  <2> QED
    BY <2>1, <2>2
<1> QED
  BY <1>1, <1>2, <1>3 DEF Few, Numbers

(* The step of a worker whose call was answered, failed or was cancelled.  *)
LEMMA WorkerKeeps ==
  ASSUME Known, TypeOK', CatalogInv, NEW w \in Workers, NEW answered \in BOOLEAN,
         WorkerMoves(w, answered), Send(w), answered => Answered(w) /\ Prepare(w),
         ~answered => release' = release,
         UNCHANGED <<versions, committed, evidence>>
  PROVE  CatalogInv'
<1> DEFINE j == worker[w].job
           s == worker[w].pc
           t == worker'[w].pc
           Len0 == Len(versions)
<1>1. /\ s # "idle" /\ j \in Jobs /\ Edge(s, t) /\ reconciling' = reconciling
      /\ answered \/ t \in {"idle", "resume", "compensate", "inspect"}
      /\ worker'[w] = IF t = "idle" THEN NoWorker ELSE [job |-> j, pc |-> t]
      /\ \A v \in Workers \ {w} : worker'[v] = worker[v]
      /\ Written(status'[j], status[j], answered /\ s \in {"commit", "inspect"})
      /\ \A k \in Jobs \ {j} : status'[k] = status[k]
  <2>1. worker[w].pc # "idle" /\ j \in Jobs /\ reconciling' = reconciling
    BY DEF WorkerMoves
  <2>2. PICK u : /\ Edge(s, u) /\ Takes(w, u)
                 /\ answered \/ u \in {"idle", "resume", "compensate", "inspect"}
    BY DEF WorkerMoves
  <2>3. /\ worker'[w] = IF u = "idle" THEN NoWorker ELSE [job |-> j, pc |-> u]
        /\ \A v \in Workers \ {w} : worker'[v] = worker[v]
    BY <2>2 DEF Takes, Known, IInv, TypeOK
  <2>4. u = t
    BY <2>3 DEF NoWorker
  <2>5. PICK row : /\ Written(row, status[j], answered /\ s \in {"commit", "inspect"})
                   /\ status' = [status EXCEPT ![j] = row]
    BY DEF WorkerMoves
  <2>6. status'[j] = row /\ \A k \in Jobs \ {j} : status'[k] = status[k]
    BY <2>1, <2>5 DEF Known, IInv, TypeOK
  <2> QED
    BY <2>1, <2>2, <2>3, <2>4, <2>5, <2>6
<1>2. /\ t \in ApplyStages \ {"start"} /\ (t = "prepare" => s = "start") /\ (t = "validate" => s = "prepare")
      /\ (t = "commit" => s = "verify")
      /\ (t \in PastPrepare => t = "validate" \/ s \in PastPrepare)
  BY <1>1 DEF Edge, ApplyStages, PastPrepare
<1>3. /\ commits' = IF t = "commit" THEN commits \cup {j} ELSE commits
      /\ reply' = [reply EXCEPT ![w] = IF t \in Commands \cup {"commit"} THEN "wait" ELSE "none"]
      /\ w \in Callers
  <2>1. t = "commit" => worker'[w].job = j
    BY <1>1
  <2>2. /\ commits' = IF t = "commit" THEN commits \cup {worker'[w].job} ELSE commits
        /\ reply' = [reply EXCEPT ![w] = IF t \in Commands \cup {"commit"} THEN "wait" ELSE "none"]
    BY Zenon DEF Send
  <2> QED
    BY <2>1, <2>2 DEF Callers
<1>4. /\ release \in [Jobs -> ReleaseSet] /\ versions # <<>> /\ Len0 \in Nat \ {0}
      /\ queue \in Seq(CommandSet)
  BY LenProperties, EmptySeq DEF Known, PubIInv, Shape
<1>5. /\ \A q \in Range(queue') : \/ t \in Commands /\ q = Command(w, j, t)
                                  \/ q.by # w /\ \E p \in Range(queue) : Late(q, p)
  <2>1. \A q \in Range(Orphaned({w})) : q.by # w /\ \E p \in Range(queue) : Late(q, p)
    BY <1>4, OrphanedRange DEF Callers
  <2>2. CASE t \in Commands
    <3>1. queue' = Append(Orphaned({w}), Command(w, j, t)) /\ Command(w, j, t) \in CommandSet
      BY <1>1, <1>3, <2>2 DEF Send, Command, CommandSet, NoWorker, Commands
    <3>2. Range(queue') = Range(Orphaned({w})) \cup {Command(w, j, t)}
      BY <1>4, <3>1, AppendRange, OrphanedKeeps
    <3> QED
      BY <2>1, <2>2, <3>2
  <2>3. CASE t \notin Commands
    BY <2>1, <2>3 DEF Send
  <2> QED
    BY <2>2, <2>3
<1>6. /\ \A k \in Jobs \ {j} : release'[k] = release[k]
      /\ t \notin {"prepare", "validate"} => release'[j] = release[j]
      /\ t = "prepare" => release'[j] = [release[j] EXCEPT !.prev = Len0]
      /\ t = "validate" => \E c \in Contents, p \in release[j].prev .. Len0 :
           release'[j] = [n |-> Len0 + 1, c |-> c, old |-> Len0, prev |-> p]
  BY <1>1, <1>2, <1>4 DEF Prepare, NoWorker, ActiveNumber
<1>7. /\ Path /\ CallTypes /\ Owned /\ QueuePrepared /\ Acked /\ Evidenced /\ ReleaseFits
      /\ CommittedListed /\ Few /\ WorkerPrepared /\ NotYet /\ Succeeded
  BY DEF CatalogInv, Calls, Listed
<1>8. /\ worker[w].job = j /\ worker[w].pc = s /\ worker'[w].pc = t /\ Len(versions) = Len0
  OBVIOUS
<1> HIDE DEF j, s, t, Len0
<1>9. Path' /\ CallTypes'
  <2>1. Path'
    BY <1>1, <1>2, <1>7, <1>8 DEF Path
  <2>2. reply' \in [Callers -> {"none", "wait", "ok", "err"}]
    BY <1>3, <1>7 DEF CallTypes
  <2> QED
    BY <1>1, <1>3, <1>7, <2>1, <2>2 DEF CallTypes
<1>10. Owned'
  <2> SUFFICES ASSUME NEW q \in Range(queue'), q.by \in Workers
               PROVE  worker'[q.by] = [job |-> q.job, pc |-> q.op]
    BY DEF Owned
  <2>1. CASE t \in Commands /\ q = Command(w, j, t)
    BY <1>1, <2>1 DEF Command, Commands
  <2>2. ASSUME NEW p \in Range(queue), Late(q, p), q.by # w
        PROVE  worker'[q.by] = [job |-> q.job, pc |-> q.op]
    BY <1>1, <1>7, <2>2, CallersAssumption DEF Owned, Late, Callers
  <2> QED
    BY <1>5, <2>1, <2>2
<1>11. Acked' /\ Evidenced'
  BY <1>1, <1>3, <1>7, <1>8 DEF Acked, Evidenced, CallTypes, Callers
<1>12. NotYet'
  <2>1. t = "commit" => /\ status'[j] \notin {"none", "queued"}
                        /\ \A v \in Workers \ {w} : worker[v].pc # "idle" => worker[v].job # j
    <3>1. ASSUME t = "commit" PROVE status[j] = "applying"
      BY <1>1, <1>2, <1>8, <3>1, AllApply DEF Known, IInv, TaskInv, TaskFits, StageFits, Kept, Effects
    <3>2. \A v \in Workers \ {w} : worker[v].pc # "idle" => worker[v].job # j
      BY <1>1, <1>8, AllApply DEF Known, IInv, TaskInv, OneTask, Kept
    <3> QED
      BY <1>1, <3>1, <3>2 DEF Written
  <2>2. ASSUME NEW k \in committed \cup commits
        PROVE  /\ status'[k] \notin {"none", "queued"}
               /\ \A v \in Workers : worker'[v].pc \in {"start", "prepare"} => worker'[v].job # k
    <3>1. k \in Jobs /\ status[k] \notin {"none", "queued"}
      BY <1>7 DEF CallTypes, NotYet
    <3>2. status'[k] \notin {"none", "queued"}
      BY <1>1, <3>1 DEF Written
    <3>3. ASSUME t \in {"start", "prepare"} PROVE j # k
      BY <1>2, <1>7, <1>8, <3>3 DEF NotYet
    <3> QED
      BY <1>1, <1>7, <1>8, <3>2, <3>3 DEF NotYet
  <2>3. ASSUME t = "commit"
        PROVE  \A v \in Workers : worker'[v].pc \in {"start", "prepare"} => worker'[v].job # j
    BY <1>1, <1>8, <2>1, <2>3
  <2> QED
    BY <1>3, <2>1, <2>2, <2>3 DEF NotYet
<1>13. s \in {"start", "prepare"} => j \notin committed
  BY <1>7, <1>8 DEF NotYet
<1>14. ReleaseFits'
  <2> SUFFICES ASSUME NEW k \in Jobs
               PROVE  IF Prepared(k)' THEN
                           /\ release'[k].n = release'[k].old + 1 /\ release'[k].n \in Numbers
                           /\ release'[k].old \in 1 .. Len0 /\ release'[k].prev \in 1 .. Len0
                           /\ release'[k].c \in Contents
                      ELSE /\ release'[k].n = 0 /\ release'[k].c = NoContent
                           /\ release'[k].prev \in 0 .. Len0
    BY <1>8 DEF ReleaseFits, Prepared
  <2>1. CASE release'[k] = release[k]
    BY <1>7, <1>8, <2>1 DEF ReleaseFits, Prepared
  <2>2. CASE k = j /\ t = "prepare"
    <3>1. release'[k] = [release[k] EXCEPT !.prev = Len0] /\ release[k] \in ReleaseSet
      BY <1>4, <1>6, <2>2
    <3>2. /\ release'[k].n = release[k].n /\ release'[k].old = release[k].old
          /\ release'[k].c = release[k].c /\ release'[k].prev = Len0
      BY <3>1 DEF ReleaseSet
    <3> QED
      BY <1>4, <1>7, <1>8, <3>2 DEF ReleaseFits, Prepared
  <2>3. CASE k = j /\ t = "validate"
    <3>1. PICK c \in Contents, p \in release[j].prev .. Len0 :
             release'[k] = [n |-> Len0 + 1, c |-> c, old |-> Len0, prev |-> p]
      BY <1>6, <2>3
    <3>2. release[j].prev \in 1 .. Len0
      <4>1. release[j].prev # 0
        BY <1>2, <1>7, <1>8, <2>3 DEF WorkerPrepared
      <4> QED
        BY <1>1, <1>4, <1>7, <1>8, <4>1 DEF ReleaseFits
    <3>3. Len0 + 1 \in Numbers
      BY <1>1, <1>2, <1>4, <1>7, <1>8, <1>13, <2>3, Room
    <3> QED
      BY <1>4, <3>1, <3>2, <3>3 DEF Prepared
  <2> QED
    BY <1>6, <2>1, <2>2, <2>3
<1>15. t = "validate" => release'[j].old = Len0 /\ release'[j].prev # 0
  <2> SUFFICES ASSUME t = "validate" PROVE release'[j].old = Len0 /\ release'[j].prev # 0
    OBVIOUS
  <2>1. release[j].prev \in Nat /\ release[j].prev # 0
    BY <1>1, <1>2, <1>4, <1>7, <1>8 DEF WorkerPrepared, ReleaseSet
  <2>2. PICK c \in Contents, p \in release[j].prev .. Len0 :
           release'[j] = [n |-> Len0 + 1, c |-> c, old |-> Len0, prev |-> p]
    BY <1>6
  <2> QED
    BY <1>4, <2>1, <2>2
<1>16. \A k \in Jobs : /\ release[k].old # 0 => release'[k].old # 0
                       /\ release[k].prev # 0 => release'[k].prev # 0
  <2> TAKE k \in Jobs
  <2>1. CASE release'[k] = release[k]
    BY <2>1
  <2>2. CASE k = j /\ t = "prepare"
    BY <1>4, <1>6, <2>2 DEF ReleaseSet
  <2>3. CASE k = j /\ t = "validate"
    BY <1>4, <1>15, <2>3
  <2> QED
    BY <1>6, <2>1, <2>2, <2>3
<1>17. /\ t = "prepare" => release'[j].prev # 0
       /\ t \in PastPrepare => release'[j].old # 0
  <2>1. t = "prepare" => release'[j].prev # 0
    BY <1>1, <1>4, <1>6 DEF ReleaseSet
  <2>2. s \in PastPrepare => release[j].old # 0
    BY <1>7, <1>8 DEF WorkerPrepared, Prepared
  <2> QED
    BY <1>1, <1>2, <1>4, <1>15, <1>16, <2>1, <2>2
<1>18. WorkerPrepared' /\ QueuePrepared'
  <2>1. ASSUME NEW v \in Workers
        PROVE  /\ worker'[v].pc \in PastPrepare => release'[worker'[v].job].old # 0
               /\ worker'[v].pc = "prepare" => release'[worker'[v].job].prev # 0
    <3>1. CASE v = w
      <4>1. t \in PastPrepare \cup {"prepare"} => worker'[w].job = j
        BY <1>1 DEF PastPrepare
      <4> QED
        BY <1>8, <1>17, <3>1, <4>1
    <3>2. CASE v # w /\ worker[v].pc # "idle"
      <4>1. worker[v].job \in Jobs /\ worker'[v] = worker[v]
        BY <1>1, <3>2, InTask DEF Known, IInv
      <4> QED
        BY <1>7, <1>16, <4>1 DEF WorkerPrepared, Prepared
    <3>3. CASE v # w /\ worker[v].pc = "idle"
      BY <1>1, <3>3 DEF PastPrepare
    <3> QED
      BY <3>1, <3>2, <3>3
  <2>2. ASSUME NEW q \in Range(queue'), q.op \in {"apply", "compensate"}
        PROVE  release'[q.job].old # 0
    <3>1. CASE t \in Commands /\ q = Command(w, j, t)
      <4>1. q.job = j /\ q.op = t
        BY <3>1 DEF Command
      <4> QED
        BY <1>17, <2>2, <4>1 DEF PastPrepare
    <3>2. ASSUME NEW p \in Range(queue), Late(q, p)
          PROVE  release'[q.job].old # 0
      <4>1. p \in CommandSet
        BY <1>4, RangeOfSeq
      <4>2. p.job \in Jobs
        BY <4>1 DEF CommandSet
      <4> QED
        BY <1>7, <1>16, <2>2, <3>2, <4>2 DEF QueuePrepared, Prepared, Late
    <3> QED
      BY <1>5, <3>1, <3>2
  <2> QED
    BY <2>1, <2>2 DEF WorkerPrepared, QueuePrepared, Prepared
<1>19. CommittedListed' /\ Few'
  <2>1. \A k \in committed : k \in Jobs /\ release'[k] = release[k]
    BY <1>2, <1>6, <1>7, <1>13 DEF CallTypes
  <2> QED
    BY <1>7, <2>1 DEF CommittedListed, Few
<1>20. Succeeded'
  <2>1. answered /\ s = "commit" => j \in committed
    BY <1>7, <1>8 DEF Answered, Acked, Commands
  <2>2. answered /\ s = "inspect" => j \in committed
    BY <1>8 DEF Answered, Inspected, Commands
  <2> QED
    BY <1>1, <1>7, <2>1, <2>2 DEF Succeeded, Written
<1> QED
  BY <1>9, <1>10, <1>11, <1>12, <1>14, <1>18, <1>19, <1>20 DEF CatalogInv, Calls, Listed

(* Answers, timeouts and losses: the commands that stay are those there    *)
(* were, and no commit is acknowledged.                                    *)
LEMMA AnswersKeep ==
  ASSUME Known, CatalogInv, UNCHANGED <<worker, status, reconciling>>,
         UNCHANGED <<release, versions, committed, evidence>>, commits' \subseteq commits,
         \A q \in Range(queue') : \E p \in Range(queue) : Late(q, p),
         reply' \in [Callers -> {"none", "wait", "ok", "err"}],
         \A w \in Workers : worker[w].pc = "commit" /\ reply'[w] = "ok" => reply[w] = "ok"
  PROVE  CatalogInv'
<1>1. /\ Path /\ CallTypes /\ Owned /\ QueuePrepared /\ Acked /\ Evidenced /\ ReleaseFits
      /\ CommittedListed /\ Few /\ WorkerPrepared /\ NotYet /\ Succeeded
  BY DEF CatalogInv, Calls, Listed
<1>2. Path' /\ Evidenced' /\ Few' /\ Succeeded'
  BY <1>1 DEF Path, Evidenced, Few, Succeeded
<1>3. CallTypes'
  BY <1>1 DEF CallTypes
<1>4. ReleaseFits' /\ CommittedListed' /\ WorkerPrepared'
  BY <1>1 DEF ReleaseFits, CommittedListed, WorkerPrepared, Prepared
<1>5. NotYet'
  BY <1>1 DEF NotYet
<1>6. Acked'
  BY <1>1 DEF Acked
<1>7. Owned' /\ QueuePrepared'
  <2>1. ASSUME NEW q \in Range(queue'), NEW p \in Range(queue), Late(q, p)
        PROVE  /\ q.by \in Workers => worker[q.by] = [job |-> q.job, pc |-> q.op]
               /\ q.op \in {"apply", "compensate"} => release[q.job].old # 0
    BY <1>1, <2>1, CallersAssumption DEF Owned, QueuePrepared, Prepared, Late, Callers
  <2> QED
    BY <2>1 DEF Owned, QueuePrepared, Prepared
<1> QED
  BY <1>2, <1>3, <1>4, <1>5, <1>6, <1>7 DEF CatalogInv, Calls, Listed

LEMMA LateItself == \A p : Late(p, p)
  BY DEF Late

(* The command at the head leaves the queue and is answered. *)
LEMMA AnswerFits ==
  ASSUME Known, CatalogInv, queue # <<>>, NEW a \in {"ok", "err"}, Answer(a)
  PROVE  /\ \A q \in Range(queue') : \E p \in Range(queue) : Late(q, p)
         /\ reply' \in [Callers -> {"none", "wait", "ok", "err"}]
         /\ \A w \in Workers : worker[w].pc = "commit" /\ reply'[w] = "ok" => reply[w] = "ok"
<1>1. queue \in Seq(CommandSet) /\ Owned /\ CallTypes
  BY DEF Known, PubIInv, Shape, CatalogInv, Calls
<1>2. Range(queue') \subseteq Range(queue) /\ First \in Range(queue) /\ First \in CommandSet
  BY <1>1, TailRange, RangeOfSeq DEF Answer, First
<1>3. First.by \in Workers => worker[First.by].pc # "commit"
  <2>1. First.op # "commit"
    BY <1>2 DEF CommandSet, Commands
  <2>2. First.by \in Workers => worker[First.by] = [job |-> First.job, pc |-> First.op]
    BY <1>1, <1>2 DEF Owned
  <2> QED
    BY <2>1, <2>2
<1>4. reply \in [Callers -> {"none", "wait", "ok", "err"}]
  BY <1>1 DEF CallTypes
<1> QED
  BY <1>2, <1>3, <1>4, LateItself DEF Answer, Callers

LEMMA SandboxesKeep ==
  ASSUME Known, CatalogInv,
         SandboxStep \/ SandboxCrash \/ \E c \in Clients : Admit(c) \/ EndRequest(c)
  PROVE  CatalogInv'
<1>1. /\ UNCHANGED <<worker, status, reconciling>> /\ UNCHANGED <<release, versions, committed, evidence>>
      /\ commits' = commits
  BY DEF SandboxStep, Block, DrainTimeOut, Quiesced, Apply, Verify, Resume, SandboxCrash, Admit, EndRequest
<1>2. reply \in [Callers -> {"none", "wait", "ok", "err"}]
  BY DEF CatalogInv, CallTypes
<1>3. CASE UNCHANGED <<queue, reply>>
  BY <1>1, <1>2, <1>3, LateItself, AnswersKeep
<1>4. ASSUME NEW a \in {"ok", "err"}, Answer(a), queue # <<>> PROVE CatalogInv'
  BY <1>1, <1>4, AnswerFits, AnswersKeep
<1>5. CASE SandboxStep
  <2>1. draining => queue # <<>>
    BY DEF Known, PubIInv, DrainBlocks
  <2>2. CASE Block
    BY <1>3, <2>2 DEF Block
  <2>3. CASE DrainTimeOut \/ Quiesced \/ Apply
    BY <1>4, <2>1, <2>3 DEF DrainTimeOut, Quiesced, Apply
  <2>4. CASE Verify \/ Resume
    BY <1>4, <2>4 DEF Verify, Resume
  <2> QED
    BY <1>5, <2>2, <2>3, <2>4 DEF SandboxStep
<1>6. CASE SandboxCrash
  <2>1. /\ queue' = <<>>
        /\ reply' = [x \in Callers |-> IF \E i \in DOMAIN queue : queue[i].by = x THEN "err" ELSE reply[x]]
    BY <1>6 DEF SandboxCrash
  <2>2. Range(queue') = {}
    BY <2>1 DEF Range
  <2>3. reply' \in [Callers -> {"none", "wait", "ok", "err"}]
        /\ \A x \in Callers : reply'[x] = "ok" => reply[x] = "ok"
    BY <1>2, <2>1
  <2> QED
    BY <1>1, <2>2, <2>3, AnswersKeep DEF Callers
<1>7. CASE \E c \in Clients : Admit(c) \/ EndRequest(c)
  BY <1>3, <1>7 DEF Admit, EndRequest
<1> QED
  BY <1>5, <1>6, <1>7

LEMMA LossKeeps ==
  ASSUME Known, CatalogInv, NEW x \in Callers, TimeOut(x) \/ Lose(x)
  PROVE  CatalogInv'
<1>1. /\ UNCHANGED <<worker, status, reconciling>> /\ UNCHANGED <<release, versions, committed, evidence>>
      /\ commits' \subseteq commits /\ reply' = [reply EXCEPT ![x] = "err"]
  BY DEF TimeOut, Lose
<1>2. reply' \in [Callers -> {"none", "wait", "ok", "err"}]
      /\ \A w \in Workers : reply'[w] = "ok" => reply[w] = "ok"
  BY <1>1 DEF CatalogInv, CallTypes, Callers
<1>3. queue \in Seq(CommandSet)
  BY DEF Known, PubIInv, Shape
<1>4. \A q \in Range(queue') : \E p \in Range(queue) : Late(q, p)
  <2>1. CASE queue' = Orphaned({x})
    BY <1>3, <2>1, OrphanedRange
  <2>2. CASE queue' = queue
    BY <2>2, LateItself
  <2>3. ASSUME NEW i \in DOMAIN queue, queue' = RemoveAt(queue, i)
        PROVE  Range(queue') \subseteq Range(queue)
    BY <1>3, <2>3, RemoveRange
  <2> QED
    BY <2>1, <2>2, <2>3, LateItself DEF TimeOut, Lose
<1> QED
  BY <1>1, <1>2, <1>4, AnswersKeep

(* The rows and tasks that the endpoints of operations write. *)
LEMMA EndpointsKeep ==
  ASSUME Known, CatalogInv, Stop \/ \E j \in Jobs : Submit(j) \/ Cancel(j),
         UNCHANGED <<release, versions, committed, commits, queue, reply, evidence>>
  PROVE  CatalogInv'
<1>1. /\ Path /\ CallTypes /\ Owned /\ QueuePrepared /\ Acked /\ Evidenced /\ ReleaseFits
      /\ CommittedListed /\ Few /\ WorkerPrepared /\ NotYet /\ Succeeded
      /\ queue \in Seq(CommandSet)
  BY DEF CatalogInv, Calls, Listed, Known, PubIInv, Shape
<1>2. /\ reconciling' = reconciling
      /\ \A k \in Jobs : \/ status'[k] = status[k]
                         \/ status[k] = "none" /\ status'[k] = "queued"
                         \/ status'[k] = "cancelled"
  BY DEF Submit, Cancel, Stop, SetStatus, Known, IInv, TypeOK
<1>3. \A w \in Workers : \/ worker'[w] = worker[w]
                         \/ /\ worker[w].pc = "idle"
                            /\ worker'[w].pc = "start" /\ status[worker'[w].job] = "none"
  BY DEF Submit, Cancel, Stop, Spawn, Free, Known, IInv, TypeOK
<1>4. Path'
  BY <1>1, <1>3 DEF Path, ApplyStages
<1>5. CallTypes' /\ QueuePrepared' /\ Evidenced' /\ ReleaseFits' /\ CommittedListed' /\ Few'
  BY <1>1, <1>2 DEF CallTypes, QueuePrepared, Evidenced, ReleaseFits, CommittedListed, Few, Prepared
<1>6. Owned'
  <2> SUFFICES ASSUME NEW q \in Range(queue), q.by \in Workers
               PROVE  worker'[q.by] = [job |-> q.job, pc |-> q.op]
    BY DEF Owned
  <2>1. worker[q.by] = [job |-> q.job, pc |-> q.op]
    BY <1>1 DEF Owned
  <2>2. q.op \in Commands
    <3>1. q \in CommandSet
      BY <1>1, RangeOfSeq
    <3> QED
      BY <3>1 DEF CommandSet
  <2> QED
    BY <1>3, <2>1, <2>2 DEF Commands
<1>7. Acked' /\ WorkerPrepared'
  BY <1>1, <1>3 DEF Acked, WorkerPrepared, Prepared, PastPrepare
<1>8. NotYet' /\ Succeeded'
  BY <1>1, <1>2, <1>3 DEF NotYet, Succeeded, CallTypes
<1> QED
  BY <1>4, <1>5, <1>6, <1>7, <1>8 DEF CatalogInv, Calls, Listed

LEMMA RestartKeeps ==
  ASSUME Known, CatalogInv, Start, queue' = Orphaned(Callers), reply' = [x \in Callers |-> "none"],
         evidence' = [k \in Jobs |-> "none"], UNCHANGED <<release, versions, committed, commits>>
  PROVE  CatalogInv'
<1>1. /\ Path /\ CallTypes /\ Owned /\ QueuePrepared /\ Acked /\ Evidenced /\ ReleaseFits
      /\ CommittedListed /\ Few /\ WorkerPrepared /\ NotYet /\ Succeeded
      /\ queue \in Seq(CommandSet)
  BY DEF CatalogInv, Calls, Listed, Known, PubIInv, Shape
<1>2. \A k \in Jobs : status'[k] \in {status[k], "needs_recovery"}
  BY DEF Start
<1>3. \A w \in Workers : \/ worker'[w] = NoWorker
                         \/ \E k \in Jobs : /\ status[k] = "queued"
                                            /\ worker'[w] = [job |-> k, pc |-> "start"]
  <2>1. PICK task \in [Requeued -> Workers] :
           worker' = [w \in Workers |->
            IF \E k \in Requeued : task[k] = w
              THEN [job |-> CHOOSE k \in Requeued : task[k] = w, pc |-> "start"]
              ELSE NoWorker]
    BY DEF Start
  <2>2. ASSUME NEW w \in Workers, \E k \in Requeued : task[k] = w
        PROVE  (CHOOSE k \in Requeued : task[k] = w) \in Requeued
    BY <2>2
  <2> QED
    BY <2>1, <2>2 DEF Requeued
<1>4. Path' /\ WorkerPrepared'
  <2>1. \A w \in Workers : worker'[w].pc \in {"idle", "start"}
    <3> TAKE w \in Workers
    <3>1. CASE worker'[w] = NoWorker
      BY <3>1 DEF NoWorker
    <3>2. ASSUME NEW k \in Jobs, worker'[w] = [job |-> k, pc |-> "start"]
          PROVE  worker'[w].pc = "start"
      BY <3>2
    <3> QED
      BY <1>3, <3>1, <3>2
  <2> QED
    BY <2>1 DEF Path, WorkerPrepared, ApplyStages, PastPrepare
<1>5. CallTypes' /\ Evidenced' /\ ReleaseFits' /\ CommittedListed' /\ Few' /\ Acked'
  BY <1>1 DEF CallTypes, Evidenced, ReleaseFits, CommittedListed, Few, Prepared, Acked, Callers
<1>6. \A q \in Range(queue') : q.by \notin Callers /\ \E p \in Range(queue) : Late(q, p)
  BY <1>1, OrphanedRange
<1>7. Owned' /\ QueuePrepared'
  BY <1>1, <1>6 DEF Owned, QueuePrepared, Prepared, Late, Callers
<1>8. NotYet'
  <2>1. \A w \in Workers : worker'[w].pc # "idle" => status[worker'[w].job] = "queued"
    <3> TAKE w \in Workers
    <3>1. CASE worker'[w] = NoWorker
      BY <3>1 DEF NoWorker
    <3>2. ASSUME NEW k \in Jobs, status[k] = "queued", worker'[w] = [job |-> k, pc |-> "start"]
          PROVE  status[worker'[w].job] = "queued"
      BY <3>2
    <3> QED
      BY <1>3, <3>1, <3>2
  <2> QED
    BY <1>1, <1>2, <2>1 DEF NotYet, CallTypes
<1>9. Succeeded'
  BY <1>1, <1>2 DEF Succeeded
<1> QED
  BY <1>4, <1>5, <1>7, <1>8, <1>9 DEF CatalogInv, Calls, Listed

(* The conditional commit adds the release as the version it was prepared  *)
(* to be, or adds nothing.                                                 *)
LEMMA CommitKeeps ==
  ASSUME Known, CatalogInv, NEW j \in Jobs, Commit(j), release' = release
  PROVE  /\ ReleaseFits' /\ CommittedListed' /\ Few' /\ versions' \in Seq(Contents)
         /\ committed \subseteq committed' /\ committed' \subseteq committed \cup {j}
         /\ CommitAccepted(j) => j \in committed'
<1>1. /\ ReleaseFits /\ CommittedListed /\ Few /\ CallTypes /\ versions # <<>>
      /\ versions \in Seq(Contents)
  BY DEF CatalogInv, Listed, CallTypes, Known, PubIInv, Shape
<1>2. CASE UNCHANGED <<versions, committed>> /\ (CommitAccepted(j) => j \in committed)
  BY <1>1, <1>2 DEF ReleaseFits, CommittedListed, Few, Prepared
<1>3. CASE j \notin committed /\ CommitAccepted(j)
  <2>1. /\ versions' = Append(versions, release[j].c) /\ committed' = committed \cup {j}
        /\ Len(versions) = release[j].old
    BY <1>3 DEF Commit, CommitAccepted, ActiveNumber
  <2>2. Len(versions) \in Nat /\ Len(versions) # 0
    BY <1>1, LenProperties, EmptySeq
  <2>3. release[j].c \in Contents /\ release[j].n = Len(versions) + 1
    BY <1>1, <2>1, <2>2 DEF ReleaseFits, Prepared
  <2>4. /\ versions' \in Seq(Contents) /\ Len(versions') = Len(versions) + 1
        /\ \A i \in 1 .. Len(versions) : versions'[i] = versions[i]
        /\ versions'[Len(versions) + 1] = release[j].c
    BY <1>1, <2>1, <2>3, AppendProperties
  <2>5. ReleaseFits'
    BY <1>1, <2>2, <2>4 DEF ReleaseFits, Prepared
  <2>6. CommittedListed'
    BY <1>1, <2>1, <2>2, <2>3, <2>4 DEF CommittedListed
  <2>7. Few'
    BY <1>1, <1>3, <2>1, <2>2, <2>4, Room DEF Few
  <2> QED
    BY <2>1, <2>4, <2>5, <2>6, <2>7
<1> QED
  BY <1>2, <1>3 DEF Commit, CommitAccepted

LEMMA CommitRunKeeps ==
  ASSUME Known, CatalogInv, NEW j \in Jobs, CommitRun(j) PROVE CatalogInv'
<1>1. /\ Path /\ CallTypes /\ Owned /\ QueuePrepared /\ Acked /\ Evidenced /\ ReleaseFits
      /\ CommittedListed /\ Few /\ WorkerPrepared /\ NotYet /\ Succeeded
  BY DEF CatalogInv, Calls, Listed
<1>2. /\ UNCHANGED <<worker, status, reconciling>> /\ UNCHANGED <<release, queue, evidence>>
      /\ j \in commits /\ commits' = commits \ {j} /\ Commit(j)
  BY DEF CommitRun
<1>3. /\ ReleaseFits' /\ CommittedListed' /\ Few' /\ versions' \in Seq(Contents)
      /\ committed \subseteq committed' /\ committed' \subseteq committed \cup {j}
      /\ CommitAccepted(j) => j \in committed'
  BY <1>2, CommitKeeps
<1>4. /\ reply' \in [Callers -> {"none", "wait", "ok", "err"}]
      /\ \A w \in Workers : reply'[w] = "ok" => \/ reply[w] = "ok"
                                                \/ worker[w].job = j /\ j \in committed'
  BY <1>1, <1>3 DEF CommitRun, CallTypes, Callers
<1>5. Path' /\ Owned' /\ QueuePrepared' /\ WorkerPrepared' /\ Evidenced' /\ Succeeded'
  BY <1>1, <1>2, <1>3 DEF Path, Owned, QueuePrepared, WorkerPrepared, Prepared, Evidenced, Succeeded
<1>6. CallTypes' /\ Acked'
  BY <1>1, <1>2, <1>3, <1>4 DEF CallTypes, Acked
<1>7. NotYet'
  BY <1>1, <1>2, <1>3 DEF NotYet
<1> QED
  BY <1>3, <1>5, <1>6, <1>7 DEF CatalogInv, Calls, Listed

(* A job whose evidence is gathered has no task before its commit.         *)
LEMMA ReconciledSettled ==
  ASSUME Known, CatalogInv, NEW j \in Jobs, j \in reconciling
  PROVE  /\ status[j] \notin {"none", "queued"}
         /\ \A w \in Workers : worker[w].pc \in {"start", "prepare"} => worker[w].job # j
<1>1. status[j] \in {"failed", "succeeded"} \cup Held
  BY AllApply DEF Known, IInv, TaskInv, EvidenceAlone, Kept
<1>2. ASSUME NEW w \in Workers, worker[w].pc \in {"start", "prepare"}
      PROVE  status[worker[w].job] \in {"queued", "running", "cancelled"}
  <2>1. worker[w].job \in Jobs
    BY <1>2, InTask DEF Known, IInv
  <2> QED
    BY <1>2, <2>1, AllApply DEF Known, IInv, TaskInv, TaskFits, StageFits, Kept, Quiet
<1> QED
  BY <1>1, <1>2 DEF Held

(* What the steps of reconcile() do with the calls and the rows. *)
LEMMA ReconcileFacts ==
  ASSUME Known, CatalogInv, NEW j \in Jobs, RecBegin(j) \/ Reconcile(j)
  PROVE  /\ UNCHANGED <<worker, release, commits>>
         /\ evidence' \in [Jobs -> {"none", "check", "status", "commit", "resume"}]
         /\ reply' \in [Callers -> {"none", "wait", "ok", "err"}]
         /\ \A w \in Workers : reply'[w] = reply[w]
         /\ \A k \in Jobs \ {j} : evidence'[k] = evidence[k] /\ (k \in reconciling' <=> k \in reconciling)
         /\ evidence'[j] # "none" => j \in reconciling'
         /\ evidence'[j] = "resume" => j \in committed'
         /\ \A k \in Jobs : status'[k] = status[k] \/ (k \in committed /\ status'[k] = "succeeded")
<1>1. /\ evidence \in [Jobs -> {"none", "check", "status", "commit", "resume"}]
      /\ reply \in [Callers -> {"none", "wait", "ok", "err"}]
      /\ evidence[j] # "none" => j \in reconciling
      /\ evidence[j] = "resume" => j \in committed
      /\ j \in Callers /\ j \notin Workers
  BY CallersAssumption DEF CatalogInv, CallTypes, Calls, Evidenced, Callers
<1>2. CASE RecBegin(j)
  BY <1>1, <1>2 DEF RecBegin, ReconcileBegin
<1>3. CASE RecCheck(j)
  <2>1. UNCHANGED <<worker, release, commits, committed, status>> /\ evidence[j] = "check"
    BY <1>3 DEF RecCheck, CallResume, RecNext, RecFail, ReconcileFailed
  <2>2. CASE j \in committed /\ CallResume(j)
    BY <1>1, <2>1, <2>2 DEF CallResume
  <2>3. CASE RecNext(j, "status")
    BY <1>1, <1>3, <2>1, <2>3 DEF RecNext, RecCheck
  <2>4. CASE RecFail(j)
    BY <1>1, <2>1, <2>4 DEF RecFail, ReconcileFailed
  <2> QED
    BY <1>3, <2>2, <2>3, <2>4 DEF RecCheck
<1>4. CASE RecObserve(j)
  <2>1. UNCHANGED <<worker, release, commits, committed, status>> /\ evidence[j] = "status"
    BY <1>4 DEF RecObserve, RecNext, RecFail, ReconcileFailed
  <2>2. CASE RecNext(j, "commit")
    BY <1>1, <2>1, <2>2 DEF RecNext
  <2>3. CASE RecFail(j)
    BY <1>1, <2>1, <2>3 DEF RecFail, ReconcileFailed
  <2> QED
    BY <1>4, <2>2, <2>3 DEF RecObserve
<1>5. CASE RecCommit(j)
  <2>1. CASE Commit(j) /\ CommitAccepted(j) /\ CallResume(j)
    <3>1. j \in committed'
      BY <2>1 DEF Commit, CommitAccepted
    <3> QED
      BY <1>1, <1>5, <2>1, <3>1 DEF RecCommit, CallResume
  <2>2. CASE RecFail(j)
    BY <1>1, <1>5, <2>2 DEF RecCommit, RecFail, ReconcileFailed
  <2> QED
    BY <1>5, <2>1, <2>2 DEF RecCommit
<1>6. CASE RecEnd(j)
  <2>1. CASE RecFail(j)
    BY <1>1, <1>6, <2>1 DEF RecEnd, RecFail, ReconcileFailed
  <2>2. CASE ReconcileDone(j)
    <3>1. /\ UNCHANGED <<worker, release, commits, committed>> /\ j \in committed
          /\ \A k \in Jobs : status'[k] = IF k = j THEN "succeeded" ELSE status[k]
          /\ reconciling' = reconciling \ {j}
      BY <1>1, <1>6, <2>2 DEF RecEnd, ReconcileDone, SetStatus, Known, IInv, TypeOK
    <3>2. CASE reply[j] = "ok" /\ evidence' = [evidence EXCEPT ![j] = "none"]
               /\ reply' = [reply EXCEPT ![j] = "none"]
      BY <1>1, <3>1, <3>2
    <3> QED
      BY <1>6, <2>1, <3>2 DEF RecEnd
  <2> QED
    BY <1>6, <2>1, <2>2 DEF RecEnd
<1> QED
  BY <1>2, <1>3, <1>4, <1>5, <1>6 DEF Reconcile

LEMMA EvidenceKeeps ==
  ASSUME Known, CatalogInv, NEW j \in Jobs, RecBegin(j) \/ Reconcile(j) PROVE CatalogInv'
<1>1. /\ Path /\ CallTypes /\ Owned /\ QueuePrepared /\ Acked /\ Evidenced /\ ReleaseFits
      /\ CommittedListed /\ Few /\ WorkerPrepared /\ NotYet /\ Succeeded
      /\ queue \in Seq(CommandSet)
  BY DEF CatalogInv, Calls, Listed, Known, PubIInv, Shape
<1>2. \/ UNCHANGED <<versions, committed>>
      \/ Commit(j) /\ j \in reconciling
  <2>1. CASE RecCommit(j)
    BY <1>1, <2>1 DEF RecCommit, Evidenced
  <2> QED
    BY <2>1 DEF RecBegin, Reconcile, RecCheck, RecObserve, RecEnd
<1>3. /\ ReleaseFits' /\ CommittedListed' /\ Few' /\ versions' \in Seq(Contents)
      /\ committed \subseteq committed' /\ committed' \subseteq committed \cup {j}
      /\ j \in reconciling \/ committed' = committed
  <2>1. release' = release
    BY ReconcileFacts
  <2>2. CASE UNCHANGED <<versions, committed>>
    BY <1>1, <2>1, <2>2 DEF ReleaseFits, CommittedListed, Few, Prepared, CallTypes
  <2>3. CASE Commit(j) /\ j \in reconciling
    BY <2>1, <2>3, CommitKeeps
  <2> QED
    BY <1>2, <2>2, <2>3
<1>4. Path' /\ WorkerPrepared' /\ Acked'
  BY <1>1, <1>3, ReconcileFacts DEF Path, WorkerPrepared, Prepared, Acked
<1>5. CallTypes' /\ Evidenced'
  BY <1>1, <1>3, ReconcileFacts DEF CallTypes, Evidenced
<1>6. NotYet' /\ Succeeded'
  BY <1>1, <1>3, ReconcileFacts, ReconciledSettled DEF NotYet, Succeeded, CallTypes
<1>7. \A q \in Range(queue') : \/ q = Command(j, j, "resume")
                               \/ \E p \in Range(queue) : Late(q, p)
  <2>1. CASE queue' = queue
    BY <2>1, LateItself
  <2>2. CASE queue' = Orphaned({j})
    BY <1>1, <2>2, OrphanedRange DEF Callers
  <2>3. CASE queue' = Append(queue, Command(j, j, "resume"))
    <3>1. Command(j, j, "resume") \in CommandSet
      BY DEF Command, CommandSet, Callers, Commands
    <3> QED
      BY <1>1, <2>3, <3>1, AppendRange, LateItself
  <2>4. \/ queue' = queue \/ queue' = Orphaned({j})
        \/ queue' = Append(queue, Command(j, j, "resume"))
    <3>1. CASE RecBegin(j)
      BY <3>1 DEF RecBegin
    <3>2. CASE RecCheck(j) \/ RecObserve(j) \/ RecCommit(j)
      BY <3>2 DEF RecCheck, RecObserve, RecCommit, CallResume, RecFail, RecNext
    <3>3. CASE RecEnd(j)
      BY <3>3 DEF RecEnd, RecFail
    <3> QED
      BY <3>1, <3>2, <3>3 DEF Reconcile
  <2> QED
    BY <2>1, <2>2, <2>3, <2>4
<1>8. Owned' /\ QueuePrepared'
  <2>1. ASSUME NEW q \in Range(queue')
        PROVE  /\ q.by \in Workers => worker[q.by] = [job |-> q.job, pc |-> q.op]
               /\ q.op \in {"apply", "compensate"} => release[q.job].old # 0
    <3>1. CASE q = Command(j, j, "resume")
      BY <3>1, CallersAssumption DEF Command
    <3>2. ASSUME NEW p \in Range(queue), Late(q, p)
          PROVE  /\ q.by \in Workers => worker[q.by] = [job |-> q.job, pc |-> q.op]
                 /\ q.op \in {"apply", "compensate"} => release[q.job].old # 0
      BY <1>1, <3>2, CallersAssumption DEF Owned, QueuePrepared, Prepared, Late, Callers
    <3> QED
      BY <1>7, <3>1, <3>2
  <2>2. UNCHANGED <<worker, release>>
    BY ReconcileFacts
  <2> QED
    BY <2>1, <2>2 DEF Owned, QueuePrepared, Prepared
<1> QED
  BY <1>3, <1>4, <1>5, <1>6, <1>8 DEF CatalogInv, Calls, Listed

LEMMA OperationsKeep ==
  ASSUME Known, TypeOK', CatalogInv, OperationsStep PROVE CatalogInv'
<1>1. ASSUME NEW w \in Workers, DeliverCancel(w), Send(w), UNCHANGED evidence PROVE CatalogInv'
  <2>1. worker[w].pc # "idle"
    BY <1>1 DEF DeliverCancel, Known, IInv, TasksCancelled, Free
  <2>2. WorkerMoves(w, FALSE)
    BY <1>1, <2>1, CancelMoves DEF Known, IInv, CatalogInv
  <2> QED
    BY <1>1, <2>2, WorkerKeeps DEF OperationsStep
<1>2. CASE \/ Stop /\ UNCHANGED <<queue, commits, reply, evidence>>
           \/ (\E j \in Jobs : Submit(j) \/ Cancel(j)) /\ UNCHANGED <<queue, commits, reply, evidence>>
  BY <1>2, EndpointsKeep DEF OperationsStep
<1>3. CASE (Restart \/ Crash) /\ queue' = Orphaned(Callers) /\ reply' = [x \in Callers |-> "none"]
           /\ evidence' = [j \in Jobs |-> "none"] /\ UNCHANGED commits
  BY <1>3, RestartKeeps DEF OperationsStep, Restart, Crash
<1> QED
  BY <1>1, <1>2, <1>3 DEF OperationsStep, Operations

LEMMA CatalogInvStep ==
  ASSUME Known, TypeOK', CatalogInv, [PubNext]_pubVars PROVE CatalogInv'
<1>1. ASSUME NEW w \in Workers, WorkerAnswered(w) PROVE CatalogInv'
  <2>1. WorkerMoves(w, TRUE)
    BY <1>1, AnswerMoves DEF WorkerAnswered, Known, IInv, CatalogInv
  <2> QED
    BY <1>1, <2>1, WorkerKeeps DEF WorkerAnswered
<1>2. ASSUME NEW w \in Workers, WorkerFailed(w) PROVE CatalogInv'
  <2>1. WorkerMoves(w, FALSE)
    BY <1>2, ErrorMoves DEF WorkerFailed, Known, IInv, CatalogInv
  <2> QED
    BY <1>2, <2>1, WorkerKeeps DEF WorkerFailed
<1>3. CASE UNCHANGED pubVars
  BY <1>3, LateItself, AnswersKeep DEF CatalogInv, CallTypes
<1> QED
  BY <1>1, <1>2, <1>3, OperationsKeep, SandboxesKeep, LossKeeps, CommitRunKeeps, EvidenceKeeps DEF PubNext

----------------------------------------------------------------------------
(* Types of the sandboxes' state *)

SandboxTypes ==
  /\ cached \in [Numbers -> Contents \cup {NoContent}]
  /\ draining \in BOOLEAN
  /\ override \in Numbers \cup {0} /\ verified \in Numbers \cup {0}
  /\ serving \in [Clients -> [n : Numbers, c : Contents] \cup {NoVersion}]
  /\ faults \in Nat /\ reconciles \in Nat /\ proved \subseteq Jobs

LEMMA VersionTypes ==
  ASSUME Known, CatalogInv, SandboxTypes
  PROVE  /\ ActiveVersion \in [n : Numbers, c : Contents]
         /\ Loaded \in [n : Numbers, c : Contents \cup {NoContent}]
         /\ \A q \in Range(queue) : q.op \in {"apply", "compensate"} =>
              Bundle(q) \in [n : Numbers, c : Contents]
<1>1. /\ versions \in Seq(Contents) /\ versions # <<>> /\ CallTypes /\ ReleaseFits /\ QueuePrepared /\ Few
      /\ queue \in Seq(CommandSet)
  BY DEF Known, PubIInv, Shape, CatalogInv, CallTypes, Listed, Calls
<1>2. /\ Len(versions) \in Numbers /\ Len(versions) \in Nat
      /\ \A i \in 1 .. Len(versions) : i \in Numbers /\ versions[i] \in Contents
  <2>1. Len(versions) \in Numbers /\ Len(versions) \in Nat /\ Cardinality(Jobs) \in Nat
    BY <1>1, Room, LenProperties, JobsFinite, FS_CardinalityType
  <2>2. \A i \in 1 .. Len(versions) : i \in Numbers
    BY <2>1 DEF Numbers
  <2>3. \A i \in 1 .. Len(versions) : versions[i] \in Contents
    BY <1>1, ElementOfSeq
  <2> QED
    BY <2>1, <2>2, <2>3
<1>3. ActiveVersion \in [n : Numbers, c : Contents]
  <2>1. Len(versions) \in 1 .. Len(versions)
    BY <1>1, <1>2, EmptySeq
  <2> QED
    BY <1>2, <2>1 DEF ActiveVersion, ActiveNumber, Version
<1>4. Loaded \in [n : Numbers, c : Contents \cup {NoContent}]
  <2>1. override # 0 => Staged \in [n : Numbers, c : Contents \cup {NoContent}]
    BY DEF SandboxTypes, Staged, Version
  <2> QED
    BY <1>3, <2>1 DEF Loaded
<1>5. ASSUME NEW q \in Range(queue), q.op \in {"apply", "compensate"}
      PROVE  Bundle(q) \in [n : Numbers, c : Contents]
  <2>1. q \in CommandSet
    BY <1>1, RangeOfSeq
  <2>2. q.job \in Jobs
    BY <2>1 DEF CommandSet
  <2>3. /\ release[q.job].n \in Numbers /\ release[q.job].c \in Contents
        /\ release[q.job].prev \in 1 .. Len(versions)
    BY <1>1, <1>5, <2>2 DEF ReleaseFits, QueuePrepared
  <2> QED
    BY <1>2, <2>3 DEF Bundle, Version
<1> QED
  BY <1>3, <1>4, <1>5

LEMMA InstallType ==
  ASSUME SandboxTypes, NEW v \in [n : Numbers, c : Contents \cup {NoContent}], Install(v)
  PROVE  cached' \in [Numbers -> Contents \cup {NoContent}]
  BY DEF SandboxTypes, Install

LEMMA LoadType ==
  ASSUME Known, CatalogInv, SandboxTypes, Load
  PROVE  cached' \in [Numbers -> Contents \cup {NoContent}]
<1>1. Loaded \in [n : Numbers, c : Contents \cup {NoContent}]
  BY VersionTypes
<1>2. CASE Install(Loaded)
  <2> PICK v \in [n : Numbers, c : Contents \cup {NoContent}] : v = Loaded
    BY <1>1
  <2> QED
    BY <1>2, InstallType
<1>3. CASE cached' = cached
  BY <1>3 DEF SandboxTypes
<1> QED
  BY <1>2, <1>3 DEF Load

LEMMA SandboxTypesStep ==
  ASSUME Known, CatalogInv, SandboxTypes, [PubNext]_pubVars PROVE SandboxTypes'
<1>1. CASE UNCHANGED <<cached, draining, override, verified, serving, proved>>
           /\ faults' \in Nat /\ reconciles' \in Nat
  BY <1>1 DEF SandboxTypes
<1>2. ASSUME NEW c \in Clients, Admit(c) PROVE SandboxTypes'
  <2>1. Loaded \in [n : Numbers, c : Contents]
    <3>1. override = 0
      BY <1>2 DEF Admit, Admitted, Known, PubIInv, StagedBehindBlock
    <3> QED
      BY <3>1, VersionTypes DEF Loaded
  <2>2. /\ UNCHANGED <<draining, override, verified, faults, reconciles, proved>>
        /\ serving' = [serving EXCEPT ![c] = Loaded]
        /\ cached' \in [Numbers -> Contents \cup {NoContent}]
    BY <1>2, LoadType DEF Admit
  <2> QED
    BY <2>1, <2>2 DEF SandboxTypes
<1>3. ASSUME NEW c \in Clients, EndRequest(c) PROVE SandboxTypes'
  BY <1>3 DEF EndRequest, SandboxTypes
<1>4. CASE SandboxCrash
  <2>1. /\ UNCHANGED <<cached, override, verified, reconciles, proved>> /\ faults' = faults + 1
        /\ draining' = FALSE /\ serving' = [c \in Clients |-> NoVersion]
    BY <1>4 DEF SandboxCrash, Fault
  <2>2. serving' \in [Clients -> [n : Numbers, c : Contents] \cup {NoVersion}]
    BY <2>1
  <2>3. draining' \in BOOLEAN
    BY <2>1, Zenon
  <2>4. faults' \in Nat
    BY <2>1 DEF SandboxTypes
  <2> QED
    BY <2>1, <2>2, <2>3, <2>4 DEF SandboxTypes
<1>5. CASE Block \/ DrainTimeOut \/ Quiesced
  BY <1>5 DEF Block, DrainTimeOut, Quiesced, SandboxTypes
<1>6. CASE Apply
  <2>1. First \in Range(queue)
    BY <1>6, TailRange DEF Apply, First, Known, PubIInv, Shape, DrainBlocks
  <2>2. PICK v \in [n : Numbers, c : Contents] : v = Bundle(First)
    BY <1>6, <2>1, VersionTypes DEF Apply
  <2>3. /\ UNCHANGED <<serving, faults, reconciles, proved>> /\ draining' = FALSE /\ verified' = 0
        /\ \/ Install(v) /\ override' = v.n
           \/ UNCHANGED <<cached, override>>
    BY <1>6, <2>2 DEF Apply
  <2>4. Install(v) => cached' \in [Numbers -> Contents \cup {NoContent}]
    BY DEF Install, SandboxTypes
  <2> QED
    BY <2>3, <2>4 DEF SandboxTypes
<1>7. CASE Verify
  <2>1. First \in CommandSet /\ First.job \in Jobs
    <3>1. queue \in Seq(CommandSet) /\ queue # <<>>
      BY <1>7 DEF Verify, Known, PubIInv, Shape
    <3>2. First \in CommandSet
      BY <3>1, TailRange, RangeOfSeq DEF First
    <3> QED
      BY <3>2 DEF CommandSet
  <2>2. cached' \in [Numbers -> Contents \cup {NoContent}]
    BY <1>7, LoadType DEF Verify
  <2>3. /\ UNCHANGED <<draining, override, serving, faults, reconciles>>
        /\ verified' \in {Loaded.n, verified} /\ proved' \subseteq proved \cup {First.job}
    BY <1>7 DEF Verify
  <2>4. Loaded.n \in Numbers
    BY VersionTypes
  <2> QED
    BY <2>1, <2>2, <2>3, <2>4 DEF SandboxTypes
<1>8. CASE Resume
  <2>1. UNCHANGED <<draining, verified, serving, faults, reconciles, proved>> /\ override' \in {0, override}
    BY <1>8 DEF Resume
  <2>2. cached' \in [Numbers -> Contents \cup {NoContent}]
    <3> PICK v \in [n : Numbers, c : Contents \cup {NoContent}] : v = ActiveVersion
      BY VersionTypes
    <3> QED
      BY <1>8, InstallType DEF Resume, SandboxTypes
  <2> QED
    BY <2>1, <2>2 DEF SandboxTypes
<1>9. ASSUME NEW j \in Jobs, RecObserve(j) PROVE SandboxTypes'
  <2>1. cached' \in [Numbers -> Contents \cup {NoContent}]
    BY <1>9, LoadType DEF RecObserve
  <2> QED
    BY <1>9, <2>1 DEF RecObserve, SandboxTypes
<1>10. ASSUME NEW j \in Jobs, RecBegin(j) \/ RecCheck(j) \/ RecCommit(j) \/ RecEnd(j) \/ CommitRun(j)
       PROVE  SandboxTypes'
  BY <1>10 DEF RecBegin, RecCheck, RecCommit, RecEnd, CommitRun, SandboxTypes
<1>11. ASSUME NEW w \in Workers, WorkerAnswered(w) \/ WorkerFailed(w) PROVE SandboxTypes'
  BY <1>1, <1>11 DEF WorkerAnswered, WorkerFailed, SandboxTypes
<1>12. ASSUME NEW x \in Callers, TimeOut(x) \/ Lose(x) PROVE SandboxTypes'
  BY <1>12 DEF TimeOut, Lose, Fault, SandboxTypes
<1>13. CASE OperationsStep \/ UNCHANGED pubVars
  BY <1>13 DEF OperationsStep, SandboxTypes
<1> QED
  BY <1>2, <1>3, <1>4, <1>5, <1>6, <1>7, <1>8, <1>9, <1>10, <1>11, <1>12, <1>13
     DEF PubNext, SandboxStep, Reconcile

LEMMA CatalogInit ==
  ASSUME PubInit PROVE CatalogInv /\ SandboxTypes
<1>1. PICK c \in Contents : versions = <<c>>
  BY DEF PubInit
<1>2. versions \in Seq(Contents) /\ Len(versions) = 1
  BY <1>1
<1>3. Range(queue) = {}
  BY DEF PubInit, Range
<1>4. Path /\ WorkerPrepared
  BY DEF PubInit, Init, Path, WorkerPrepared, ApplyStages, PastPrepare, NoWorker
<1>5. CallTypes /\ Calls
  BY <1>2, <1>3 DEF PubInit, Init, CallTypes, Calls, Owned, QueuePrepared, Acked, Evidenced, Callers
<1>6. Listed
  <2>1. Few /\ CommittedListed
    BY <1>2, FS_EmptySet DEF PubInit, Few, CommittedListed
  <2>2. ReleaseFits
    BY <1>2 DEF PubInit, ReleaseFits, Prepared, NoRelease
  <2> QED
    BY <2>1, <2>2 DEF Listed
<1>7. NotYet /\ Succeeded
  BY DEF PubInit, Init, NotYet, Succeeded
<1>8. SandboxTypes
  BY DEF PubInit, SandboxTypes
<1> QED
  BY <1>4, <1>5, <1>6, <1>7, <1>8 DEF CatalogInv

(* What the catalog, its callers and the job table agree on holds in every *)
(* reachable state, and so do the types of the sandboxes' state.           *)
THEOREM CatalogInvariance == PubSpec => [](CatalogInv /\ SandboxTypes)
<1>1. PubInit => CatalogInv /\ SandboxTypes
  BY CatalogInit
<1>2. Known /\ TypeOK' /\ (CatalogInv /\ SandboxTypes) /\ [PubNext]_pubVars => (CatalogInv /\ SandboxTypes)'
  BY CatalogInvStep, SandboxTypesStep
<1>3. IInv /\ TaskInv /\ PubIInv => Known /\ TypeOK
  BY DEF Known, IInv
<1> QED
  BY <1>1, <1>2, <1>3, PublicationImplementsJobStore, Invariance, TaskInvariance, PublicationInvariance,
     PTL DEF PubSpec

(* A publication that reports success is committed in the catalog, under   *)
(* its own number and with its own content, whether the worker, the look-  *)
(* up after a lost answer or a reconciliation reports it.                  *)
THEOREM SuccessIsCommitted == PubSpec => []SucceededCommitted
<1>1. CatalogInv /\ PubIInv => SucceededCommitted
  <2> SUFFICES ASSUME CatalogInv, PubIInv, NEW j \in Jobs, status[j] = "succeeded"
               PROVE  j \in committed /\ Version(release[j].n, release[j].c) \in CommittedVersions
    BY DEF SucceededCommitted
  <2>1. /\ j \in committed /\ release[j].n \in 1 .. Len(versions)
        /\ versions[release[j].n] = release[j].c
    BY DEF CatalogInv, Succeeded, Listed, CommittedListed
  <2>2. DOMAIN versions = 1 .. Len(versions)
    BY LenProperties DEF PubIInv, Shape
  <2> QED
    BY <2>1, <2>2 DEF CommittedVersions
<1> QED
  BY <1>1, CatalogInvariance, PublicationInvariance, PTL

(* Catalog, queue, calls and sandboxes stay well typed; no more versions   *)
(* are committed, cached or staged than there are publications.            *)
THEOREM PublicationTypeCorrectness == PubSpec => []PubTypeOK
<1>1. Known /\ CatalogInv /\ SandboxTypes => PubTypeOK
  <2> SUFFICES ASSUME Known, CatalogInv, SandboxTypes PROVE PubTypeOK
    OBVIOUS
  <2>1. /\ TypeOK /\ CallTypes /\ versions # <<>> /\ Few /\ ReleaseFits
        /\ queue \in Seq(CommandSet) /\ blocked \in BOOLEAN /\ release \in [Jobs -> ReleaseSet]
    BY DEF Known, IInv, PubIInv, Shape, CatalogInv, Listed
  <2>2. Len(versions) \in Numbers /\ Len(versions) \in Nat /\ \A i \in 1 .. Len(versions) : i \in Numbers
    <3>1. Len(versions) \in Numbers /\ Len(versions) \in Nat /\ Cardinality(Jobs) \in Nat
      BY <2>1, Room, LenProperties, JobsFinite, FS_CardinalityType DEF CallTypes
    <3> QED
      BY <3>1 DEF Numbers
  <2>3. ASSUME NEW j \in Jobs
        PROVE  release[j] \in [n : Numbers, c : Contents, old : Numbers, prev : Numbers]
                              \cup {[NoRelease EXCEPT !.prev = n] : n \in Numbers \cup {0}}
    <3>0. release[j] \in ReleaseSet
      BY <2>1
    <3>1. CASE Prepared(j)
      BY <2>1, <2>2, <3>0, <3>1 DEF ReleaseFits, ReleaseSet
    <3>2. CASE ~Prepared(j)
      <4>1. release[j].prev \in Numbers \cup {0}
        BY <2>1, <2>2, <3>2 DEF ReleaseFits
      <4>2. release[j] = [n |-> 0, c |-> NoContent, old |-> 0, prev |-> release[j].prev]
        BY <2>1, <3>0, <3>2 DEF ReleaseFits, Prepared, ReleaseSet
      <4>3. release[j] = [NoRelease EXCEPT !.prev = release[j].prev]
        BY <4>2 DEF NoRelease
      <4> QED
        BY <4>1, <4>3
    <3> QED
      BY <3>1, <3>2
  <2>4. release \in [Jobs -> [n : Numbers, c : Contents, old : Numbers, prev : Numbers]
                             \cup {[NoRelease EXCEPT !.prev = n] : n \in Numbers \cup {0}}]
    BY <2>1, <2>3
  <2> QED
    BY <2>1, <2>2, <2>4 DEF PubTypeOK, CallTypes, SandboxTypes, CommandSet
<1>2. IInv /\ TaskInv /\ PubIInv => Known
  BY DEF Known
<1> QED
  BY <1>1, <1>2, CatalogInvariance, PublicationImplementsJobStore, Invariance, TaskInvariance,
     PublicationInvariance, PTL
=============================================================================
