-------------------------- MODULE ProcessingProofs --------------------------
(***************************************************************************)
(* Proofs about Processing, for any documents, workers, clients, endpoints *)
(* and any bound on the revisions; and that ProcessingSystem implements it *)
(* for any relays, batch sizes and faults, so that what is proved of       *)
(* Processing holds of the pipeline too.                                   *)
(***************************************************************************)
EXTENDS ProcessingSystem, FiniteSetTheorems, TLAPS

\* The actions of a worker's handler touch one worker and the run of its job.
LEMMA TaskType ==
    ASSUME TypeOK, TasksEnqueued, NEW w \in Workers, wpc[w] # "idle"
    PROVE  /\ wtask[w] \in intents
           /\ wtask[w] # NoTask
           /\ StageOf(w) \in Stages
           /\ RunOf(w) \in Runs
           /\ wtask[w] = <<StageOf(w), RunOf(w)>>
  <1>1. wtask[w] \in intents
    BY DEF TasksEnqueued
  <1>2. wtask[w] \in Stages \X Runs
    BY <1>1 DEF TypeOK, Intents
  <1> QED
    BY <1>1, <1>2 DEF StageOf, RunOf, NoTask

\* A run is a document and a revision.
LEMMA RunParts ==
    ASSUME NEW r \in Runs
    PROVE  r[1] \in Docs /\ r[2] \in Revisions /\ r = <<r[1], r[2]>>
  BY DEF Runs

\* Revisions are counted from one.
LEMMA RevisionIsNat == Revisions \subseteq Nat /\ Revisions \subseteq 1..MaxRevision
  BY MaxRevisionAssumption DEF Revisions

-----------------------------------------------------------------------------
(* Counting the runs of a document finds its last revision, because the    *)
(* revisions have no gap.                                                  *)

\* A document whose revisions are at most k has at most k runs.
LEMMA CountBound ==
    ASSUME NEW d \in Docs, NEW k \in Nat,
           \A r \in RunsOf(d) : r[2] \in 1..k
    PROVE  Cardinality(RunsOf(d)) \in 0..k
  <1>1. IsFiniteSet({d}) /\ Cardinality({d}) = 1
    BY FS_Singleton
  <1>2. IsFiniteSet(1..k) /\ Cardinality(1..k) = k
    BY FS_Interval
  <1>3. IsFiniteSet({d} \X (1..k)) /\ Cardinality({d} \X (1..k)) = k
    <2>1. /\ IsFiniteSet({d} \X (1..k))
          /\ Cardinality({d} \X (1..k)) = Cardinality({d}) * Cardinality(1..k)
      BY <1>1, <1>2, FS_Product, Zenon
    <2> QED
      BY <1>1, <1>2, <2>1
  <1>4. RunsOf(d) \in SUBSET ({d} \X (1..k))
    <2> SUFFICES ASSUME NEW r \in RunsOf(d) PROVE r \in {d} \X (1..k)
      OBVIOUS
    <2>1. r[1] = d /\ r = <<r[1], r[2]>>
      BY RunParts DEF RunsOf
    <2> QED
      BY <2>1
  <1>5. Cardinality(RunsOf(d)) \in Nat /\ Cardinality(RunsOf(d)) <= k
    BY <1>3, <1>4, FS_Subset, FS_CardinalityType
  <1> QED
    BY <1>5

\* If the revisions have no gap, their number is the last of them.
LEMMA CountIsLast ==
    ASSUME RevisionsContiguous, NEW d \in Docs
    PROVE  /\ Cardinality(RunsOf(d)) \in 0..MaxRevision
           /\ \A n \in Revisions :
                n <= Cardinality(RunsOf(d)) => status[<<d, n>>] # "ABSENT"
  <1> USE RevisionIsNat, MaxRevisionAssumption
  <1>1. \A r \in RunsOf(d) :
          r \in Runs /\ r[1] = d /\ status[r] # "ABSENT" /\ r[2] \in Revisions /\ r = <<d, r[2]>>
    BY RunParts DEF RunsOf
  <1>2. Cardinality(RunsOf(d)) \in 0..MaxRevision
    BY <1>1, CountBound
  <1>3. ASSUME NEW n \in Revisions, status[<<d, n>>] = "ABSENT"
        PROVE  Cardinality(RunsOf(d)) \in 0..(n - 1)
    <2>1. ASSUME NEW r \in RunsOf(d) PROVE r[2] \in 1..(n - 1)
      <3>1. r[2] \in Revisions /\ status[<<d, r[2]>>] # "ABSENT"
        BY <1>1
      <3>2. ~(n < r[2])
        BY <1>3, <3>1 DEF RevisionsContiguous
      <3> QED
        BY <1>3, <3>1, <3>2 DEF Revisions
    <2>2. n - 1 \in Nat
      BY DEF Revisions
    <2> QED
      BY <2>1, <2>2, CountBound
  <1>4. ASSUME NEW n \in Revisions, n <= Cardinality(RunsOf(d))
        PROVE  status[<<d, n>>] # "ABSENT"
    BY <1>2, <1>3, <1>4 DEF Revisions
  <1> QED
    BY <1>2, <1>4

-----------------------------------------------------------------------------
(* Types. *)

\* The first state has its types.
LEMMA TypeInit == Init => TypeOK
  BY DEF Init, TypeOK, Statuses, PCs, Bodies, Requests, NoRequest

\* A command keeps the types.
LEMMA TypeApi ==
    ASSUME IInv, NEW c \in Clients, ApiStep(c)
    PROVE  TypeOK'
  <1> USE DEF IInv, TypeOK, runVars, outVars, workerVars, Requests, NoRequest
  <1>1. ASSUME NEW d \in Docs, SubmitRead(c, d) PROVE TypeOK'
    <2>1. <<d, Cardinality(RunsOf(d)) + 1>> \in Runs
      BY <1>1, CountIsLast, MaxRevisionAssumption DEF SubmitRead, Runs, Revisions
    <2> QED
      BY <1>1, <2>1 DEF SubmitRead
  <1>2. ASSUME NEW r \in Runs, RetryRead(c, r) PROVE TypeOK'
    <2>1. <<r[1], r[2] + 1>> \in Runs
      BY <1>2, MaxRevisionAssumption DEF RetryRead, Runs, Revisions
    <2> QED
      BY <1>2, <2>1 DEF RetryRead
  <1>3. ASSUME NEW r \in Runs, CancelRead(c, r) PROVE TypeOK'
    BY <1>3 DEF CancelRead
  <1>4. CASE CreateRun(c)
    <2>1. request[c].run \in Runs
      BY <1>4 DEF CreateRun, RequestsRead
    <2> QED
      BY <1>4, <2>1 DEF CreateRun, Statuses, Intents, Stages
  <1>5. CASE CancelWrite(c)
    BY <1>5 DEF CancelWrite, Statuses
  <1>6. CASE Rollback(c)
    BY <1>6 DEF Rollback
  <1> QED
    BY <1>1, <1>2, <1>3, <1>4, <1>5, <1>6 DEF ApiStep

\* The steps of a worker that change nothing but where the worker is.
Quiet(w) == ClaimRefused(w) \/ Check(w) \/ CompleteRefused(w) \/ HandlerThrows(w) \/ ProcessorThrows(w)

WorkerStep(w) ==
    \/ \E i \in intents : StartJob(w, i)
    \/ HandlerStep(w)
    \/ Finish(w)
    \/ Crash(w)

\* A step of a handler that writes nothing of a run changes its own place only.
LEMMA QuietStep ==
    ASSUME TypeOK, NEW w \in Workers, Quiet(w)
    PROVE  /\ wpc[w] \in {"claim", "work", "check", "commit", "fail"}
           /\ wpc' = [wpc EXCEPT ![w] = wpc'[w]]
           /\ wpc'[w] \in {"returned", "threw", "commit", "fail"}
           /\ wpc'[w] = "commit" => wpc[w] = "check" /\ status[RunOf(w)] = StageOf(w)
           /\ wpc'[w] = "fail" => wpc[w] \in {"work", "check", "commit"}
           /\ UNCHANGED <<runVars, intents, outVars, endpoint, wtask, wbody, fresh, request>>
  BY DEF Quiet, ClaimRefused, Check, CompleteRefused, HandlerThrows, ProcessorThrows, Goto, TypeOK

\* A handler keeps the types.
LEMMA TypeWorker ==
    ASSUME IInv, NEW w \in Workers, WorkerStep(w)
    PROVE  TypeOK'
  <1> USE DEF runVars, outVars, workerVars
  <1>t. TypeOK /\ TasksEnqueued
    BY DEF IInv
  <1>1. ASSUME NEW i \in intents, StartJob(w, i) PROVE TypeOK'
    BY <1>1, <1>t DEF TypeOK, StartJob, Goto, PCs
  <1>2. CASE ClaimStage(w)
    <2>1. StageOf(w) \in Statuses
      BY <1>t, <1>2, TaskType DEF ClaimStage, Stages, Statuses
    <2> QED
      BY <1>2, <1>t, <2>1 DEF TypeOK, ClaimStage, Goto, PCs
  <1>3. CASE Work(w)
    BY <1>3, <1>t DEF TypeOK, Work, Goto, PCs, Bodies
  <1>4. CASE Quiet(w)
    BY <1>4, <1>t, QuietStep DEF TypeOK, PCs
  <1>5. CASE CompleteStage(w)
    <2>1. /\ StageOf(w) \in {"VALIDATING", "ANALYZING"}
          /\ RunOf(w) \in Runs
      BY <1>t, <1>5, TaskType DEF CompleteStage, Stages
    <2>2. NextStatus[StageOf(w)] \in Statuses /\ NextStatus[StageOf(w)] \in Stages
      BY <2>1 DEF NextStatus, Stages, Statuses
    <2>3. intents' \in SUBSET Intents /\ status' \in [Runs -> Statuses]
      BY <1>5, <1>t, <2>1, <2>2 DEF TypeOK, CompleteStage, Intents
    <2>4. wpc' \in [Workers -> PCs]
      BY <1>5, <1>t DEF TypeOK, CompleteStage, AfterCommit, Goto, PCs
    <2> QED
      BY <1>5, <1>t, <2>3, <2>4 DEF TypeOK, CompleteStage
  <1>6. CASE CompleteFinalization(w)
    <2>1. wpc' \in [Workers -> PCs]
      BY <1>6, <1>t DEF TypeOK, CompleteFinalization, AfterCommit, Goto, PCs
    <2> DEFINE r == RunOf(w)
    <2>r. r \in Runs
      BY <1>6, <1>t, TaskType DEF CompleteFinalization
    <2>2. artifacts' \in [Runs -> Seq(Bodies)]
      <3>1. artifacts[r] \in Seq(Bodies) /\ wbody[w] \in Bodies
        BY <1>t, <2>r DEF TypeOK
      <3>2. Append(artifacts[r], wbody[w]) \in Seq(Bodies)
        BY <3>1
      <3>3. artifacts' = [artifacts EXCEPT ![r] = Append(artifacts[r], wbody[w])]
        BY <1>6 DEF CompleteFinalization
      <3> QED
        BY <1>t, <3>2, <3>3 DEF TypeOK
    <2>3. events' \in [Runs -> Nat]
      <3>1. events[r] + 1 \in Nat
        BY <1>t, <2>r DEF TypeOK
      <3>2. events' = [events EXCEPT ![r] = events[r] + 1]
        BY <1>6 DEF CompleteFinalization
      <3> QED
        BY <1>t, <3>1, <3>2 DEF TypeOK
    <2>4. deliveries' \in [Runs -> SUBSET Endpoints]
      BY <1>6, <1>t DEF TypeOK, CompleteFinalization, Ready
    <2>5. status' \in [Runs -> Statuses] /\ leased' \in [Runs -> BOOLEAN]
      BY <1>6, <1>t DEF TypeOK, CompleteFinalization, Statuses
    <2> QED
      BY <1>6, <1>t, <2>1, <2>2, <2>3, <2>4, <2>5 DEF TypeOK, CompleteFinalization
  <1>7. CASE FailStage(w)
    BY <1>7, <1>t DEF TypeOK, FailStage, Goto, PCs, Statuses
  <1>8. CASE Finish(w) \/ Crash(w)
    BY <1>8, <1>t DEF TypeOK, Finish, Crash, Release, Goto, PCs, Bodies
  <1> QED
    BY <1>1, <1>2, <1>3, <1>4, <1>5, <1>6, <1>7, <1>8 DEF WorkerStep, HandlerStep, Quiet

\* The end of a lease keeps the types.
LEMMA TypeExpire ==
    ASSUME TypeOK, NEW r \in Runs, ExpireLease(r)
    PROVE  TypeOK'
  BY DEF TypeOK, ExpireLease, runVars, outVars

-----------------------------------------------------------------------------
(* The status of a run. *)

\* Rows are not deleted, and a run that left a stage never returns to it.
LEMMA StatusForward ==
    ASSUME IInv, [Next]_vars, NEW r \in Runs, status[r] # "ABSENT"
    PROVE  /\ status'[r] # "ABSENT"
           /\ \A s \in Stages :
                <<s, r>> \in intents /\ status[r] \notin ClaimableFrom(s)
                    => status'[r] \notin ClaimableFrom(s)
  <1>t. TypeOK /\ TasksEnqueued
    BY DEF IInv
  <1>1. ASSUME NEW c \in Clients, ApiStep(c)
        PROVE  status'[r] \in {status[r], "CANCELED"}
    <2>1. CASE CreateRun(c)
      BY <1>t, <2>1 DEF CreateRun, TypeOK
    <2>2. CASE CancelWrite(c)
      BY <1>t, <2>2 DEF CancelWrite, TypeOK
    <2>3. CASE UNCHANGED status
      BY <2>3
    <2> QED
      BY <1>1, <2>1, <2>2, <2>3 DEF ApiStep, SubmitRead, RetryRead, CancelRead, Rollback, runVars
  <1>2. ASSUME NEW w \in Workers, WorkerStep(w)
        PROVE  \/ status'[r] \in {status[r], "FAILED", "COMPLETED"}
               \/ status[r] \in {"QUEUED", "VALIDATING"} /\ status'[r] = "VALIDATING"
               \/ status[r] = "VALIDATING" /\ status'[r] = "ANALYZING"
               \/ status[r] = "ANALYZING" /\ status'[r] = "FINALIZING"
    <2>1. CASE ClaimStage(w)
      BY <1>t, <2>1, TaskType DEF ClaimStage, Claimable, ClaimableFrom, TypeOK, Stages
    <2>2. CASE CompleteStage(w)
      BY <1>t, <2>2, TaskType DEF CompleteStage, NextStatus, TypeOK, Stages
    <2>3. CASE CompleteFinalization(w) \/ FailStage(w)
      BY <1>t, <2>3 DEF CompleteFinalization, FailStage, TypeOK
    <2>4. CASE UNCHANGED status
      BY <2>4
    <2>5. CASE Quiet(w)
      BY <1>t, <2>4, <2>5, QuietStep DEF runVars
    <2> QED
      BY <1>2, <2>1, <2>2, <2>3, <2>4, <2>5
         DEF WorkerStep, HandlerStep, Quiet, StartJob, Work, Finish, Crash, Release, runVars
  <1>3. CASE UNCHANGED status
    BY <1>3
  <1>4. ASSUME NEW q \in Runs, ExpireLease(q) PROVE UNCHANGED status
    BY <1>4 DEF ExpireLease
  <1>5. CASE \E c \in Clients : ApiStep(c)
    BY <1>1, <1>5 DEF ClaimableFrom, Stages
  <1>6. CASE \E w \in Workers : WorkerStep(w)
    <2>1. /\ status[r] = "VALIDATING" => <<"ANALYZING", r>> \notin intents
          /\ status[r] \in {"VALIDATING", "ANALYZING"} => <<"FINALIZING", r>> \notin intents
      BY DEF IInv, IntentsMatchRuns, Enqueued
    <2> QED
      BY <1>2, <1>6, <2>1 DEF ClaimableFrom, Stages
  <1> QED
    BY <1>3, <1>4, <1>5, <1>6 DEF Next, WorkerStep, vars, runVars

\* A run comes into being by CreateRun alone.
LEMMA OnlyCreate ==
    ASSUME IInv, [Next]_vars, NEW r \in Runs, status[r] = "ABSENT", status'[r] # "ABSENT"
    PROVE  \E c \in Clients : CreateRun(c) /\ request[c].run = r
  <1>t. TypeOK /\ TasksEnqueued
    BY DEF IInv
  <1>1. ASSUME NEW c \in Clients, ApiStep(c)
        PROVE  CreateRun(c) /\ request[c].run = r
    <2>1. CASE CreateRun(c)
      BY <1>t, <2>1 DEF CreateRun, TypeOK
    <2>2. CASE CancelWrite(c)
      <3>1. request[c].run # r
        BY <2>2 DEF CancelWrite, IInv, RequestsRead
      <3> QED
        BY <1>t, <2>2, <3>1 DEF CancelWrite, TypeOK
    <2>3. CASE UNCHANGED status
      BY <2>3
    <2> QED
      BY <1>1, <2>1, <2>2, <2>3 DEF ApiStep, SubmitRead, RetryRead, CancelRead, Rollback, runVars
  <1>2. ASSUME NEW w \in Workers, WorkerStep(w) PROVE FALSE
    <2>1. wpc[w] # "idle" => RunOf(w) # r
      <3> SUFFICES ASSUME wpc[w] # "idle", RunOf(w) = r PROVE FALSE
        OBVIOUS
      <3>1. <<StageOf(w), r>> \in intents /\ StageOf(w) \in Stages
        BY <1>t, TaskType
      <3> QED
        BY <3>1 DEF IInv, IntentsMatchRuns, Enqueued, Stages
    <2>2. CASE ClaimStage(w) \/ CompleteStage(w) \/ CompleteFinalization(w) \/ FailStage(w)
      BY <1>t, <2>1, <2>2
         DEF ClaimStage, CompleteStage, CompleteFinalization, FailStage, TypeOK
    <2>3. CASE UNCHANGED status
      BY <2>3
    <2>4. CASE Quiet(w)
      BY <1>t, <2>3, <2>4, QuietStep DEF runVars
    <2> QED
      BY <1>2, <2>2, <2>3, <2>4
         DEF WorkerStep, HandlerStep, Quiet, StartJob, Work, Finish, Crash, Release, runVars
  <1>3. CASE UNCHANGED status
    BY <1>3
  <1>4. ASSUME NEW q \in Runs, ExpireLease(q) PROVE UNCHANGED status
    BY <1>4 DEF ExpireLease
  <1> QED
    BY <1>1, <1>2, <1>3, <1>4 DEF Next, WorkerStep, vars, runVars

-----------------------------------------------------------------------------
(* Requests and revisions. *)

\* A run is created after all its predecessors, and none is deleted.
LEMMA RevisionsStep ==
    ASSUME IInv, [Next]_vars
    PROVE  RevisionsContiguous'
  <1> SUFFICES ASSUME NEW d \in Docs, NEW m \in Revisions, NEW n \in Revisions, m < n,
                      status'[<<d, n>>] # "ABSENT"
               PROVE  status'[<<d, m>>] # "ABSENT"
    BY DEF RevisionsContiguous
  <1>1. <<d, m>> \in Runs /\ <<d, n>> \in Runs
    BY DEF Runs
  <1>2. status[<<d, m>>] # "ABSENT"
    <2>1. CASE status[<<d, n>>] # "ABSENT"
      BY <2>1 DEF IInv, RevisionsContiguous
    <2>2. CASE status[<<d, n>>] = "ABSENT"
      <3>1. PICK c \in Clients : CreateRun(c) /\ request[c].run = <<d, n>>
        BY <1>1, <2>2, OnlyCreate
      <3> QED
        BY <3>1 DEF CreateRun, IInv, RequestsRead
    <2> QED
      BY <2>1, <2>2
  <1> QED
    BY <1>1, <1>2, StatusForward

\* What a request read of the existing runs stays so.
LEMMA RequestsStep ==
    ASSUME IInv, [Next]_vars
    PROVE  RequestsRead'
  <1>t. TypeOK
    BY DEF IInv
  <1>1. \A r \in Runs : status[r] # "ABSENT" => status'[r] # "ABSENT"
    BY StatusForward
  <1> DEFINE Read(q, st) ==
        /\ q.op # "none" => q.run \in Runs
        /\ q.op = "cancel" => st[q.run] # "ABSENT"
        /\ q.op = "create" => \A n \in Revisions : n < q.run[2] => st[<<q.run[1], n>>] # "ABSENT"
  <1>2. SUFFICES ASSUME NEW c \in Clients PROVE Read(request'[c], status')
    BY DEF RequestsRead
  <1>3. ASSUME Read(request'[c], status) PROVE Read(request'[c], status')
    <2>1. ASSUME request'[c].op = "create", NEW n \in Revisions
          PROVE  <<request'[c].run[1], n>> \in Runs
      BY <1>3, <2>1 DEF Runs
    <2> QED
      BY <1>1, <1>3, <2>1
  <1>4. Read(request[c], status)
    BY DEF IInv, RequestsRead
  <1>5. CASE request'[c] = request[c]
    BY <1>3, <1>4, <1>5
  <1>6. CASE ApiStep(c)
    <2>1. ASSUME NEW d \in Docs, SubmitRead(c, d) PROVE Read(request'[c], status)
      <3> DEFINE k == Cardinality(RunsOf(d))
      <3>1. request'[c] = [op |-> "create", run |-> <<d, k + 1>>] /\ k < MaxRevision
        BY <1>t, <2>1 DEF SubmitRead, TypeOK
      <3>2. k \in 0..MaxRevision /\ \A n \in Revisions : n <= k => status[<<d, n>>] # "ABSENT"
        BY CountIsLast DEF IInv
      <3>3. <<d, k + 1>> \in Runs
        BY <3>1, <3>2, MaxRevisionAssumption DEF Runs, Revisions
      <3> QED
        BY <3>1, <3>2, <3>3 DEF Revisions
    <2>2. ASSUME NEW r \in Runs, RetryRead(c, r) PROVE Read(request'[c], status)
      <3>1. request'[c] = [op |-> "create", run |-> <<r[1], r[2] + 1>>]
        BY <1>t, <2>2 DEF RetryRead, TypeOK
      <3>2. status[<<r[1], r[2]>>] # "ABSENT" /\ r[2] < MaxRevision
        BY <2>2, RunParts DEF RetryRead
      <3>3. <<r[1], r[2] + 1>> \in Runs
        BY <3>2, MaxRevisionAssumption DEF Runs, Revisions
      <3>4. \A n \in Revisions : n < r[2] + 1 => status[<<r[1], n>>] # "ABSENT"
        BY <3>2, RunParts DEF IInv, RevisionsContiguous, Revisions
      <3> QED
        BY <3>1, <3>3, <3>4
    <2>3. ASSUME NEW r \in Runs, CancelRead(c, r) PROVE Read(request'[c], status)
      BY <1>t, <2>3 DEF CancelRead, TypeOK
    <2>4. CASE CreateRun(c) \/ CancelWrite(c) \/ Rollback(c)
      <3>1. request'[c] = NoRequest
        BY <1>t, <2>4 DEF CreateRun, CancelWrite, Rollback, TypeOK
      <3> QED
        BY <3>1 DEF NoRequest
    <2> QED
      BY <1>3, <1>6, <2>1, <2>2, <2>3, <2>4 DEF ApiStep
  <1>7. ASSUME NEW b \in Clients, ApiStep(b), b # c PROVE request'[c] = request[c]
    BY <1>t, <1>7 DEF ApiStep, SubmitRead, RetryRead, CancelRead, CreateRun, CancelWrite,
       Rollback, TypeOK
  <1>8. ASSUME NEW w \in Workers, WorkerStep(w) PROVE request'[c] = request[c]
    <2>1. CASE Quiet(w)
      BY <1>t, <2>1, QuietStep
    <2> QED
      BY <1>8, <2>1 DEF WorkerStep, HandlerStep, Quiet, StartJob, ClaimStage, Work, CompleteStage,
                        CompleteFinalization, FailStage, Finish, Crash, Release
  <1>9. ASSUME NEW q \in Runs, ExpireLease(q) PROVE request'[c] = request[c]
    BY <1>9 DEF ExpireLease
  <1> QED
    BY <1>5, <1>6, <1>7, <1>8, <1>9 DEF Next, WorkerStep, vars

-----------------------------------------------------------------------------
(* Jobs and leases. *)

\* Rows of the outbox are never deleted, so a job at hand keeps its own.
LEMMA TasksStep ==
    ASSUME IInv, [Next]_vars
    PROVE  TasksEnqueued'
  <1>t. TypeOK /\ TasksEnqueued
    BY DEF IInv
  <1>1. SUFFICES ASSUME NEW v \in Workers
                 PROVE  IF wpc'[v] = "idle" THEN wtask'[v] = NoTask ELSE wtask'[v] \in intents'
    BY DEF TasksEnqueued
  <1>2. IF wpc[v] = "idle" THEN wtask[v] = NoTask ELSE wtask[v] \in intents
    BY <1>t DEF TasksEnqueued
  <1>3. CASE intents \subseteq intents' /\ UNCHANGED <<wpc, wtask>>
    BY <1>2, <1>3
  <1>4. ASSUME NEW c \in Clients, ApiStep(c)
        PROVE  intents \subseteq intents' /\ UNCHANGED <<wpc, wtask>>
    BY <1>4 DEF ApiStep, SubmitRead, RetryRead, CancelRead, CreateRun, CancelWrite, Rollback,
       workerVars
  <1>5. ASSUME NEW q \in Runs, ExpireLease(q)
        PROVE  intents \subseteq intents' /\ UNCHANGED <<wpc, wtask>>
    BY <1>5 DEF ExpireLease
  <1>6. ASSUME NEW w \in Workers, WorkerStep(w)
        PROVE  IF wpc'[v] = "idle" THEN wtask'[v] = NoTask ELSE wtask'[v] \in intents'
    <2>1. ASSUME NEW i \in intents, StartJob(w, i)
          PROVE  IF wpc'[v] = "idle" THEN wtask'[v] = NoTask ELSE wtask'[v] \in intents'
      BY <1>t, <1>2, <2>1 DEF StartJob, Goto, TypeOK
    <2>2. CASE Quiet(w)
      BY <1>t, <1>2, <2>2, QuietStep DEF TypeOK
    <2>3. CASE ClaimStage(w) \/ Work(w) \/ CompleteFinalization(w) \/ FailStage(w)
      BY <1>t, <1>2, <2>3
         DEF ClaimStage, Work, CompleteFinalization, FailStage, AfterCommit, Goto, TypeOK
    <2>4. CASE CompleteStage(w)
      BY <1>t, <1>2, <2>4 DEF CompleteStage, AfterCommit, Goto, TypeOK
    <2>5. CASE Finish(w) \/ Crash(w)
      BY <1>t, <1>2, <2>5 DEF Finish, Crash, Release, Goto, TypeOK
    <2> QED
      BY <1>6, <2>1, <2>2, <2>3, <2>4, <2>5 DEF WorkerStep, HandlerStep, Quiet
  <1> QED
    BY <1>3, <1>4, <1>5, <1>6 DEF Next, WorkerStep, vars, workerVars

\* Only a claim makes a worker fresh; no other step puts a fresh worker to
\* work or gives it another job.
LEMMA FreshStep ==
    ASSUME IInv, [Next]_vars, NEW v \in Workers, Working(v)', fresh'[v]
    PROVE  \/ ClaimStage(v) /\ wtask'[v] = wtask[v]
           \/ Working(v) /\ fresh[v] /\ wtask'[v] = wtask[v]
  <1>t. TypeOK
    BY DEF IInv
  <1>1. Working(v)' <=> wpc'[v] \in {"work", "check", "commit", "fail"}
    BY DEF Working
  <1>2. CASE UNCHANGED <<wpc, wtask, fresh>>
    BY <1>1, <1>2 DEF Working
  <1>3. ASSUME NEW c \in Clients, ApiStep(c) PROVE UNCHANGED <<wpc, wtask, fresh>>
    BY <1>3 DEF ApiStep, SubmitRead, RetryRead, CancelRead, CreateRun, CancelWrite, Rollback,
       workerVars
  <1>4. ASSUME NEW q \in Runs, ExpireLease(q)
        PROVE  Working(v) /\ fresh[v] /\ wtask'[v] = wtask[v]
    BY <1>1, <1>4 DEF ExpireLease, Working
  <1>5. ASSUME NEW w \in Workers, WorkerStep(w), w # v
        PROVE  wpc'[v] = wpc[v] /\ wtask'[v] = wtask[v] /\ fresh'[v] = fresh[v]
    <2>1. CASE Quiet(w)
      BY <1>t, <1>5, <2>1, QuietStep DEF TypeOK
    <2> QED
      BY <1>t, <1>5, <2>1 DEF WorkerStep, HandlerStep, Quiet, StartJob, ClaimStage, Work,
         CompleteStage,
             CompleteFinalization, FailStage, Finish, Crash, Release, AfterCommit, Goto, TypeOK
  <1>6. CASE WorkerStep(v)
    <2>1. CASE Quiet(v)
      BY <1>t, <1>1, <2>1, QuietStep DEF Working
    <2>2. CASE ClaimStage(v)
      BY <2>2 DEF ClaimStage
    <2>3. CASE Work(v)
      BY <2>3 DEF Work, Working
    <2>4. CASE CompleteStage(v) \/ CompleteFinalization(v)
      BY <2>4 DEF CompleteStage, CompleteFinalization, Working
    <2>5. ASSUME NEW i \in intents, StartJob(v, i) PROVE FALSE
      BY <1>t, <1>1, <2>5 DEF StartJob, Goto, TypeOK
    <2>6. CASE FailStage(v) \/ Finish(v) \/ Crash(v)
      BY <1>t, <1>1, <2>6 DEF FailStage, Finish, Crash, Release, Goto, TypeOK
    <2> QED
      BY <1>6, <2>1, <2>2, <2>3, <2>4, <2>5, <2>6 DEF WorkerStep, HandlerStep, Quiet
  <1>7. CASE UNCHANGED vars
    BY <1>2, <1>7 DEF vars, workerVars
  <1>8. CASE \E w \in Workers : WorkerStep(w)
    BY <1>1, <1>5, <1>6, <1>8 DEF Working
  <1> QED
    BY <1>2, <1>3, <1>4, <1>7, <1>8 DEF Next, WorkerStep

\* A run is claimed only where no lease runs, and a stage is left for good.
LEMMA LeaseStep ==
    ASSUME IInv, [Next]_vars
    PROVE  LeaseCovers' /\ LeaseExclusive'
  <1>t. TypeOK /\ TasksEnqueued /\ LeaseCovers /\ LeaseExclusive
    BY DEF IInv
  <1>1. ASSUME NEW v \in Workers, ClaimStage(v)
        PROVE  /\ wtask[v] = <<StageOf(v), RunOf(v)>> /\ wtask'[v] = wtask[v]
               /\ StageOf(v) \in Stages /\ RunOf(v) \in Runs
               /\ status'[RunOf(v)] = StageOf(v) /\ leased'[RunOf(v)]
               /\ Claimable(StageOf(v), RunOf(v))
               /\ \A w \in Workers : w # v => wpc'[w] = wpc[w]
    BY <1>t, <1>1, TaskType DEF ClaimStage, Goto, TypeOK
  \* A fresh worker keeps its run leased, or the run has left the stage.
  <1>2. ASSUME NEW v \in Workers, Working(v), fresh[v], Working(v)', fresh'[v], wtask'[v] = wtask[v]
        PROVE  \/ status'[RunOf(v)] = StageOf(v) /\ leased'[RunOf(v)]
               \/ status'[RunOf(v)] \notin ClaimableFrom(StageOf(v))
    <2> DEFINE s == StageOf(v)
               r == RunOf(v)
    <2>1. s \in Stages /\ r \in Runs /\ <<s, r>> \in intents
      BY <1>t, <1>2, TaskType DEF Working
    <2>2. status[r] # "ABSENT"
      BY <2>1 DEF IInv, IntentsMatchRuns, Enqueued, Stages
    <2>3. CASE status[r] \notin ClaimableFrom(s)
      BY <2>1, <2>2, <2>3, StatusForward
    <2>4. CASE status[r] = s /\ leased[r]
      <3>1. CASE UNCHANGED <<status, leased>>
        BY <2>4, <3>1
      <3>2. ASSUME NEW c \in Clients, ApiStep(c)
            PROVE  status'[r] \in {s, "CANCELED"} /\ leased'[r]
        <4>1. CASE CreateRun(c)
          BY <1>t, <2>1, <2>2, <2>4, <4>1 DEF CreateRun, TypeOK
        <4>2. CASE CancelWrite(c)
          BY <1>t, <2>1, <2>4, <4>2 DEF CancelWrite, TypeOK
        <4> QED
          BY <2>4, <3>2, <4>1, <4>2 DEF ApiStep, SubmitRead, RetryRead, CancelRead, Rollback,
             runVars
      <3>3. ASSUME NEW w \in Workers, ClaimStage(w) PROVE RunOf(w) # r
        BY <1>1, <2>4, <3>3 DEF Claimable
      <3>4. ASSUME NEW w \in Workers, ClaimStage(w) PROVE status'[r] = status[r] /\ leased'[r] = leased[r]
        BY <1>t, <2>1, <3>3, <3>4 DEF ClaimStage, TypeOK
      <3>5. ASSUME NEW w \in Workers, CompleteStage(w) \/ CompleteFinalization(w) \/ FailStage(w)
            PROVE  \/ status'[r] = s /\ leased'[r]
                   \/ status'[r] \notin ClaimableFrom(s)
        <4>1. CASE RunOf(w) # r
          BY <1>t, <2>1, <2>4, <3>5, <4>1
             DEF CompleteStage, CompleteFinalization, FailStage, TypeOK
        <4>2. CASE RunOf(w) = r
          <5>1. status'[r] \in {NextStatus[s], "COMPLETED", "FAILED"}
            BY <1>t, <2>1, <2>4, <3>5, <4>2
               DEF CompleteStage, CompleteFinalization, FailStage, TypeOK
          <5> QED
            BY <2>1, <5>1 DEF NextStatus, ClaimableFrom, Stages
        <4> QED
          BY <4>1, <4>2
      <3>6. ASSUME NEW q \in Runs, ExpireLease(q)
            PROVE  status'[r] = status[r] /\ leased'[r] = leased[r]
        <4>1. q # r
          BY <1>2, <3>6 DEF ExpireLease
        <4> QED
          BY <1>t, <2>1, <3>6, <4>1 DEF ExpireLease, TypeOK
      <3>7. ASSUME NEW w \in Workers, WorkerStep(w)
            PROVE  \/ status'[r] = s /\ leased'[r]
                   \/ status'[r] \notin ClaimableFrom(s)
        <4>1. CASE Quiet(w)
          BY <1>t, <3>1, <4>1, <2>4, QuietStep DEF runVars
        <4>2. CASE UNCHANGED runVars
          BY <2>4, <4>2 DEF runVars
        <4> QED
          BY <2>4, <3>4, <3>5, <3>7, <4>1, <4>2
             DEF WorkerStep, HandlerStep, Quiet, StartJob, Work, Finish, Crash, Release
      <3>8. "CANCELED" \notin ClaimableFrom(s)
        BY <2>1 DEF ClaimableFrom, Stages
      <3>9. CASE UNCHANGED vars
        BY <2>4, <3>9 DEF vars, runVars
      <3> QED
        BY <2>4, <3>2, <3>6, <3>7, <3>8, <3>9 DEF Next, WorkerStep
    <2> QED
      BY <1>t, <1>2, <2>3, <2>4 DEF LeaseCovers
  <1>3. LeaseCovers'
    <2> SUFFICES ASSUME NEW v \in Workers, Working(v)', fresh'[v]
                 PROVE  \/ status'[wtask'[v][2]] = wtask'[v][1] /\ leased'[wtask'[v][2]]
                        \/ status'[wtask'[v][2]] \notin ClaimableFrom(wtask'[v][1])
      BY DEF LeaseCovers, StageOf, RunOf
    <2>1. CASE ClaimStage(v)
      BY <1>1, <2>1 DEF StageOf, RunOf
    <2>2. CASE Working(v) /\ fresh[v] /\ wtask'[v] = wtask[v]
      BY <1>2, <2>2 DEF StageOf, RunOf
    <2> QED
      BY <2>1, <2>2, FreshStep
  <1>4. LeaseExclusive'
    <2> SUFFICES ASSUME NEW v \in Workers, NEW w \in Workers, v # w,
                        Working(v)', Working(w)', fresh'[v], fresh'[w], wtask'[v] = wtask'[w]
                 PROVE  FALSE
      BY DEF LeaseExclusive
    <2>1. ASSUME NEW x \in Workers, NEW y \in Workers, x # y, wtask'[x] = wtask'[y],
                 ClaimStage(x), Working(y)', fresh'[y]
          PROVE  FALSE
      <3>1. wpc[x] = "claim" /\ wpc'[y] = wpc[y]
        BY <1>1, <2>1 DEF ClaimStage
      <3>2. ~ClaimStage(y)
        BY <2>1, <3>1, <1>1 DEF Working, ClaimStage
      <3>3. Working(y) /\ fresh[y] /\ wtask'[y] = wtask[y]
        BY <2>1, <3>2, FreshStep
      <3>4. StageOf(y) = StageOf(x) /\ RunOf(y) = RunOf(x)
        BY <1>1, <2>1, <3>3 DEF StageOf, RunOf
      <3> QED
        BY <1>t, <1>1, <2>1, <3>3, <3>4 DEF LeaseCovers, Claimable
    <2>2. CASE ClaimStage(v) \/ ClaimStage(w)
      BY <2>1, <2>2
    <2>3. CASE ~ClaimStage(v) /\ ~ClaimStage(w)
      BY <1>t, <2>3, FreshStep DEF LeaseExclusive
    <2> QED
      BY <2>2, <2>3
  <1> QED
    BY <1>3, <1>4

-----------------------------------------------------------------------------
(* The outbox, the report and the output of a run. *)

\* What a step can do to one run, whoever takes it.
Created(r) ==
    /\ status[r] = "ABSENT" /\ status'[r] = "QUEUED"
    /\ intents' = intents \cup {<<"VALIDATING", r>>}

Advanced(r, s) ==
    /\ s \in {"VALIDATING", "ANALYZING"}
    /\ status[r] = s /\ status'[r] = NextStatus[s]
    /\ report[r] => report'[r]
    /\ s = "ANALYZING" => report'[r]
    /\ intents' = intents \cup {<<NextStatus[s], r>>}

Claimed(r, s) ==
    /\ s \in Stages
    /\ status[r] \in ClaimableFrom(s) /\ status'[r] = s

Completed(r) ==
    \E w \in Workers :
        /\ CompleteFinalization(w) /\ RunOf(w) = r
        /\ status[r] = "FINALIZING" /\ status'[r] = "COMPLETED"

Ended(r) ==
    \/ status[r] # "ABSENT" /\ status'[r] = "CANCELED"
    \/ status[r] \in Stages /\ status'[r] = "FAILED"

\* What any step may do to one run: it is created, advanced, claimed, completed, ended,
\* or left alone.
LEMMA RunStep ==
    ASSUME IInv, [Next]_vars, NEW r \in Runs
    PROVE  /\ \/ Created(r) /\ UNCHANGED <<report, outVars>>
              \/ \E s \in Stages : Advanced(r, s) /\ UNCHANGED outVars
              \/ \E s \in Stages : Claimed(r, s) /\ UNCHANGED <<report, intents, outVars>>
              \/ Completed(r) /\ UNCHANGED <<report, intents>>
              \/ Ended(r) /\ UNCHANGED <<report, intents, outVars>>
              \/ /\ status'[r] = status[r] /\ report'[r] = report[r]
                 /\ artifacts'[r] = artifacts[r]
                 /\ events'[r] = events[r]
                 /\ deliveries'[r] = deliveries[r]
                 /\ \A s \in Stages : Enqueued(s, r)' <=> Enqueued(s, r)
           /\ UNCHANGED endpoint
  <1> DEFINE Goal ==
           \/ Created(r) /\ UNCHANGED <<report, outVars>>
           \/ \E s \in Stages : Advanced(r, s) /\ UNCHANGED outVars
           \/ \E s \in Stages : Claimed(r, s) /\ UNCHANGED <<report, intents, outVars>>
           \/ Completed(r) /\ UNCHANGED <<report, intents>>
           \/ Ended(r) /\ UNCHANGED <<report, intents, outVars>>
           \/ /\ status'[r] = status[r] /\ report'[r] = report[r]
              /\ artifacts'[r] = artifacts[r]
              /\ events'[r] = events[r]
              /\ deliveries'[r] = deliveries[r]
              /\ \A s \in Stages : Enqueued(s, r)' <=> Enqueued(s, r)
  <1>t. TypeOK /\ TasksEnqueued
    BY DEF IInv
  <1>0. ASSUME UNCHANGED <<status, report, intents, outVars>> PROVE Goal
    BY <1>0 DEF outVars, Enqueued
  <1>1. ASSUME NEW c \in Clients, ApiStep(c) PROVE Goal /\ UNCHANGED endpoint
    <2>1. CASE CreateRun(c)
      <3>1. CASE request[c].run = r /\ status[r] = "ABSENT"
        BY <1>t, <2>1, <3>1 DEF CreateRun, Created, TypeOK
      <3>2. CASE request[c].run # r
        <4>1. status'[r] = status[r] /\ UNCHANGED <<report, outVars, endpoint>>
          BY <1>t, <2>1, <3>2 DEF CreateRun, TypeOK
        <4>2. \A s \in Stages : <<s, r>> \in intents' <=> <<s, r>> \in intents
          BY <2>1, <3>2 DEF CreateRun
        <4> QED
          BY <4>1, <4>2 DEF outVars, Enqueued
      <3>3. CASE status[request[c].run] # "ABSENT"
        BY <1>0, <2>1, <3>3 DEF CreateRun
      <3> QED
        BY <3>1, <3>2, <3>3
    <2>2. CASE CancelWrite(c)
      <3>1. CASE request[c].run = r
        BY <1>t, <2>2, <3>1 DEF CancelWrite, Ended, TypeOK, IInv, RequestsRead
      <3>2. CASE request[c].run # r
        BY <1>t, <2>2, <3>2 DEF CancelWrite, TypeOK, outVars, Enqueued
      <3> QED
        BY <3>1, <3>2
    <2>3. CASE UNCHANGED <<runVars, intents, outVars, endpoint>>
      BY <1>0, <2>3 DEF runVars
    <2> QED
      BY <1>1, <2>1, <2>2, <2>3 DEF ApiStep, SubmitRead, RetryRead, CancelRead, Rollback
  <1>2. ASSUME NEW w \in Workers, WorkerStep(w) PROVE Goal /\ UNCHANGED endpoint
    <2>1. CASE ClaimStage(w)
      <3>1. StageOf(w) \in Stages /\ RunOf(w) \in Runs
        BY <1>t, <2>1, TaskType DEF ClaimStage
      <3>2. CASE RunOf(w) = r
        BY <1>t, <2>1, <3>1, <3>2 DEF ClaimStage, Claimable, Claimed, TypeOK
      <3>3. CASE RunOf(w) # r
        BY <1>t, <2>1, <3>1, <3>3 DEF ClaimStage, TypeOK, outVars, Enqueued
      <3> QED
        BY <3>2, <3>3
    <2>2. CASE CompleteStage(w)
      <3>1. StageOf(w) \in {"VALIDATING", "ANALYZING"} /\ RunOf(w) \in Runs
        BY <1>t, <2>2, TaskType DEF CompleteStage, Stages
      <3>2. CASE RunOf(w) = r
        <4>1. Advanced(r, StageOf(w)) /\ UNCHANGED <<outVars, endpoint>>
          BY <1>t, <2>2, <3>1, <3>2 DEF CompleteStage, Advanced, TypeOK
        <4> QED
          BY <3>1, <4>1 DEF Stages
      <3>3. CASE RunOf(w) # r
        <4>1. status'[r] = status[r] /\ report'[r] = report[r] /\ UNCHANGED <<outVars, endpoint>>
          BY <1>t, <2>2, <3>1, <3>3 DEF CompleteStage, TypeOK
        <4>2. \A s \in Stages : <<s, r>> \in intents' <=> <<s, r>> \in intents
          BY <2>2, <3>3 DEF CompleteStage
        <4> QED
          BY <4>1, <4>2 DEF outVars, Enqueued
      <3> QED
        BY <3>2, <3>3
    <2>3. CASE CompleteFinalization(w)
      <3>1. RunOf(w) \in Runs
        BY <1>t, <2>3, TaskType DEF CompleteFinalization
      <3>2. CASE RunOf(w) = r
        BY <1>t, <2>3, <3>1, <3>2 DEF CompleteFinalization, Completed, TypeOK
      <3>3. CASE RunOf(w) # r
        BY <1>t, <2>3, <3>1, <3>3 DEF CompleteFinalization, TypeOK, Enqueued
      <3> QED
        BY <3>2, <3>3
    <2>4. CASE FailStage(w)
      <3>1. RunOf(w) \in Runs
        BY <1>t, <2>4, TaskType DEF FailStage
      <3>2. CASE RunOf(w) = r /\ status[r] \in Stages
        BY <1>t, <2>4, <3>1, <3>2 DEF FailStage, Ended, TypeOK
      <3>3. CASE RunOf(w) # r
        BY <1>t, <2>4, <3>1, <3>3 DEF FailStage, TypeOK, outVars, Enqueued
      <3>4. CASE status[RunOf(w)] \notin Stages
        BY <1>0, <2>4, <3>4 DEF FailStage
      <3> QED
        BY <3>2, <3>3, <3>4
    <2>5. CASE UNCHANGED <<runVars, intents, outVars, endpoint>>
      BY <1>0, <2>5 DEF runVars
    <2>6. CASE Quiet(w)
      BY <1>t, <2>5, <2>6, QuietStep
    <2> QED
      BY <1>2, <2>1, <2>2, <2>3, <2>4, <2>5, <2>6
         DEF WorkerStep, HandlerStep, Quiet, StartJob, Work, Finish, Crash, Release
  <1>3. CASE UNCHANGED vars
    BY <1>0, <1>3 DEF vars, runVars
  <1>4. ASSUME NEW q \in Runs, ExpireLease(q) PROVE Goal /\ UNCHANGED endpoint
    BY <1>0, <1>4 DEF ExpireLease
  <1> QED
    BY <1>1, <1>2, <1>3, <1>4 DEF Next, WorkerStep

\* A run gets to a stage together with the row of that stage.
LEMMA IntentsStep ==
    ASSUME IInv, [Next]_vars
    PROVE  IntentsMatchRuns'
  <1> DEFINE Match(r, st, in) ==
        /\ <<"VALIDATING", r>> \in in <=> st # "ABSENT"
        /\ <<"FINALIZING", r>> \in in => <<"ANALYZING", r>> \in in
        /\ <<"ANALYZING", r>> \in in => st \notin {"ABSENT", "QUEUED", "VALIDATING"}
        /\ st = "ANALYZING" => <<"ANALYZING", r>> \in in /\ <<"FINALIZING", r>> \notin in
        /\ st \in {"FINALIZING", "COMPLETED"} => <<"FINALIZING", r>> \in in
  <1> SUFFICES ASSUME NEW r \in Runs PROVE Match(r, status'[r], intents')
    BY DEF IntentsMatchRuns, Enqueued
  <1>1. Match(r, status[r], intents)
    BY DEF IInv, IntentsMatchRuns, Enqueued
  <1>2. CASE Created(r)
    BY <1>1, <1>2 DEF Created
  <1>3. ASSUME NEW s \in Stages, Advanced(r, s) PROVE Match(r, status'[r], intents')
    <2>1. CASE s = "VALIDATING"
      BY <1>1, <1>3, <2>1 DEF Advanced, NextStatus
    <2>2. CASE s = "ANALYZING"
      BY <1>1, <1>3, <2>2 DEF Advanced, NextStatus
    <2> QED
      BY <1>3, <2>1, <2>2 DEF Advanced
  <1>4. ASSUME NEW s \in Stages, Claimed(r, s), UNCHANGED intents PROVE Match(r, status'[r], intents')
    BY <1>1, <1>4 DEF Claimed, ClaimableFrom, Stages
  <1>5. CASE Completed(r) /\ UNCHANGED intents
    BY <1>1, <1>5 DEF Completed
  <1>6. CASE Ended(r) /\ UNCHANGED intents
    BY <1>1, <1>6 DEF Ended, Stages
  <1>7. CASE status'[r] = status[r] /\ \A s \in Stages : Enqueued(s, r)' <=> Enqueued(s, r)
    BY <1>1, <1>7 DEF Enqueued, Stages
  <1> QED
    BY <1>2, <1>3, <1>4, <1>5, <1>6, <1>7, RunStep

\* A run gets its report before it is finalized, and keeps it.
LEMMA ReportStep ==
    ASSUME IInv, [Next]_vars
    PROVE  /\ ReportKept'
           /\ \A r \in Runs : report[r] => report'[r]
  <1> SUFFICES ASSUME NEW r \in Runs
               PROVE  /\ status'[r] \in {"FINALIZING", "COMPLETED"} => report'[r]
                      /\ report[r] => report'[r]
    BY DEF ReportKept
  <1>1. status[r] \in {"FINALIZING", "COMPLETED"} => report[r]
    BY DEF IInv, ReportKept
  <1>2. ASSUME NEW s \in Stages, Advanced(r, s)
        PROVE  /\ status'[r] \in {"FINALIZING", "COMPLETED"} => report'[r]
               /\ report[r] => report'[r]
    BY <1>2 DEF Advanced, NextStatus
  <1>3. ASSUME NEW s \in Stages, Claimed(r, s), UNCHANGED report
        PROVE  /\ status'[r] \in {"FINALIZING", "COMPLETED"} => report'[r]
               /\ report[r] => report'[r]
    BY <1>1, <1>3 DEF Claimed, ClaimableFrom
  <1> QED
    BY <1>1, <1>2, <1>3, RunStep DEF Created, Completed, Ended

\* What is made in a finalization is made from the report.
LEMMA PublishedStep ==
    ASSUME IInv, [Next]_vars
    PROVE  ReportPublished'
  <1>t. TypeOK /\ TasksEnqueued /\ ReportKept /\ ReportPublished
    BY DEF IInv
  <1> DEFINE Good(v) ==
        wpc'[v] \in {"work", "check", "commit"} /\ wtask'[v][1] = "FINALIZING" =>
            /\ report'[wtask'[v][2]]
            /\ wpc'[v] # "check"
            /\ wpc'[v] = "commit" => wbody'[v] = "report"
  <1> SUFFICES ASSUME NEW v \in Workers PROVE Good(v)
    BY DEF ReportPublished, StageOf, RunOf
  <1>1. CASE wpc'[v] = wpc[v] /\ wtask'[v] = wtask[v] /\ wbody'[v] = wbody[v]
    <2>1. ASSUME wpc[v] \in {"work", "check", "commit"} PROVE RunOf(v) \in Runs
      BY <1>t, <2>1, TaskType
    <2> QED
      BY <1>t, <1>1, <2>1, ReportStep DEF ReportPublished, StageOf, RunOf
  <1>2. CASE UNCHANGED <<wpc, wtask, wbody>>
    BY <1>1, <1>2
  <1>3. ASSUME NEW c \in Clients, ApiStep(c) PROVE UNCHANGED <<wpc, wtask, wbody>>
    BY <1>3 DEF ApiStep, SubmitRead, RetryRead, CancelRead, CreateRun, CancelWrite, Rollback,
       workerVars
  <1>4. ASSUME NEW q \in Runs, ExpireLease(q) PROVE UNCHANGED <<wpc, wtask, wbody>>
    BY <1>4 DEF ExpireLease
  <1>5. ASSUME NEW w \in Workers, WorkerStep(w), w # v
        PROVE  wpc'[v] = wpc[v] /\ wtask'[v] = wtask[v] /\ wbody'[v] = wbody[v]
    <2>1. CASE Quiet(w)
      BY <1>t, <1>5, <2>1, QuietStep DEF TypeOK
    <2> QED
      BY <1>t, <1>5, <2>1 DEF WorkerStep, HandlerStep, Quiet, StartJob, ClaimStage, Work,
         CompleteStage,
             CompleteFinalization, FailStage, Finish, Crash, Release, AfterCommit, Goto, TypeOK
  <1>6. CASE WorkerStep(v)
    <2>1. CASE ClaimStage(v)
      <3>1. RunOf(v) \in Runs /\ report' = report /\ wtask' = wtask
        BY <1>t, <2>1, TaskType DEF ClaimStage
      <3>2. StageOf(v) = "FINALIZING" => report[RunOf(v)]
        BY <1>t, <2>1, <3>1 DEF ClaimStage, Claimable, ClaimableFrom, ReportKept
      <3>3. wpc'[v] # "commit" /\ (wpc'[v] = "check" => StageOf(v) = "VALIDATING")
        BY <1>t, <2>1 DEF ClaimStage, Goto, TypeOK
      <3> QED
        BY <3>1, <3>2, <3>3 DEF StageOf, RunOf
    <2>2. CASE Work(v)
      BY <1>t, <2>2 DEF Work, ReportPublished, Goto, TypeOK, StageOf, RunOf, runVars
    <2>3. CASE Quiet(v)
      <3>1. CASE wpc'[v] = "commit"
        <4>1. wpc[v] = "check" /\ wtask' = wtask
          BY <1>t, <2>3, <3>1, QuietStep
        <4>2. StageOf(v) # "FINALIZING"
          BY <1>t, <4>1 DEF ReportPublished
        <4> QED
          BY <4>1, <4>2 DEF StageOf
      <3>2. CASE wpc'[v] # "commit"
        BY <1>t, <2>3, <3>2, QuietStep
      <3> QED
        BY <3>1, <3>2
    <2>4. CASE CompleteStage(v) \/ CompleteFinalization(v) \/ FailStage(v) \/ Finish(v) \/ Crash(v)
      <3>1. wpc'[v] \in {"returned", "fail", "idle"}
        BY <1>t, <2>4 DEF CompleteStage, CompleteFinalization, FailStage, Finish, Crash, Release,
             AfterCommit, Goto, TypeOK
      <3> QED
        BY <3>1
    <2>5. ASSUME NEW i \in intents, StartJob(v, i) PROVE Good(v)
      BY <1>t, <2>5 DEF StartJob, Goto, TypeOK
    <2> QED
      BY <1>6, <2>1, <2>2, <2>3, <2>4, <2>5 DEF WorkerStep, HandlerStep, Quiet
  <1>7. CASE UNCHANGED vars
    BY <1>2, <1>7 DEF vars, workerVars
  <1>8. CASE \E w \in Workers : WorkerStep(w)
    BY <1>1, <1>5, <1>6, <1>8
  <1> QED
    BY <1>2, <1>3, <1>4, <1>7, <1>8 DEF Next, WorkerStep

\* A run is completed together with its output, and once.
LEMMA OutputStep ==
    ASSUME IInv, [Next]_vars
    PROVE  OutputOnce'
  <1>t. TypeOK /\ OutputOnce /\ ReportPublished
    BY DEF IInv
  <1> SUFFICES ASSUME NEW r \in Runs
               PROVE  /\ status'[r] = "COMPLETED" => Published(r)'
                      /\ status'[r] \notin {"COMPLETED", "CANCELED"} => Unpublished(r)'
                      /\ status'[r] = "CANCELED" => Published(r)' \/ Unpublished(r)'
    BY DEF OutputOnce
  <1>1. Ready' = Ready
    BY RunStep DEF Ready
  <1>2. /\ status[r] = "COMPLETED" => Published(r)
        /\ status[r] \notin {"COMPLETED", "CANCELED"} => Unpublished(r)
        /\ status[r] = "CANCELED" => Published(r) \/ Unpublished(r)
    BY <1>t DEF OutputOnce
  <1>3. ASSUME artifacts'[r] = artifacts[r], events'[r] = events[r], deliveries'[r] = deliveries[r]
        PROVE  (Published(r)' <=> Published(r)) /\ (Unpublished(r)' <=> Unpublished(r))
    BY <1>1, <1>3 DEF Published, Unpublished
  <1>4. ASSUME UNCHANGED outVars
        PROVE  (Published(r)' <=> Published(r)) /\ (Unpublished(r)' <=> Unpublished(r))
    BY <1>3, <1>4 DEF outVars
  <1>5. CASE Created(r) /\ UNCHANGED outVars
    BY <1>2, <1>4, <1>5 DEF Created
  <1>6. ASSUME NEW s \in Stages, Advanced(r, s), UNCHANGED outVars
        PROVE  Unpublished(r)' /\ status'[r] \notin {"COMPLETED", "CANCELED"}
    BY <1>2, <1>4, <1>6 DEF Advanced, NextStatus
  <1>7. ASSUME NEW s \in Stages, Claimed(r, s), UNCHANGED outVars
        PROVE  Unpublished(r)' /\ status'[r] \notin {"COMPLETED", "CANCELED"}
    BY <1>2, <1>4, <1>7 DEF Claimed, ClaimableFrom, Stages
  <1>8. CASE Ended(r) /\ UNCHANGED outVars
    BY <1>2, <1>4, <1>8 DEF Ended, Stages
  <1>9. CASE Completed(r)
    <2>1. PICK w \in Workers : CompleteFinalization(w) /\ RunOf(w) = r
      BY <1>9 DEF Completed
    <2>2. Unpublished(r) /\ status'[r] = "COMPLETED"
      BY <1>2, <1>9 DEF Completed
    <2>3. wbody[w] = "report"
      BY <1>t, <2>1 DEF ReportPublished, CompleteFinalization
    <2>4. artifacts'[r] = <<"report">>
      <3>1. artifacts'[r] = Append(artifacts[r], wbody[w])
        BY <1>t, <2>1 DEF CompleteFinalization, TypeOK
      <3> QED
        BY <2>2, <2>3, <3>1 DEF Unpublished
    <2>5. events'[r] = 1
      BY <1>t, <2>1, <2>2 DEF CompleteFinalization, TypeOK, Unpublished
    <2>6. deliveries'[r] = Ready
      BY <1>t, <2>1, <2>2 DEF CompleteFinalization, TypeOK, Unpublished
    <2> QED
      BY <1>1, <2>2, <2>4, <2>5, <2>6 DEF Published
  <1>10. CASE /\ status'[r] = status[r]
              /\ artifacts'[r] = artifacts[r] /\ events'[r] = events[r]
              /\ deliveries'[r] = deliveries[r]
    BY <1>2, <1>3, <1>10
  <1> QED
    BY <1>5, <1>6, <1>7, <1>8, <1>9, <1>10, RunStep

-----------------------------------------------------------------------------
(* The invariant, and what it says of every behavior. *)

\* At first there are no runs.
LEMMA InitIInv == Init => IInv
  <1> SUFFICES ASSUME Init PROVE IInv
    OBVIOUS
  <1>1. TypeOK
    BY TypeInit
  <1>2. TasksEnqueued /\ LeaseCovers /\ LeaseExclusive /\ ReportPublished
    BY DEF Init, TasksEnqueued, LeaseCovers, LeaseExclusive, ReportPublished, Working
  <1>3. ReportKept /\ OutputOnce /\ IntentsMatchRuns /\ RevisionsContiguous
    BY DEF Init, ReportKept, OutputOnce, Unpublished, IntentsMatchRuns, Enqueued,
       RevisionsContiguous, Runs
  <1>4. RequestsRead
    BY DEF Init, RequestsRead, NoRequest
  <1> QED
    BY <1>1, <1>2, <1>3, <1>4 DEF IInv

\* Every step keeps the inductive invariant.
LEMMA NextIInv == IInv /\ [Next]_vars => IInv'
  <1> SUFFICES ASSUME IInv, [Next]_vars PROVE IInv'
    OBVIOUS
  <1>1. TypeOK'
    <2>1. CASE UNCHANGED vars
      BY <2>1 DEF IInv, TypeOK, vars, runVars, outVars, workerVars
    <2> QED
      BY <2>1, TypeApi, TypeWorker, TypeExpire DEF IInv, Next, WorkerStep
  <1> QED
    BY <1>1, TasksStep, LeaseStep, ReportStep, PublishedStep, OutputStep, IntentsStep,
       RequestsStep, RevisionsStep DEF IInv

\* The inductive invariant holds in every reachable state.
THEOREM Invariance == Spec => []IInv
  BY InitIInv, NextIInv, PTL DEF Spec

\* Every variable keeps its type.
THEOREM TypeCorrect == Spec => []TypeOK
  <1>1. IInv => TypeOK
    BY DEF IInv
  <1> QED
    BY <1>1, Invariance, PTL

\* The lease excludes: two workers inside the leases of their claims are
\* never in the same stage of the same run (claim-stage.ts).
THEOREM LeaseExcludes == Spec => []LeaseExclusive
  <1>1. IInv => LeaseExclusive
    BY DEF IInv
  <1> QED
    BY <1>1, Invariance, PTL

\* A run is published once, whole, and from its report
\* (complete-finalization.ts).
THEOREM PublishedOnce == Spec => []OutputOnce
  <1>1. IInv => OutputOnce
    BY DEF IInv
  <1> QED
    BY <1>1, Invariance, PTL

\* The outbox holds the row of the stage each run is in, and none of a
\* stage it has not reached.
THEOREM OutboxMatches == Spec => []IntentsMatchRuns
  <1>1. IInv => IntentsMatchRuns
    BY DEF IInv
  <1> QED
    BY <1>1, Invariance, PTL

\* Concurrent submissions and retries leave no gap in the revisions.
THEOREM RevisionsHaveNoGap == Spec => []RevisionsContiguous
  <1>1. IInv => RevisionsContiguous
    BY DEF IInv
  <1> QED
    BY <1>1, Invariance, PTL

-----------------------------------------------------------------------------
(* The refinement of the state machine. *)

\* A step moves a run along the table, overwrites it, or changes no status.
LEMMA LifecycleStep ==
    ASSUME IInv, [Next]_vars
    PROVE  [Lifecycle!Next \/ \E r \in Runs : Lifecycle!Overwrite(r)]_status
  <1> DEFINE Goal == [Lifecycle!Next \/ \E r \in Runs : Lifecycle!Overwrite(r)]_status
  <1>t. TypeOK /\ TasksEnqueued
    BY DEF IInv
  <1>1. ASSUME NEW r \in Runs, NEW new \in Statuses, new \in Lifecycle!transitions[status[r]],
               status' = [status EXCEPT ![r] = new]
        PROVE  Goal
    BY <1>1 DEF Lifecycle!Next, Lifecycle!Move, Lifecycle!Statuses, Statuses
  <1>2. ASSUME NEW c \in Clients, ApiStep(c) PROVE Goal
    <2>1. CASE CreateRun(c)
      <3>1. request[c].run \in Runs
        BY <2>1 DEF CreateRun, IInv, RequestsRead
      <3>2. "QUEUED" \in Lifecycle!transitions["ABSENT"] /\ "QUEUED" \in Statuses
        BY DEF Lifecycle!transitions, Statuses
      <3> QED
        BY <1>1, <2>1, <3>1, <3>2 DEF CreateRun
    <2>2. CASE CancelWrite(c)
      BY <2>2 DEF CancelWrite, IInv, RequestsRead, Lifecycle!Overwrite
    <2>3. CASE UNCHANGED status
      BY <2>3
    <2> QED
      BY <1>2, <2>1, <2>2, <2>3 DEF ApiStep, SubmitRead, RetryRead, CancelRead, Rollback, runVars
  <1>3. ASSUME NEW w \in Workers, WorkerStep(w) PROVE Goal
    <2> DEFINE s == StageOf(w)
               r == RunOf(w)
    <2>1. CASE ClaimStage(w)
      <3>1. s \in Stages /\ r \in Runs
        BY <1>t, <2>1, TaskType DEF ClaimStage
      <3>2. CASE status[r] = s
        BY <1>t, <2>1, <3>1, <3>2 DEF ClaimStage, TypeOK
      <3>3. CASE status[r] = "QUEUED" /\ s = "VALIDATING"
        <4>1. "VALIDATING" \in Lifecycle!transitions["QUEUED"] /\ "VALIDATING" \in Statuses
          BY DEF Lifecycle!transitions, Statuses
        <4>2. status' = [status EXCEPT ![r] = "VALIDATING"]
          BY <2>1, <3>3 DEF ClaimStage
        <4> QED
          BY <1>1, <3>1, <3>3, <4>1, <4>2
      <3> QED
        BY <2>1, <3>1, <3>2, <3>3 DEF ClaimStage, Claimable, ClaimableFrom
    <2>2. CASE CompleteStage(w)
      <3>1. s \in {"VALIDATING", "ANALYZING"} /\ r \in Runs
        BY <1>t, <2>2, TaskType DEF CompleteStage, Stages
      <3>2. NextStatus[s] \in Lifecycle!transitions[s] /\ NextStatus[s] \in Statuses
        BY <3>1 DEF NextStatus, Lifecycle!transitions, Statuses
      <3> QED
        BY <1>1, <2>2, <3>1, <3>2 DEF CompleteStage
    <2>3. CASE CompleteFinalization(w)
      <3>1. r \in Runs
        BY <1>t, <2>3, TaskType DEF CompleteFinalization
      <3>2. "COMPLETED" \in Lifecycle!transitions["FINALIZING"] /\ "COMPLETED" \in Statuses
        BY DEF Lifecycle!transitions, Statuses
      <3> QED
        BY <1>1, <2>3, <3>1, <3>2 DEF CompleteFinalization
    <2>4. CASE FailStage(w)
      <3>1. r \in Runs
        BY <1>t, <2>4, TaskType DEF FailStage
      <3>2. \A st \in Stages : "FAILED" \in Lifecycle!transitions[st]
        BY DEF Stages, Lifecycle!transitions
      <3> QED
        BY <1>1, <2>4, <3>1, <3>2 DEF FailStage, Statuses
    <2>5. CASE UNCHANGED status
      BY <2>5
    <2>6. CASE Quiet(w)
      BY <1>t, <2>5, <2>6, QuietStep DEF runVars
    <2> QED
      BY <1>3, <2>1, <2>2, <2>3, <2>4, <2>5, <2>6
         DEF WorkerStep, HandlerStep, Quiet, StartJob, Work, Finish, Crash, Release, runVars
  <1>4. CASE UNCHANGED vars
    BY <1>4 DEF vars, runVars
  <1>5. ASSUME NEW q \in Runs, ExpireLease(q) PROVE Goal
    BY <1>5 DEF ExpireLease
  <1> QED
    BY <1>2, <1>3, <1>4, <1>5 DEF Next, WorkerStep

\* Whatever is delivered, lost, late or repeated, a run moves along the
\* transition table of state-machine.ts, or is canceled.
THEOREM RefinesLifecycle == Spec => FollowsTableAsBuilt
  <1>1. Init => Lifecycle!Init
    BY DEF Init, Lifecycle!Init
  <1>2. IInv /\ [Next]_vars => [Lifecycle!Next \/ \E r \in Runs : Lifecycle!Overwrite(r)]_status
    BY LifecycleStep
  <1> QED
    BY <1>1, <1>2, Invariance, PTL DEF Spec, FollowsTableAsBuilt, Lifecycle!SpecAsBuilt

-----------------------------------------------------------------------------
(* The assembled pipeline: every step of SystemSpec is a step of Spec or     *)
(* leaves Processing's variables alone.                                      *)

\* At first there are no rows, jobs or scans.
LEMMA InitSystem == SystemInit => SystemIInv
  <1> SUFFICES ASSUME SystemInit PROVE SystemIInv
    OBVIOUS
  <1> USE DEF SystemInit, Outbox!Init
  <1>1. IInv
    BY InitIInv
  <1>2. Outbox!TypeOK
    BY DEF Outbox!TypeOK, Outbox!RowStates, Outbox!JobStates, Outbox!RelayPCs
  <1>3. RowsAreIntents /\ JobsHaveRows /\ RelaysHoldRows /\ ScanFindsRows
    BY DEF Init, RowsAreIntents, JobsHaveRows, RelaysHoldRows, ScanFindsRows
  <1> QED
    BY <1>1, <1>2, <1>3 DEF SystemIInv

-----------------------------------------------------------------------------
(* The refinement, step by step. *)

\* What a scan reads: the row of a run's stage, which exists.
LEMMA ScanReadsRows ==
    ASSUME IInv, NEW r \in Recoverable
    PROVE  <<ContractFor[status[r]], r>> \in intents
  <1>1. r \in Runs /\ status[r] \in {"QUEUED", "VALIDATING", "ANALYZING", "FINALIZING"}
    BY DEF Recoverable, Stages
  <1>2. /\ Enqueued("VALIDATING", r)
        /\ status[r] = "ANALYZING" => Enqueued("ANALYZING", r)
        /\ status[r] = "FINALIZING" => Enqueued("FINALIZING", r)
    BY <1>1 DEF IInv, IntentsMatchRuns
  <1> QED
    BY <1>1, <1>2 DEF ContractFor, Enqueued

\* Every step of the pipeline is one of Processing, or none.
LEMMA StepSimulation ==
    ASSUME SystemIInv, [SystemNext]_systemVars
    PROVE  [Next]_vars
  <1>1. ASSUME NEW c \in Clients, Api(c) PROVE Next
    BY <1>1 DEF Api, Next
  <1>2. ASSUME NEW w \in Workers, Handle(w) \/ End(w) PROVE Next
    BY <1>2 DEF Handle, End, Next
  <1>3. ASSUME NEW w \in Workers, NEW i \in Intents, Deliver(w, i) PROVE Next
    <2>1. StartJob(w, i) /\ i \in intents
      BY <1>3 DEF Deliver, StartJob
    <2> QED
      BY <2>1 DEF Next
  <1>4. ASSUME NEW r \in Runs, LeaseEnds(r) PROVE Next
    BY <1>4 DEF LeaseEnds, Next
  <1>5. CASE ScanWrite
    <2>1. PICK i \in scan : intents' = intents \cup {i}
      BY <1>5 DEF ScanWrite
    <2>2. intents' = intents
      BY <2>1 DEF SystemIInv, ScanFindsRows
    <2> QED
      BY <1>5, <2>2 DEF ScanWrite, vars
  <1>6. CASE Fault
    <2>1. ASSUME NEW w \in Workers, Crash(w) \/ ProcessorThrows(w) PROVE Next
      BY <2>1 DEF Next, HandlerStep
    <2>2. CASE WorkerFault
      BY <2>1, <2>2 DEF WorkerFault
    <2> QED
      BY <1>6, <2>2 DEF Fault, RelayFault, RedisFault, ScanFault
  <1>7. CASE UNCHANGED systemVars
    BY <1>7 DEF systemVars
  <1> QED
    BY <1>1, <1>2, <1>3, <1>4, <1>5, <1>6, <1>7
       DEF SystemNext, Relay, ClaimAges, LockEnds, ScanRead, StartScheduler

\* Rows of the outbox are never deleted.
LEMMA IntentsGrow ==
    ASSUME [Next]_vars
    PROVE  intents \subseteq intents'
  BY DEF Next, ApiStep, SubmitRead, RetryRead, CreateRun, CancelRead, CancelWrite, Rollback,
         StartJob, HandlerStep, ClaimStage, ClaimRefused, Work, Check, CompleteStage,
         CompleteFinalization, CompleteRefused, HandlerThrows, FailStage, ProcessorThrows, Finish,
         Crash, Release, ExpireLease, vars

-----------------------------------------------------------------------------
(* The outbox. *)

RelayActs(p) == Outbox!RelayStep(p) \/ Outbox!PublishThrows(p) \/ Outbox!Abort(p)

\* A relay's step keeps the types of the outbox.
LEMMA RelayTypes ==
    ASSUME Outbox!TypeOK, NEW p \in Relays, RelayActs(p)
    PROVE  Outbox!TypeOK'
  <1> USE DEF Outbox!TypeOK, Outbox!RowStates, Outbox!RelayPCs, Outbox!Due, Outbox!Goto
  <1>1. CASE Outbox!ReleaseAged(p)
    BY <1>1 DEF Outbox!ReleaseAged
  <1>2. CASE Outbox!Select(p)
    <2>1. PICK batch \in SUBSET {i \in Intents : outbox[i] \in Outbox!Due} :
            /\ rseen' = [rseen EXCEPT ![p] = {<<i, outbox[i]>> : i \in batch}]
            /\ Outbox!Goto(p, IF batch = {} THEN "release" ELSE "claim")
      BY <1>2 DEF Outbox!Select
    <2>2. {<<i, outbox[i]>> : i \in batch} \in SUBSET (Intents \X Outbox!Due)
      OBVIOUS
    <2> QED
      BY <1>2, <2>1, <2>2 DEF Outbox!Select
  <1>3. CASE Outbox!ClaimRow(p)
    <2>1. PICK seen \in rseen[p] :
            /\ IF outbox[seen[1]] = seen[2]
               THEN /\ outbox' = [outbox EXCEPT ![seen[1]] = "CLAIMED"]
                    /\ aged' = [aged EXCEPT ![seen[1]] = FALSE]
                    /\ rclaimed' = [rclaimed EXCEPT ![p] = @ \cup {seen[1]}]
               ELSE UNCHANGED <<outbox, aged, rclaimed>>
            /\ rseen' = [rseen EXCEPT ![p] = @ \ {seen}]
            /\ Outbox!Goto(p, IF rseen'[p] # {} THEN "claim"
                              ELSE IF rclaimed'[p] # {} THEN "lookup" ELSE "release")
      BY <1>3 DEF Outbox!ClaimRow
    <2> DEFINE i == seen[1]
    <2>2. i \in Intents
      BY <2>1
    <2>3. \/ UNCHANGED <<outbox, aged, rclaimed>>
          \/ /\ outbox' = [outbox EXCEPT ![i] = "CLAIMED"]
             /\ aged' = [aged EXCEPT ![i] = FALSE]
             /\ rclaimed' = [rclaimed EXCEPT ![p] = @ \cup {i}]
      BY <2>1
    <2> HIDE DEF i
    <2>4. /\ outbox' \in [Intents -> Outbox!RowStates]
          /\ aged' \in [Intents -> BOOLEAN]
          /\ rclaimed' \in [Relays -> SUBSET Intents]
      <3>1. CASE UNCHANGED <<outbox, aged, rclaimed>>
        BY <3>1
      <3>2. CASE /\ outbox' = [outbox EXCEPT ![i] = "CLAIMED"]
                 /\ aged' = [aged EXCEPT ![i] = FALSE]
                 /\ rclaimed' = [rclaimed EXCEPT ![p] = @ \cup {i}]
        BY <2>2, <3>2
      <3> QED
        BY <2>3, <3>1, <3>2
    <2>5. rseen' \in [Relays -> SUBSET (Intents \X Outbox!Due)]
      BY <2>1
    <2>6. rpc' \in [Relays -> Outbox!RelayPCs]
      BY <2>1
    <2> QED
      BY <1>3, <2>4, <2>5, <2>6 DEF Outbox!ClaimRow
  <1>4. CASE Outbox!Lookup(p)
    BY <1>4 DEF Outbox!Lookup
  <1>5. CASE Outbox!Remove(p) \/ Outbox!Add(p)
    BY <1>5 DEF Outbox!Remove, Outbox!Add, Outbox!JobStates
  <1>6. CASE Outbox!PublishThrows(p)
    BY <1>6 DEF Outbox!PublishThrows
  <1>7. CASE Outbox!MarkPublished(p) \/ Outbox!MarkFailed(p)
    BY <1>7 DEF Outbox!MarkPublished, Outbox!MarkFailed, Outbox!NextRow
  <1>8. CASE Outbox!Abort(p)
    BY <1>8 DEF Outbox!Abort
  <1> QED
    BY <1>1, <1>2, <1>3, <1>4, <1>5, <1>6, <1>7, <1>8 DEF RelayActs, Outbox!RelayStep

\* A relay makes and forgets no row, and adds jobs of rows alone.
LEMMA RelayKeeps ==
    ASSUME SystemIInv, NEW p \in Relays, RelayActs(p), UNCHANGED intents
    PROVE  RowsAreIntents' /\ JobsHaveRows' /\ RelaysHoldRows'
  <1>t. /\ Outbox!TypeOK /\ RowsAreIntents /\ JobsHaveRows /\ RelaysHoldRows
        /\ intents \subseteq Intents
    BY DEF SystemIInv, IInv, TypeOK
  <1> USE DEF Outbox!TypeOK, Outbox!Goto, RowsAreIntents, JobsHaveRows, RelaysHoldRows
  <1>1. CASE Outbox!ReleaseAged(p)
    BY <1>t, <1>1 DEF Outbox!ReleaseAged
  <1>2. CASE Outbox!Select(p)
    <2>1. /\ UNCHANGED <<outbox, job, rclaimed, rrow>>
          /\ rpc' \in {[rpc EXCEPT ![p] = "release"], [rpc EXCEPT ![p] = "claim"]}
      BY <1>2 DEF Outbox!Select
    <2> QED
      BY <1>t, <2>1
  <1>3. CASE Outbox!ClaimRow(p)
    <2>1. PICK seen \in rseen[p] :
            /\ IF outbox[seen[1]] = seen[2]
               THEN /\ outbox' = [outbox EXCEPT ![seen[1]] = "CLAIMED"]
                    /\ rclaimed' = [rclaimed EXCEPT ![p] = @ \cup {seen[1]}]
               ELSE UNCHANGED <<outbox, rclaimed>>
            /\ Outbox!Goto(p, IF rseen'[p] # {} THEN "claim"
                              ELSE IF rclaimed'[p] # {} THEN "lookup" ELSE "release")
      BY <1>3 DEF Outbox!ClaimRow
    <2> DEFINE i == seen[1]
    <2>2. i \in Intents /\ seen[2] # "NONE"
      BY <1>t, <2>1 DEF Outbox!Due
    <2>3. \/ UNCHANGED <<outbox, rclaimed>>
          \/ /\ i \in intents
             /\ outbox' = [outbox EXCEPT ![i] = "CLAIMED"]
             /\ rclaimed' = [rclaimed EXCEPT ![p] = @ \cup {i}]
      BY <1>t, <2>1, <2>2
    <2>4. /\ UNCHANGED <<job, rrow>>
          /\ \A q \in Relays : rpc'[q] = rpc[q] \/ rpc'[q] \in {"claim", "lookup", "release"}
      BY <1>t, <1>3, <2>1 DEF Outbox!ClaimRow
    <2> HIDE DEF i
    <2> QED
      BY <1>t, <2>2, <2>3, <2>4
  <1>4. CASE Outbox!Lookup(p)
    BY <1>t, <1>4 DEF Outbox!Lookup
  <1>5. CASE Outbox!Remove(p)
    BY <1>t, <1>5 DEF Outbox!Remove
  <1>6. CASE Outbox!Add(p)
    BY <1>t, <1>6 DEF Outbox!Add
  <1>7. CASE Outbox!PublishThrows(p)
    BY <1>t, <1>7 DEF Outbox!PublishThrows
  <1>8. CASE Outbox!MarkPublished(p) \/ Outbox!MarkFailed(p)
    BY <1>t, <1>8 DEF Outbox!MarkPublished, Outbox!MarkFailed, Outbox!NextRow
  <1>9. CASE Outbox!Abort(p)
    BY <1>t, <1>9 DEF Outbox!Abort
  <1> QED
    BY <1>1, <1>2, <1>3, <1>4, <1>5, <1>6, <1>7, <1>8, <1>9 DEF RelayActs, Outbox!RelayStep

-----------------------------------------------------------------------------
(* The invariant. *)

\* The transactions of the API and of the handlers.
LEMMA ProduceStep ==
    ASSUME SystemIInv, IInv', intents \subseteq intents', Produce
    PROVE  SystemIInv'
  <1>t. intents' \subseteq Intents
    BY DEF IInv, TypeOK
  <1> USE DEF SystemIInv, Produce, relayVars
  <1>1. Outbox!TypeOK'
    BY DEF Outbox!TypeOK, Outbox!Enqueued, Outbox!RowStates
  <1>2. RowsAreIntents'
    BY <1>t DEF RowsAreIntents, Outbox!Enqueued
  <1> QED
    BY <1>1, <1>2 DEF JobsHaveRows, RelaysHoldRows, ScanFindsRows

\* Steps of the queue: whatever happens to a job, it keeps its row.
LEMMA QueueStep ==
    ASSUME SystemIInv, IInv', UNCHANGED <<intents, outbox, aged, relayVars, scan>>,
           job' \in [Intents -> Outbox!JobStates \cup Workers],
           \A i \in Intents : job'[i] # "none" => i \in intents
    PROVE  SystemIInv'
  BY DEF SystemIInv, Outbox!TypeOK, RowsAreIntents, JobsHaveRows, RelaysHoldRows, ScanFindsRows,
         relayVars

\* Every step of the pipeline keeps its inductive invariant.
LEMMA NextSystem == SystemIInv /\ [SystemNext]_systemVars => SystemIInv'
  <1> SUFFICES ASSUME SystemIInv, [SystemNext]_systemVars PROVE SystemIInv'
    OBVIOUS
  <1>t. /\ IInv /\ TypeOK /\ Outbox!TypeOK /\ JobsHaveRows /\ intents \subseteq Intents
        /\ IInv'
        /\ intents \subseteq intents'
    BY StepSimulation, NextIInv, IntentsGrow DEF SystemIInv, IInv, TypeOK
  <1> USE DEF relayVars, outboxVars, vars
  <1>1. ASSUME Produce PROVE SystemIInv'
    BY <1>t, <1>1, ProduceStep
  <1>2. ASSUME NEW w \in Workers, NEW i \in Intents, Deliver(w, i) PROVE SystemIInv'
    <2>1. job[i] = "waiting" /\ job' = [job EXCEPT ![i] = w]
      BY <1>2 DEF Deliver, Outbox!Take
    <2>2. job' \in [Intents -> Outbox!JobStates \cup Workers]
      BY <1>t, <2>1 DEF Outbox!TypeOK
    <2>3. /\ UNCHANGED <<intents, outbox, aged, relayVars, scan>>
          /\ \A k \in Intents : job'[k] # "none" => k \in intents
      BY <1>t, <1>2, <2>1 DEF Deliver, StartJob, Outbox!TypeOK, JobsHaveRows
    <2> QED
      BY <1>t, <2>2, <2>3, QueueStep
  <1>3. ASSUME NEW w \in Workers, End(w) PROVE SystemIInv'
    <2>1. PICK state \in {"waiting", "finished"} :
            job' = [job EXCEPT ![wtask[w]] = IF @ = w THEN state ELSE @]
      BY <1>3 DEF End, Outbox!Settle
    <2>2. wtask[w] \in intents
      BY <1>t, <1>3 DEF End, Finish, IInv, TasksEnqueued
    <2>3. job' \in [Intents -> Outbox!JobStates \cup Workers]
      BY <1>t, <2>1 DEF Outbox!TypeOK, Outbox!JobStates
    <2>4. /\ UNCHANGED <<intents, outbox, aged, relayVars, scan>>
          /\ \A i \in Intents : job'[i] # "none" => i \in intents
      BY <1>t, <1>3, <2>1, <2>2 DEF End, Finish, Release, Outbox!TypeOK, JobsHaveRows
    <2> QED
      BY <1>t, <2>3, <2>4, QueueStep
  <1>4. ASSUME NEW p \in Relays, RelayActs(p), UNCHANGED <<vars, scan>> PROVE SystemIInv'
    BY <1>t, <1>4, RelayTypes, RelayKeeps DEF SystemIInv, ScanFindsRows
  <1>5. ASSUME NEW i \in Intents, Outbox!Age(i), UNCHANGED <<vars, scan>> PROVE SystemIInv'
    <2>1. aged' \in [Intents -> BOOLEAN] /\ UNCHANGED <<intents, outbox, job, relayVars, scan>>
      BY <1>t, <1>5 DEF Outbox!Age, Outbox!TypeOK, Outbox!relayVars
    <2> QED
      BY <1>t, <2>1 DEF SystemIInv, Outbox!TypeOK, RowsAreIntents, JobsHaveRows, RelaysHoldRows,
                        ScanFindsRows
  <1>6. ASSUME NEW i \in Intents, Outbox!Stall(i), UNCHANGED <<vars, scan>> PROVE SystemIInv'
    <2>1. PICK state \in {"waiting", "finished"} : job' = [job EXCEPT ![i] = state]
      BY <1>6 DEF Outbox!Stall
    <2>2. job' \in [Intents -> Outbox!JobStates \cup Workers]
      BY <1>t, <2>1 DEF Outbox!TypeOK, Outbox!JobStates
    <2>3. i \in intents
      BY <1>t, <1>6, WorkersAssumption
         DEF Outbox!Stall, Outbox!Locked, Outbox!JobStates, JobsHaveRows
    <2>4. /\ UNCHANGED <<intents, outbox, aged, relayVars, scan>>
          /\ \A k \in Intents : job'[k] # "none" => k \in intents
      BY <1>t, <1>6, <2>1, <2>3 DEF Outbox!Stall, Outbox!relayVars, Outbox!TypeOK, JobsHaveRows
    <2> QED
      BY <1>t, <2>2, <2>4, QueueStep
  <1>7. ASSUME Outbox!Flush, UNCHANGED <<vars, scan>> PROVE SystemIInv'
    <2>1. /\ job' = [i \in Intents |-> "none"]
          /\ UNCHANGED <<intents, outbox, aged, relayVars, scan>>
      BY <1>7 DEF Outbox!Flush, Outbox!relayVars
    <2>2. job' \in [Intents -> Outbox!JobStates \cup Workers]
      BY <2>1 DEF Outbox!JobStates
    <2> QED
      BY <1>t, <2>1, <2>2, QueueStep
  <1>8. CASE ScanRead
    BY <1>t, <1>8, ScanReadsRows
       DEF ScanRead, SystemIInv, Outbox!TypeOK, RowsAreIntents, JobsHaveRows, RelaysHoldRows,
           ScanFindsRows
  <1>9. CASE ScanWrite
    <2>1. PICK i \in scan : /\ outbox' = IF outbox[i] = "NONE" THEN Outbox!Enqueued({i})
                                         ELSE Outbox!Rearmed(i)
                            /\ intents' = intents \cup {i}
                            /\ scan' = scan \ {i}
      BY <1>9 DEF ScanWrite
    <2>2. i \in intents /\ intents' = intents /\ outbox[i] # "NONE"
      BY <1>t, <2>1 DEF SystemIInv, ScanFindsRows, RowsAreIntents
    <2>3. outbox' = outbox \/ outbox' = [outbox EXCEPT ![i] = "PENDING"]
      BY <2>1, <2>2 DEF Outbox!Rearmed
    <2>4. /\ outbox' \in [Intents -> Outbox!RowStates]
          /\ \A k \in Intents : outbox'[k] = "NONE" <=> outbox[k] = "NONE"
      BY <1>t, <2>2, <2>3 DEF Outbox!TypeOK, Outbox!RowStates
    <2>5. RowsAreIntents' /\ ScanFindsRows'
      BY <2>1, <2>2, <2>4 DEF SystemIInv, RowsAreIntents, ScanFindsRows
    <2>6. UNCHANGED <<aged, job, relayVars>>
      BY <1>9 DEF ScanWrite
    <2> QED
      BY <1>t, <2>2, <2>4, <2>5, <2>6 DEF SystemIInv, Outbox!TypeOK, JobsHaveRows, RelaysHoldRows
  <1>10. ASSUME UNCHANGED <<intents, outboxVars>>, scan' \in {scan, {}} PROVE SystemIInv'
    BY <1>t, <1>10 DEF SystemIInv, Outbox!TypeOK, RowsAreIntents, JobsHaveRows, RelaysHoldRows,
                       ScanFindsRows
  <1>11. CASE Fault
    <2>1. CASE WorkerFault
      BY <1>10, <2>1 DEF WorkerFault, Crash, Release, ProcessorThrows
    <2>2. CASE RelayFault
      BY <1>4, <2>2 DEF RelayFault, RelayActs
    <2>3. CASE RedisFault
      BY <1>6, <1>7, <2>3 DEF RedisFault
    <2>4. CASE ScanFault
      BY <1>10, <2>4 DEF ScanFault
    <2> QED
      BY <1>11, <2>1, <2>2, <2>3, <2>4 DEF Fault
  <1>12. ASSUME NEW r \in Runs, LeaseEnds(r) PROVE SystemIInv'
    BY <1>10, <1>12 DEF LeaseEnds, ExpireLease
  <1>13. CASE StartScheduler \/ UNCHANGED systemVars
    BY <1>10, <1>13 DEF StartScheduler, systemVars
  <1> QED
    BY <1>1, <1>2, <1>3, <1>4, <1>5, <1>6, <1>8, <1>9, <1>11, <1>12, <1>13
       DEF SystemNext, Api, Handle, Relay, RelayActs, ClaimAges, LockEnds

-----------------------------------------------------------------------------
(* Theorems. *)

\* The inductive invariant of the pipeline holds: what relays publish, the
\* queue delivers and scans re-arm are rows of stages the runs have reached.
THEOREM SystemInvariance == SystemSpec => []SystemIInv
  <1> QED
    BY InitSystem, NextSystem, PTL DEF SystemSpec

\* The pipeline of outbox, relays, BullMQ and recovery scan implements
\* Processing, whose job delivery is left to chance.
THEOREM PipelineImplementsProcessing == SystemSpec => ImplementsProcessing
  <1>1. SystemInit => Init
    BY DEF SystemInit
  <1>2. SystemIInv /\ [SystemNext]_systemVars => [Next]_vars
    BY StepSimulation
  <1> QED
    BY <1>1, <1>2, SystemInvariance, PTL DEF SystemSpec, ImplementsProcessing, Spec

\* So the pipeline, too, has no two workers in one stage, publishes a run once,
\* whole and from its report, keeps outbox and runs in step and leaves no gap in
\* the revisions, although jobs are delivered late, twice, or again after a loss
\* of all of Redis.
THEOREM PipelineIsSafe ==
    SystemSpec => [](LeaseExclusive /\ OutputOnce /\ IntentsMatchRuns /\ RevisionsContiguous)
  <1>1. SystemIInv => LeaseExclusive /\ OutputOnce /\ IntentsMatchRuns /\ RevisionsContiguous
    BY DEF SystemIInv, IInv
  <1> QED
    BY <1>1, SystemInvariance, PTL

\* And its runs move along the transition table, or are canceled.
THEOREM PipelineRefinesLifecycle == SystemSpec => FollowsTableAsBuilt
  <1>1. SystemSpec => Spec
    BY PipelineImplementsProcessing DEF ImplementsProcessing
  <1> QED
    BY <1>1, RefinesLifecycle
=============================================================================
