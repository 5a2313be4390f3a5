----------------------------- MODULE Processing -----------------------------
(***************************************************************************)
(* The processing of documents: the ProcessingRun rows of PostgreSQL, the  *)
(* API requests that create and cancel runs, and the worker handlers that  *)
(* take a run through its stages.                                          *)
(*                                                                         *)
(* One step is one database statement or one transaction; a handler that   *)
(* awaits several of them is a program counter, and anything may happen    *)
(* between two of its steps: another worker's step, a cancellation, the    *)
(* end of its own lease, a crash.  Job delivery is the weakest the queue   *)
(* gives: a job may be delivered from the moment its outbox row exists,    *)
(* any number of times, to several workers at once.  Module                *)
(* ProcessingSystem replaces it by the outbox, the relay and BullMQ.       *)
(***************************************************************************)
EXTENDS Naturals, FiniteSets, Sequences

CONSTANTS Docs,         \* READY documents
          MaxRevision,  \* bound: runs of one document
          Workers,      \* worker slots, across all worker processes
          Clients,      \* concurrent API requests
          Endpoints,    \* webhook endpoints of the workspace
          LostAcks      \* may the acknowledgment of a COMMIT be lost?

ASSUME MaxRevisionAssumption == MaxRevision \in Nat \ {0}
ASSUME LostAcksAssumption == LostAcks \in BOOLEAN

Statuses == {"ABSENT", "QUEUED", "VALIDATING", "ANALYZING", "FINALIZING",
             "COMPLETED", "FAILED", "CANCELED"}

Terminal == {"COMPLETED", "FAILED", "CANCELED"}

Stages == {"VALIDATING", "ANALYZING", "FINALIZING"}

\* A run is named by its unique key (documentId, revision).
Revisions == 1..MaxRevision
Runs == Docs \X Revisions

\* The outbox row, and the job, of a stage of a run: document.validate.v1,
\* document.analyze.v1 or document.finalize.v1 with the run as business id.
\* The revision of the row is the run's stageRevision, which is always 1.
Intents == Stages \X Runs

NoTask == <<>>
NoRun == <<>>

\* Mutant: a claim of any stage takes any active run.
ClaimableFrom_Active(s) == {"QUEUED", "VALIDATING", "ANALYZING", "FINALIZING"}

\* The statuses a claim of a stage accepts, and the one its success leads to.
ClaimableFrom(s) == IF s = "VALIDATING" THEN {"QUEUED", "VALIDATING"} ELSE {s}

NextStatus == [VALIDATING |-> "ANALYZING", ANALYZING |-> "FINALIZING", FINALIZING |-> "COMPLETED"]

VARIABLES
    status,      \* ProcessingRun.status
    leased,      \* leaseExpiresAt is set and in the future
    report,      \* ProcessingRun.result is set
    intents,     \* the outbox rows that exist
    artifacts,   \* the RESULT artifacts of a run: what their objects hold
    events,      \* how often processing.completed was recorded for a run,
                 \* each time with its notification.publish.v1 intent
    deliveries,  \* endpoints with a webhook delivery for the run's completion
    endpoint,    \* the state of a webhook endpoint
    wpc,         \* where a worker's handler is
    wtask,       \* the job it runs
    wbody,       \* what the object put by makeArtifact holds
    fresh,       \* history variable: the lease of its claim has not run out
    request      \* an API request between its read and its write

runVars == <<status, leased, report>>
outVars == <<artifacts, events, deliveries>>
workerVars == <<wpc, wtask, wbody, fresh>>
vars == <<runVars, intents, outVars, endpoint, workerVars, request>>

PCs == {"idle", "claim", "work", "check", "commit", "fail", "returned", "threw"}

Bodies == {"none", "report", "empty"}

\* "skipped": inactive, not subscribed, or without an encrypted secret.
\* "broken": its secret does not decrypt under the worker's key.
EndpointStates == {"ready", "skipped", "broken"}

Requests == [op : {"none", "create", "cancel"}, run : Runs \cup {NoRun}]

NoRequest == [op |-> "none", run |-> NoRun]

TypeOK ==
    /\ status \in [Runs -> Statuses]
    /\ leased \in [Runs -> BOOLEAN]
    /\ report \in [Runs -> BOOLEAN]
    /\ intents \in SUBSET Intents
    /\ artifacts \in [Runs -> Seq(Bodies)]
    /\ events \in [Runs -> Nat]
    /\ deliveries \in [Runs -> SUBSET Endpoints]
    /\ endpoint \in [Endpoints -> EndpointStates]
    /\ wpc \in [Workers -> PCs]
    /\ wtask \in [Workers -> Intents \cup {NoTask}]
    /\ wbody \in [Workers -> Bodies]
    /\ fresh \in [Workers -> BOOLEAN]
    /\ request \in [Clients -> Requests]

Init ==
    /\ status = [r \in Runs |-> "ABSENT"]
    /\ leased = [r \in Runs |-> FALSE]
    /\ report = [r \in Runs |-> FALSE]
    /\ intents = {}
    /\ artifacts = [r \in Runs |-> << >>]
    /\ events = [r \in Runs |-> 0]
    /\ deliveries = [r \in Runs |-> {}]
    /\ endpoint \in [Endpoints -> EndpointStates]
    /\ wpc = [w \in Workers |-> "idle"]
    /\ wtask = [w \in Workers |-> NoTask]
    /\ wbody = [w \in Workers |-> "none"]
    /\ fresh = [w \in Workers |-> FALSE]
    /\ request = [c \in Clients |-> NoRequest]

-----------------------------------------------------------------------------
(* API requests: a transaction that reads, then writes.  PostgreSQL runs   *)
(* it at READ COMMITTED, so what was read may no longer be true when the   *)
(* write happens.  A rejected request changes nothing and is no step.      *)

RunsOf(d) == {r \in Runs : r[1] = d /\ status[r] # "ABSENT"}

\* Mutant: the count is taken for the last revision plus one.
SubmitRead_Skips(c, d) ==
    /\ request[c].op = "none"
    /\ Cardinality(RunsOf(d)) + 1 < MaxRevision
    /\ request' = [request EXCEPT ![c] =
                     [op |-> "create", run |-> <<d, Cardinality(RunsOf(d)) + 2>>]]
    /\ UNCHANGED <<runVars, intents, outVars, endpoint, workerVars>>

\* submitProcessingRun, to the count of the document's runs.
SubmitRead(c, d) ==
    /\ request[c].op = "none"
    /\ Cardinality(RunsOf(d)) < MaxRevision
    /\ request' = [request EXCEPT ![c] =
                     [op |-> "create", run |-> <<d, Cardinality(RunsOf(d)) + 1>>]]
    /\ UNCHANGED <<runVars, intents, outVars, endpoint, workerVars>>

\* retryProcessingRun, to the test of the old run's status.
RetryRead(c, r) ==
    /\ request[c].op = "none"
    /\ status[r] = "FAILED"
    /\ r[2] < MaxRevision
    /\ request' = [request EXCEPT ![c] =
                     [op |-> "create", run |-> <<r[1], r[2] + 1>>]]
    /\ UNCHANGED <<runVars, intents, outVars, endpoint, workerVars>>

\* The insert of the run and of its first intent, common to both.  The key
\* (workspace, document, revision) is unique: a taken revision rolls back.
CreateRun(c) ==
    LET r == request[c].run IN
    /\ request[c].op = "create"
    /\ request' = [request EXCEPT ![c] = NoRequest]
    /\ IF status[r] = "ABSENT"
       THEN /\ status' = [status EXCEPT ![r] = "QUEUED"]
            /\ intents' = intents \cup {<<"VALIDATING", r>>}
       ELSE UNCHANGED <<status, intents>>
    /\ UNCHANGED <<leased, report, outVars, endpoint, workerVars>>

CancelRead(c, r) ==
    /\ request[c].op = "none"
    /\ status[r] \notin Terminal \cup {"ABSENT"}
    /\ request' = [request EXCEPT ![c] = [op |-> "cancel", run |-> r]]
    /\ UNCHANGED <<runVars, intents, outVars, endpoint, workerVars>>

\* The update names the run by id alone: no status, no revision.
CancelWrite(c) ==
    /\ request[c].op = "cancel"
    /\ status' = [status EXCEPT ![request[c].run] = "CANCELED"]
    /\ request' = [request EXCEPT ![c] = NoRequest]
    /\ UNCHANGED <<leased, report, intents, outVars, endpoint, workerVars>>

\* The transaction is rolled back: a lost connection, a killed process.
Rollback(c) ==
    /\ request[c].op # "none"
    /\ request' = [request EXCEPT ![c] = NoRequest]
    /\ UNCHANGED <<runVars, intents, outVars, endpoint, workerVars>>

-----------------------------------------------------------------------------
(* Worker handlers.  wpc names the statement a worker executes next:       *)
(* "claim" claimStage, "work" readContent or makeArtifact, "check" the     *)
(* read that precedes the transaction of a completion, "commit" that       *)
(* transaction, "fail" failStage in the catch block; "returned" and        *)
(* "threw" say how the processor ended, which is all the queue sees.       *)

StageOf(w) == wtask[w][1]
RunOf(w) == wtask[w][2]

Goto(w, label) == wpc' = [wpc EXCEPT ![w] = label]

StartJob(w, i) ==
    /\ wpc[w] = "idle"
    /\ i \in intents
    /\ Goto(w, "claim")
    /\ wtask' = [wtask EXCEPT ![w] = i]
    /\ UNCHANGED <<runVars, intents, outVars, endpoint, wbody, fresh, request>>

\* Mutant: the lease is not tested.
Claimable_Leased(s, r) == status[r] \in ClaimableFrom(s)

Claimable(s, r) == status[r] \in ClaimableFrom(s) /\ ~leased[r]

\* claimStage: one conditional update.
ClaimStage(w) ==
    LET s == StageOf(w)  r == RunOf(w) IN
    /\ wpc[w] = "claim"
    /\ Claimable(s, r)
    /\ status' = [status EXCEPT ![r] = s]
    /\ leased' = [leased EXCEPT ![r] = TRUE]
    /\ fresh' = [fresh EXCEPT ![w] = TRUE]
    /\ Goto(w, IF s = "VALIDATING" THEN "check" ELSE "work")
    /\ UNCHANGED <<report, intents, outVars, endpoint, wtask, wbody, request>>

\* NO_OP: a stale job, a run that is leased, canceled or done.
ClaimRefused(w) ==
    /\ wpc[w] = "claim"
    /\ ~Claimable(StageOf(w), RunOf(w))
    /\ Goto(w, "returned")
    /\ UNCHANGED <<runVars, intents, outVars, endpoint, wtask, wbody, fresh, request>>

\* readContent of the analysis; makeArtifact of the finalization, which
\* puts an object built from the run's result, `run.result ?? {}`.
Work(w) ==
    /\ wpc[w] = "work"
    /\ IF StageOf(w) = "FINALIZING"
       THEN /\ wbody' = [wbody EXCEPT ![w] = IF report[RunOf(w)] THEN "report" ELSE "empty"]
            /\ Goto(w, "commit")
       ELSE /\ Goto(w, "check")
            /\ UNCHANGED wbody
    /\ UNCHANGED <<runVars, intents, outVars, endpoint, wtask, fresh, request>>

\* completeValidation and completeAnalysis read the run before they open
\* the transaction, and return false when it has left the stage.
Check(w) ==
    /\ wpc[w] = "check"
    /\ Goto(w, IF status[RunOf(w)] = StageOf(w) THEN "commit" ELSE "returned")
    /\ UNCHANGED <<runVars, intents, outVars, endpoint, wtask, wbody, fresh, request>>

\* A transaction that changed nothing returns false; one that committed may
\* still throw in the handler, when the acknowledgment of COMMIT is lost.
AfterCommit(w) ==
    \E label \in IF LostAcks THEN {"returned", "fail"} ELSE {"returned"} : Goto(w, label)

\* Mutant: the next intent is left to a later statement.
CompleteStage_NoIntent(w) ==
    LET s == StageOf(w)  r == RunOf(w) IN
    /\ wpc[w] = "commit"
    /\ s # "FINALIZING"
    /\ status[r] = s
    /\ status' = [status EXCEPT ![r] = NextStatus[s]]
    /\ leased' = [leased EXCEPT ![r] = FALSE]
    /\ report' = [report EXCEPT ![r] = @ \/ s = "ANALYZING"]
    /\ AfterCommit(w)
    /\ UNCHANGED <<intents, outVars, endpoint, wtask, wbody, fresh, request>>

\* The transaction of completeValidation and completeAnalysis.
CompleteStage(w) ==
    LET s == StageOf(w)  r == RunOf(w) IN
    /\ wpc[w] = "commit"
    /\ s # "FINALIZING"
    /\ status[r] = s
    /\ status' = [status EXCEPT ![r] = NextStatus[s]]
    /\ leased' = [leased EXCEPT ![r] = FALSE]
    /\ report' = [report EXCEPT ![r] = @ \/ s = "ANALYZING"]
    /\ intents' = intents \cup {<<NextStatus[s], r>>}
    /\ AfterCommit(w)
    /\ UNCHANGED <<outVars, endpoint, wtask, wbody, fresh, request>>

Ready == {e \in Endpoints : endpoint[e] = "ready"}
Broken == {e \in Endpoints : endpoint[e] = "broken"}

\* Mutant: the status is not tested again inside the transaction.
CompleteFinalization_Unguarded(w) ==
    LET r == RunOf(w) IN
    /\ wpc[w] = "commit"
    /\ StageOf(w) = "FINALIZING"
    /\ Broken = {}
    /\ status' = [status EXCEPT ![r] = "COMPLETED"]
    /\ leased' = [leased EXCEPT ![r] = FALSE]
    /\ artifacts' = [artifacts EXCEPT ![r] = Append(@, wbody[w])]
    /\ events' = [events EXCEPT ![r] = @ + 1]
    /\ deliveries' = [deliveries EXCEPT ![r] = @ \cup Ready]
    /\ AfterCommit(w)
    /\ UNCHANGED <<report, intents, endpoint, wtask, wbody, fresh, request>>

\* completeFinalization: the run, its artifact, its event and notification
\* and a delivery per endpoint, in one transaction.
CompleteFinalization(w) ==
    LET r == RunOf(w) IN
    /\ wpc[w] = "commit"
    /\ StageOf(w) = "FINALIZING"
    /\ status[r] = "FINALIZING"
    /\ Broken = {}
    /\ status' = [status EXCEPT ![r] = "COMPLETED"]
    /\ leased' = [leased EXCEPT ![r] = FALSE]
    /\ artifacts' = [artifacts EXCEPT ![r] = Append(@, wbody[w])]
    /\ events' = [events EXCEPT ![r] = @ + 1]
    /\ deliveries' = [deliveries EXCEPT ![r] = @ \cup Ready]
    /\ AfterCommit(w)
    /\ UNCHANGED <<report, intents, endpoint, wtask, wbody, fresh, request>>

\* The run has left the stage since the claim: nothing is written.
CompleteRefused(w) ==
    /\ wpc[w] = "commit"
    /\ status[RunOf(w)] # StageOf(w)
    /\ Goto(w, "returned")
    /\ UNCHANGED <<runVars, intents, outVars, endpoint, wtask, wbody, fresh, request>>

\* The try block throws: storage, a rolled back transaction, a secret that
\* does not decrypt.
HandlerThrows(w) ==
    /\ wpc[w] \in {"work", "check", "commit"}
    /\ Goto(w, "fail")
    /\ UNCHANGED <<runVars, intents, outVars, endpoint, wtask, wbody, fresh, request>>

\* Mutant: the status is not tested.
FailStage_Any(w) ==
    /\ wpc[w] = "fail"
    /\ status' = [status EXCEPT ![RunOf(w)] = "FAILED"]
    /\ leased' = [leased EXCEPT ![RunOf(w)] = FALSE]
    /\ Goto(w, "returned")
    /\ UNCHANGED <<report, intents, outVars, endpoint, wtask, wbody, fresh, request>>

\* failStage, whichever stage the run has reached by now.
FailStage(w) ==
    LET r == RunOf(w) IN
    /\ wpc[w] = "fail"
    /\ IF status[r] \in Stages
       THEN /\ status' = [status EXCEPT ![r] = "FAILED"]
            /\ leased' = [leased EXCEPT ![r] = FALSE]
       ELSE UNCHANGED <<status, leased>>
    /\ Goto(w, "returned")
    /\ UNCHANGED <<report, intents, outVars, endpoint, wtask, wbody, fresh, request>>

\* claimStage is outside the try block, failStage inside the catch block.
ProcessorThrows(w) ==
    /\ wpc[w] \in {"claim", "fail"}
    /\ Goto(w, "threw")
    /\ UNCHANGED <<runVars, intents, outVars, endpoint, wtask, wbody, fresh, request>>

Release(w) ==
    /\ Goto(w, "idle")
    /\ wtask' = [wtask EXCEPT ![w] = NoTask]
    /\ wbody' = [wbody EXCEPT ![w] = "none"]
    /\ fresh' = [fresh EXCEPT ![w] = FALSE]
    /\ UNCHANGED <<runVars, intents, outVars, endpoint, request>>

\* The processor's promise settles.
Finish(w) == wpc[w] \in {"returned", "threw"} /\ Release(w)

\* The worker process dies; only what was committed remains.
Crash(w) == wpc[w] # "idle" /\ Release(w)

\* Sixty seconds have passed since the claim, whatever its worker does.
ExpireLease(r) ==
    /\ leased[r]
    /\ leased' = [leased EXCEPT ![r] = FALSE]
    /\ fresh' = [w \in Workers |-> fresh[w] /\ RunOf(w) # r]
    /\ UNCHANGED <<status, report, intents, outVars, endpoint, wpc, wtask, wbody, request>>

-----------------------------------------------------------------------------
ApiStep(c) ==
    \/ \E d \in Docs : SubmitRead(c, d)
    \/ \E r \in Runs : RetryRead(c, r) \/ CancelRead(c, r)
    \/ CreateRun(c)
    \/ CancelWrite(c)
    \/ Rollback(c)

HandlerStep(w) ==
    \/ ClaimStage(w)
    \/ ClaimRefused(w)
    \/ Work(w)
    \/ Check(w)
    \/ CompleteStage(w)
    \/ CompleteFinalization(w)
    \/ CompleteRefused(w)
    \/ HandlerThrows(w)
    \/ FailStage(w)
    \/ ProcessorThrows(w)

Next ==
    \/ \E c \in Clients : ApiStep(c)
    \/ \E w \in Workers :
         \/ \E i \in intents : StartJob(w, i)
         \/ HandlerStep(w)
         \/ Finish(w)
         \/ Crash(w)
    \/ \E r \in Runs : ExpireLease(r)

Spec == Init /\ [][Next]_vars

-----------------------------------------------------------------------------
(* Properties. *)

Working(w) == wpc[w] \in {"work", "check", "commit", "fail"}

\* Two workers inside the lease of their own claims never work on the same
\* stage of the same run: claimStage is the only lock of the pipeline, and
\* completions and failures release it without looking at who holds it.
LeaseExclusive ==
    \A v, w \in Workers :
        v # w /\ Working(v) /\ Working(w) /\ fresh[v] /\ fresh[w] => wtask[v] # wtask[w]

Unpublished(r) == artifacts[r] = << >> /\ events[r] = 0 /\ deliveries[r] = {}
Published(r) == artifacts[r] = <<"report">> /\ events[r] = 1 /\ deliveries[r] = Ready

\* A completed run has one result artifact, made from its report, one
\* completion event and a delivery for each endpoint that can be signed; a
\* run that is active or failed has none of them, however often its jobs
\* were delivered, replayed or interrupted (complete-finalization.ts).  A
\* canceled run has all of them or none.
OutputOnce ==
    \A r \in Runs :
        /\ status[r] = "COMPLETED" => Published(r)
        /\ status[r] \notin {"COMPLETED", "CANCELED"} => Unpublished(r)
        /\ status[r] = "CANCELED" => Published(r) \/ Unpublished(r)

\* The outbox and the run agree: the row of the stage a run waits for or is
\* in exists, so a scan of the runs can re-arm it, and there is no row for
\* a stage the run has not reached (every transition enqueues the next one).
Enqueued(s, r) == <<s, r>> \in intents

IntentsMatchRuns ==
    \A r \in Runs :
        /\ Enqueued("VALIDATING", r) <=> status[r] # "ABSENT"
        /\ Enqueued("FINALIZING", r) => Enqueued("ANALYZING", r)
        /\ Enqueued("ANALYZING", r) => status[r] \notin {"ABSENT", "QUEUED", "VALIDATING"}
        /\ status[r] = "ANALYZING" => Enqueued("ANALYZING", r) /\ ~Enqueued("FINALIZING", r)
        /\ status[r] \in {"FINALIZING", "COMPLETED"} => Enqueued("FINALIZING", r)

\* The revisions of a document's runs are 1, 2, ... without a gap, although
\* a submission counts the runs and a retry adds one to the run it read.
RevisionsContiguous ==
    \A d \in Docs : \A m, n \in Revisions :
        m < n /\ status[<<d, n>>] # "ABSENT" => status[<<d, m>>] # "ABSENT"

\* Analysis results survive: a run to be finalized has its report.
ReportKept == \A r \in Runs : status[r] \in {"FINALIZING", "COMPLETED"} => report[r]

-----------------------------------------------------------------------------
(* The state machine the runs are meant to follow. *)

Lifecycle == INSTANCE RunLifecycle

\* state-machine.ts: COMPLETED, FAILED and CANCELED have no transition.
FollowsTable == Lifecycle!Spec

\* What the code implements of it: every status change is in the table, but
\* for a cancellation that overwrites what it did not read.
FollowsTableAsBuilt == Lifecycle!SpecAsBuilt

\* A worker ends a run only from the stage it was given: whoever is still
\* in an already completed stage has no effect on the run.  The code does
\* not keep it: failStage takes a run from any stage.
OnlyOwnStageFails ==
    [][\A w \in Workers, r \in Runs :
         wpc[w] = "fail" /\ wpc'[w] = "returned" /\ wtask[w][2] = r /\ status'[r] # status[r]
             => status[r] = wtask[w][1]]_vars

-----------------------------------------------------------------------------
(* The inductive invariant. *)

\* A job at hand names a row of the outbox.
TasksEnqueued ==
    \A w \in Workers : IF wpc[w] = "idle" THEN wtask[w] = NoTask ELSE wtask[w] \in intents

\* Inside the lease of its claim a worker either still has the run in its
\* stage, leased, or the run has left the stage for good.
LeaseCovers ==
    \A w \in Workers : Working(w) /\ fresh[w] =>
        \/ status[RunOf(w)] = StageOf(w) /\ leased[RunOf(w)]
        \/ status[RunOf(w)] \notin ClaimableFrom(StageOf(w))

\* A finalization starts after the report was saved, and publishes it.
ReportPublished ==
    \A w \in Workers : wpc[w] \in {"work", "check", "commit"} /\ StageOf(w) = "FINALIZING" =>
        /\ report[RunOf(w)]
        /\ wpc[w] # "check"
        /\ wpc[w] = "commit" => wbody[w] = "report"

\* What a request read that its write depends on: runs are never deleted.
RequestsRead ==
    \A c \in Clients :
        LET r == request[c].run IN
        /\ request[c].op # "none" => r \in Runs
        /\ request[c].op = "cancel" => status[r] # "ABSENT"
        /\ request[c].op = "create" =>
             \A n \in Revisions : n < r[2] => status[<<r[1], n>>] # "ABSENT"

\* The inductive invariant of the runs: a handler that was late, repeated or
\* interrupted still finds of its run what its claim left, or loses the test
\* of its transaction (claim-stage.ts, complete-*.ts).
IInv ==
    /\ TypeOK
    /\ TasksEnqueued
    /\ LeaseCovers
    /\ LeaseExclusive
    /\ ReportKept
    /\ ReportPublished
    /\ OutputOnce
    /\ IntentsMatchRuns
    /\ RequestsRead
    /\ RevisionsContiguous
=============================================================================
