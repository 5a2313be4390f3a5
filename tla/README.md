# vkit-orbit: a verification project

vkit-orbit is a document processing hub. Clients upload documents and ask for
processing runs; workers take each run through validation, analysis and
finalization; finished runs are announced by events, notifications and webhooks.
PostgreSQL is the only authority: every change of state is a row update in a
transaction, every job of a worker is first a row of an outbox in the same
transaction, and Redis (BullMQ) is a delivery mechanism that may lose
everything. This directory models that machinery in TLA+, checks it with TLC on
small instances, and proves every safety property of those runs with TLAPS, for any
number of documents, workers, clients, relays, endpoints, rows and requests.

Paths below are relative to `src/`; `app/` stands for
`packages/application/src/` and `worker/` for `apps/worker/src/`.

## 1. Inventory

| Component | State it keeps | Operations | Talks to |
| --- | --- | --- | --- |
| Processing runs (`app/documents/{submit,retry,cancel}-processing.ts`, `app/documents/state-machine.ts`, `app/processing/*`, `worker/handlers/document-{validate,analyze,finalize}-v1.ts`) | `ProcessingRun`: status, stageRevision, leaseExpiresAt, result; RESULT artifacts; events | submit, retry, cancel; claimStage, readContent, makeArtifact, completeValidation/Analysis/Finalization, failStage | writes outbox rows and webhook deliveries in its transactions; driven by jobs |
| Outbox and relay (`app/outbox/*`, `worker/relay/*`) | `QueueOutbox`: status, claimedAt; BullMQ's jobs | enqueueIntent, claimOutboxBatch, publish (look up, remove, add), markPublished, markFailed | a loop in each worker process, between PostgreSQL and Redis |
| Processing recovery (`app/recovery/recover-processing.ts`, `worker/handlers/document-recover-v1.ts`, `apps/scheduler`) | none | scan runs nobody leases, re-arm or make their outbox row | scheduler every minute, through BullMQ; reads runs, writes the outbox |
| Webhook deliveries (`worker/handlers/webhook-deliver-v1.ts`, `app/webhooks/*`, `app/recovery/recover-webhooks.ts`) | `WebhookDelivery`: status, attempts, nextAttemptAt, leaseExpiresAt | prepare, claim, post, record attempt, recover expired attempts, enqueue due ones | made by finalization; posts to endpoints; scheduler every thirty seconds |
| Uploads (`app/documents/{create-upload,confirm-upload,upload-source}.ts`, `app/recovery/cleanup-documents.ts`) | `Document` status, SOURCE artifact, object in MinIO | create upload, PUT by signed URL, upload through the web server, confirm, clean up | runs read the artifact of READY documents; scheduler every hour |
| Idempotent commands (`app/idempotency/execute-idempotent.ts`) | `IdempotencyRecord`, advisory lock | lock, look up, replay / refuse / run and record | wraps the POSTs of the API |
| Notifications and realtime (`worker/handlers/notification-publish-v1.ts`, `apps/api/src/routes/internal/worker-events.ts`, `apps/realtime`, `packages/realtime`, `apps/web/src/lib/realtime.ts`) | rooms of sockets; in the browser the ticket, the socket and the query cache | publish, emit to a room, sign and verify a ticket, join, refetch | POST from workers to the API, from the API to the realtime server; the browser reads everything over tRPC |
| Collection queries (`apps/api/src/collection-query`, `packages/query`) | none: a cursor carries the position and a fingerprint of its query | parse, serialize, cursors, page links; the list of documents | list endpoints |
| Worker process (`worker/main.ts`, `worker/runtime.ts`, `worker/relay/loop.ts`, `worker/shutdown.ts`), scheduler process (`apps/scheduler`) | the relay loop's timer, BullMQ workers, the stop function; job schedules in Redis | start, tick, take a job, stop in order, give up after ten seconds; install schedules | everything above runs in it |
| Authentication, API keys, permissions (`app/auth`, `app/api-keys`, `app/workspaces`, `apps/api/src/plugins/api-key.ts`, `apps/web/src/trpc/init.ts`) | `ApiKey`, `Session`, `WorkspaceMember.role` | authenticate, authorize, revoke, change a role | the gates in front of every command |
| API transport; web application; configuration; storage and database clients | - | routing, envelopes, user interface, parsing, I/O | callers of the commands above |

What is hard about it, and what makes each part correct:

* **Runs.** A handler is four or five awaited statements without a transaction
  around them. Jobs are delivered at least once, to several workers at once;
  leases end under slow workers; a worker dies between any two statements; a
  COMMIT may succeed without an acknowledgment; a user cancels at any moment;
  two requests create the next revision of one document. Correct means: a stage
  is worked on by one worker at a time within its lease; a run that completes
  has its artifact, event and deliveries exactly once and built from its own
  report; a run never lacks the outbox row of the stage it is in; statuses
  follow the table; revisions have no gap; every run ends.
* **Outbox.** A relay looks a job up, removes a finished one, adds the new one
  and marks the row, in four steps, while its claim may expire and another
  relay does the same; marks name the row by id alone. Correct means: a row that
  says PUBLISHED was run or has a job somebody can take, and every committed
  row is run at least once.
* **Recovery.** The scan acts on a status it read earlier. Correct means that it
  never makes a row a run has not reached, and that it is enough to bring back
  every run, even after Redis has lost everything.
* **Webhooks.** The attempt is outside any transaction and may outlast its
  lease; revisions of jobs and numbers of attempts must stay in step. Correct
  means: one attempt at a time within the lease, a final status stays final, the
  next attempt always has its row, every delivery ends.
* **Uploads.** Every command reads, awaits, and writes by id; cleanup does the
  same to the same rows. Correct means: READY documents have an object and a
  source artifact; uploads in progress are left alone; abandoned ones go.
* **Idempotency.** Repetitions race with the first request, with its rollback
  and with other keys that share a lock. Correct means: one effect per key, the
  right answer to the right caller, and no request blocked for ever.

* **Who may.** A key or session is looked up, then the role, then the command runs,
  and any of them may change in between. Correct means: who was barred from the
  start to the end of the look-ups gets nothing, not even a stored answer.
* **Realtime.** Events are lost, late, or arrive during a refetch that began before
  the change; tickets expire; sessions end under an open socket. Correct means: what
  is shown never rests on an answer older than the last event, it catches up in the
  end, and a socket does not outlive its session for ever.
* **Collections.** Rows come and go between two pages, sort values repeat, cursors
  are kept and used elsewhere. Correct means: a walk misses and repeats nothing that
  stayed, and a cursor or a link belongs to its query.
* **Processes.** Batches and scans have limits, some rows can never be published,
  Redis goes away and comes back empty, a signal comes in the middle of a round.
  Correct means: the backlog drains, and a shutdown ends, within its ten seconds with
  no round half done, and no job either unless something could not be closed.

`PROJECT.json` lists every hazard at its line, with the properties that cover it.

## 2. Modules

| Module | Models | Built on |
| --- | --- | --- |
| `RunLifecycle` | abstract: the statuses and the table of `state-machine.ts` | - |
| `Processing` | runs: commands, handlers, leases, crashes; any delivery of jobs | `RunLifecycle` (refined) |
| `OutboxRelay` | outbox rows, relay rounds, the states of jobs; open on both sides | - |
| `OutboxDelivery` | the outbox closed with arbitrary producers and consumers | `OutboxRelay` |
| `ProcessingSystem` | the pipeline as deployed: processing, outbox, relays, BullMQ, recovery scan | extends `Processing`, instantiates `OutboxRelay` |
| `WebhookDelivery` | deliveries, attempts, their recovery | - |
| `Uploads` | upload, signed URLs, confirmation, cleanup | - |
| `Idempotency` | the transaction around a command | - |
| `ApiCommands` | the gates in front of it: keys, sessions, roles | extends `Idempotency` |
| `WorkerProcess` | the worker process and the scheduler: order and limits of batches and scans, shutdown, outages of Redis | - |
| `CollectionQuery` | parsing, fingerprints, cursors and links, as operators | - |
| `CollectionWalk` | clients that walk collections while rows come and go | extends `CollectionQuery` |
| `Realtime` | an event's way to the browser, tickets, sockets, refetches | - |
| `ProcessingProofs`, `OutboxDeliveryProofs`, `WebhookDeliveryProofs`, `UploadsProofs`, `ApiCommandsProofs`, `RealtimeProofs`, `WorkerProcessProofs`, `CollectionWalkProofs` | theorems: section 5 | the module of that name (`ProcessingSystem` for the first), TLAPS |
| `MC*` | model values, symmetry, a starting state, the sharing of a lock | the module of that name |

### How state and actions correspond to the code

Everywhere, one step is one database statement, one transaction, one call of
Redis or of the object store. PostgreSQL runs transactions at READ COMMITTED, so
a transaction that reads and then writes is two steps; what it writes is one.
Times are flags ("the lease still runs", "the claim is old", "the artifact is a
day old") which an action of their own changes at any moment, so every order of
a deadline and a statement is explored. `map` in `PROJECT.json` gives the source
lines of every definition.

**Processing.** A run is named by its unique key (document, revision). `status`,
`leased` and `report` are columns of its row, `intents` the outbox rows that
exist, `artifacts`, `events` and `deliveries` what its finalization wrote.
`wpc` is where a worker's handler is: `claim` (claimStage), `work` (readContent,
makeArtifact), `check` (the read before the transaction), `commit` (that
transaction), `fail` (failStage in the catch block), and how its promise settled.
`ClaimStage`, `CompleteStage`, `CompleteFinalization` and `FailStage` are the
four statements that change a run; `HandlerThrows` is any exception of the try
block, `Crash` the death of the process, `ExpireLease` sixty seconds. With
`LostAcks` a committed transaction may still throw in the handler. `SubmitRead`,
`RetryRead` and `CancelRead` are the reads of the commands, `CreateRun` and
`CancelWrite` their writes; a taken revision is refused by the unique key.
`StartJob` delivers any row's job, to any idle worker, as often as it likes:
weaker than the real queue, which `ProcessingSystem` puts in its place.
`stageRevision` is 1 for ever in the code and is left out.

**OutboxRelay.** `outbox` and `aged` are columns of `QueueOutbox`; `job` is the
state BullMQ keeps under the row's deterministic id. A relay's round is
`ReleaseAged`, `Select`, `ClaimRow` per row, then `Lookup`, `Remove`, `Add`,
`MarkPublished` or `MarkFailed` for each claimed row; `PublishThrows` is the
catch block, `Abort` the end of the round by an exception or a dead process.
BullMQ is external: a worker takes a waiting job and holds its lock, `remove`
refuses a locked job, `add` ignores an id that exists, a lock that is lost makes
the job wait again or fail, retention forgets finished jobs, `Flush` loses all.

**ProcessingSystem.** Each transaction of `Processing` that adds intents also adds
their rows (`Produce`), `Deliver` takes a waiting job, `End` settles it,
`ScanRead` and `ScanWrite` are `recoverProcessing`. For each run the scan updates the
row and then calls enqueueIntent; `ScanWrite` takes both as one step, since the row
is there (section 4) and the second is a read. `scheduled` says that Redis
has the schedule that runs it; `StartScheduler` installs it again. Worker, relay, Redis and scan
faults each happen at most `MaxFaults` times in all, at any moment.

**WebhookDelivery.** `status`, `attempts`, `due` (nextAttemptAt) and `leased` are
columns, `rows` the outbox rows by revision. `Claim`, `Deliver`, `Record` are the
handler: an attempt ends in one of `SendAnswers`, which
`classifyWebhookResponse` and `OutcomeOf` turn into what is recorded. `Recover`,
`ScanRead`, `ScanWrite` are the scan. `fresh` and `stale` are
history variables: whether a worker's own lease still runs, and whether an
attempt was recorded after it.

**Uploads.** A request between its read and its write is the record `request`; a
cleanup job holds the selection it still has to delete in `scan`. `url` is a signed
URL in force: it expires, and repeating the upload request signs a new one at any
time, also for a document that is READY or cleaned up.

**Idempotency.** A request's transaction waits for the lock of its key, reads the
record, and replays, refuses, or acts and commits; its writes appear when it
commits. Commit may come without an answer. Keys may share a lock.

**ApiCommands.** A request comes through the door of the API (`Authenticate` finds
the key, `Authorize` the role, `Granted` narrows the key's scopes to it) or of the
web server (session, role, permission), one look-up per step, and then becomes a
request of `Idempotency`; both doors act for the same principal and share its
records. `EndCredential` and `ChangeMembership` happen at any moment. `barred` is a
history variable: what has kept a request out ever since it came.

**WorkerProcess.** A row stands for its run, numbered by age. `Tick` is
claimOutboxBatch (the oldest due rows, failed ones included), `PublishRow` one row
of the round; `Poison` rows fail every time. `Scan` re-arms the newest stuck runs.
`Signal` to `Exit` are `createShutdown` and the stop function of `main.ts`: `StopStep`
is its progress, `StopFails` the rejection of one of its promises, after which the
finally block disconnects at once, whatever jobs the other workers still run. `Gone`
is the death of the process, `RedisFault` an outage with or without loss of data.
Here a run has one stage, and one process runs: races are `ProcessingSystem`'s part.

**CollectionQuery, CollectionWalk.** Parameters are functions from keys to raw
values; `Parse` is `defineCollection.parse`, with its order of checks left out
where only the rejection shows; a fingerprint is the record of what is hashed.
`ParseSort` accepts what is `in` the object of declared sorts, and so the names every
object inherits (`Inherited`); `ValueOf` is what a handler would sort such rows by.
`Pages` is the handler the API's documentation asks for: the rows after or before
a position in the query's order, in any order where the sort leaves ties, since
PostgreSQL promises none. The repository has no such handler yet, so it is marked
external, like `PageOf`, which makes of its rows what `createCollectionResponse`
takes. A handler may also fail (500). `DocumentPages` is `listDocuments`, which the
repository has.

**Realtime.** `version` counts the changes of the data. `batch` and `solo` are
fetches, each on its way to the server or back with the version it read; a later
invalidation makes the answer of an earlier one unwanted. `Publish` is one attempt
of the notification job, `Hear` the arrival of its event, `Connect` the handshake
and the refetch that follows it, `ReceiveBatch` the arrival of a new ticket, which
disposes of the socket and opens another.

## 3. Runs

| Run | Instance | Shows |
| --- | --- | --- |
| `processing_stages` | one run, three workers, a client, an endpoint of each kind, lost acknowledgments | leases exclude, output appears exactly once, outbox and run agree |
| `processing_revisions` | two revisions, two clients, a worker | no gap in revisions; the status changes are those of the table, but for overwriting cancellations (`RunLifecycle!SpecAsBuilt`) |
| `outbox_delivery` | two rows, two relays that each take both, a fault, a re-arm | published rows are run or can be; every committed row is run |
| `system_safety` | a run, a worker, a client, a relay, a fault of a relay or of a scan | the assembled pipeline implements `Processing` |
| `system_liveness` | a submitted run, a worker, a relay, one worker or Redis fault | every run ends |
| `webhook_delivery` | a delivery of three attempts, two workers, two crashes | one attempt at a time, final is final, retries are enqueued, every delivery ends |
| `uploads` | two documents, two requests, two cleanups | READY documents are stored, young artifacts kept, abandoned uploads lose their artifact |
| `idempotency` | `ApiCommands`: two keys with one lock, two principals, two clients, three requests, two changes of keys, sessions or roles | the barred get nothing; one outcome per key, nobody fails for being second, every request that began ends |
| `collection` | three orders, two with the same total, eleven openings, four changes of a query, three changes of the table; three documents | walks miss and repeat nothing that stayed, links keep the query, cursors are refused beside another query, the list of documents is complete |
| `realtime` | two changes, two attempts per notification, two interruptions | no event is lost to a refetch in flight, the view catches up, an ended session closes its socket |
| `worker` | three rows, one of which cannot be published, batches and scans of two, two faults, a stop that may fail | shutdown ends, leaves no round half done, and no job unless stop failed; the backlog drains |

Each component's run also checks the invariant its proofs use (`IInv`,
`AccessIInv`, `SystemIInv`), of which the type invariant is the first conjunct.

One further run, `processing_cancel_terminal`, ends in a counterexample, on
purpose: section 6.

**Why the bounds are enough.** Runs interact only through the revisions of their
document, so stages are checked on one run and revisions on two. Three workers
are a holder of the lease, one whose lease has run out, and one that competes
for the claim. A webhook attempt has two workers, one slower than its lease and
one that takes over, so that there is room for three attempts. Two relays are
one whose claim has expired and one that took it over; two rows let a batch be
left half done. A batch of both rows keeps the order of rows out of the run:
what a limit below the number of rows due does to them is `WorkerProcess`'s part.
Three attempts are a first, a middle and a last one. Two clients and three requests are a running request and its
repetition, or one that conflicts, and one that comes after both; a key for
everything and one for reading alone, and a role that is taken away and given back,
are the cases of the gates. In `collection`, equal totals need the tie breaker, and
one row per page lets a row come or go on either side of every cursor; the two
clients share only the bound on changes, so the constraint `OneClient`, which lets
one of them act at a time, with nothing of the other's there, loses nothing. In
`realtime`, two changes are one before and one during a refetch. In `worker`, a row
that always fails is older than one
that does not, and leaves one place of a batch; two faults are an outage during a
shutdown. A fault can happen at any step, and what recovers from
it does not depend on how many came before, so one or two per behavior meet
every situation that a fault leaves behind. `system_safety` takes relay and scan
faults only: a crash or an exception of a worker is a step of `Processing`
already and the faults of Redis leave all its variables alone; `Processing` is
checked and proved with any number of them. `system_liveness` starts from a run
that was just submitted; the requests that lead there, and cancellation, which
ends a run, are left out. Symmetry is used for safety only.

Deadlock is checked in all runs but `idempotency`, whose clients stop when the
bound on requests is reached, and `realtime`, which comes to rest once everything
is shown and the session has ended.

**Fairness.** A handler's next step, a relay's loop and a scan go on as long as
their process lives (weak fairness on each actor as a whole, never on an outcome):
the loop re-arms its timer after every round, the scheduler repeats scans for
ever. Deadlines pass (weak fairness of the expiry actions). BullMQ hands out a
waiting job in the end: strong fairness, because a job may be taken away by a
removal and come back, and its worker be busy, any number of times; jobs of one
queue are served first come first served. `Uploads` needs strong fairness of the
deletion: a cleanup may be killed, but not every hour for ever in the same place.
`Idempotency` needs it for the lock: PostgreSQL grants advisory locks in the order
of the requests. `WorkerProcess` and `Realtime` need weak fairness only: timers
fire, promises settle, waiting jobs are given out in turn, requests are answered.
Two of its assumptions are about operators and not about the code: somebody starts
a process that is gone, and somebody restarts the scheduler after Redis has lost
its schedules (also in `system_liveness`), because only its start installs them.
That Redis comes back is no assumption of the specification: `BacklogDrains` says
it. No fairness is put on faults (a stop that fails among them), requests, answers
or cancellations.

## 4. Refinement

* `Processing` implements `RunLifecycle!SpecAsBuilt` (`FollowsTableAsBuilt`):
  every status change is one of `transitions`, or a cancellation that overwrites.
  It does not implement `RunLifecycle!Spec`: section 6.
* `ProcessingSystem` implements `Processing` (`ImplementsProcessing`): relays,
  queue and scans are stuttering, a delivery is `StartJob`, and a scan's
  enqueueIntent always finds its row. So every invariant of `Processing` holds of
  the pipeline as deployed.
* `ApiCommands` implements `Idempotency`: gates only keep requests out.

All three are proved (`RefinesLifecycle`, `PipelineImplementsProcessing`,
`AccessImplementsCommand`); the first two are also checked by runs.

## 5. Proofs

Every safety invariant and every action property of the runs is a theorem. Each
module of proofs has the theorem `Invariance` (`SystemInvariance`,
`AccessInvariance`) that the inductive invariant holds, one that the type invariant
does, and:

| Module | Theorem | States, of every behavior |
| --- | --- | --- |
| `ProcessingProofs` | `LeaseExcludes`, `PublishedOnce`, `OutboxMatches`, `RevisionsHaveNoGap` | `LeaseExclusive`, `OutputOnce`, `IntentsMatchRuns`, `RevisionsContiguous` |
| | `RefinesLifecycle` | `FollowsTableAsBuilt` |
| | `PipelineImplementsProcessing`, `PipelineIsSafe`, `PipelineRefinesLifecycle` | `ImplementsProcessing`, and hence all of the above of the pipeline as deployed |
| `OutboxDeliveryProofs` | `PublishedDelivered` | `PublishedIsDelivered` |
| `WebhookDeliveryProofs` | `JobsNotAhead`, `RetryIsEnqueued`, `OneAttemptAtATime`, `EndedStays` | `RowsNotAhead`, `RetryEnqueued`, `OneAttempt`, `EndedIsFinalInLease` |
| `UploadsProofs` | `ReadyStored`, `YoungSourcesStay` | `ReadyIsStored`, `YoungSourceKept` |
| `ApiCommandsProofs` | `OutcomeIsOne`, `InsertSucceeds`, `BarredStayOut` | `OneOutcome`, `NeverTooLate`, `BarredIsRefused` |
| | `CommandInvariance`, `AccessImplementsCommand` | `IInv` of `Idempotency` alone, and that `ApiCommands` implements it |
| `RealtimeProofs` | `NothingLost` | `NoLostInvalidation` |
| `WorkerProcessProofs` | `StoppedIsQuiet` | `QuietAfterStop` |
| `CollectionWalkProofs` | `WalkComplete`, `LinksKept`, `ListingComplete`, `CursorsBound` | `WalkMissesNothing`, `LinksKeepTheQuery`, `ListingMissesNothing`, `CursorsKeepTheirQuery` |

**Assumptions**, all of them named in the module that declares the constant:
bounds are natural numbers (`MaxRevision`, `BatchSize`, `ScanLimit`, `AttemptLimit`
and `MaxAttempts` at least 1); `LostAcks` is a Boolean; workers and consumers are
none of the names of the other states of a job, and no client is called "free",
so that who holds a job or a lock can be read off it; `LockOf` maps keys to locks,
two keys to one or not; the rows of `WorkerProcess` are a finite set of numbers,
ordered by age. Those of the collections are what the code's types and
`assertCollectionConfig` demand: the configuration is one `defineCollection`
accepts, sorts and requests have sequences of tokens under `sort`, no filter is of
both kinds, values are ordered like numbers, and the tie breaker (an id), a declared sort,
differs from row to row. Nothing is assumed of the inherited names but that they are
strings. A client that opens a collection has no cursor of it yet, and a
fingerprint is injective: SHA-256 without collisions. Nothing is assumed of the
sets of documents, workers, clients, relays, deliveries, endpoints, keys or fields.

**The arguments**, and why the properties are not inductive alone:

* `LeaseExclusive` needs `LeaseCovers`: a worker inside its lease has its run
  still in its stage and leased, or the run has left that stage for good. A second
  claim needs the run in the stage and not leased, so it cannot succeed; and no
  statement ever brings a run back to a stage it left.
* `OutputOnce` needs `ReportKept` (a run to be finalized has its report) and
  `ReportPublished` (what a finalization is about to publish was made from it):
  otherwise a worker could come out of nowhere with an object made from an empty
  result. Exactly once then follows because the transaction tests the status it
  leaves.
* `RevisionsContiguous` needs `RequestsRead`: a request about to create revision n
  saw all the earlier ones, and runs are never deleted. That a count names the last
  revision is a fact about cardinalities (`CountIsLast`): contiguous revisions
  1..k of a document are k runs.
* `IntentsMatchRuns` and `TasksEnqueued` carry that a job at hand names a row, and
  hence a run that exists. `RefinesLifecycle` follows from the invariant by
  `LifecycleStep`: each action is a `Move`, an `Overwrite` or a stutter.
* `ImplementsProcessing`: the steps of relays, Redis and scans leave `Processing`
  alone if what they hold are rows that exist. `RelaysHoldRows`, `JobsHaveRows` and
  `ScanFindsRows` say so, and `RowsAreIntents` that the two modules mean the same
  rows. A scan re-arms what it read earlier: what a run once had, it keeps.
* `PublishedIsDelivered` needs `RelayKnows`, about a relay that has looked but not
  yet written: what it removes was run, and what it marks was run or waits. Only a
  finished job is removed, so another relay's removal cannot undo that
  (`JobsRan`). A loss of Redis can, and is `ProcessingSystem`'s part: there a
  published row's job may be gone, and the recovery scan brings it back.
* `OneAttempt` needs `LeaseCovers` of deliveries: a worker inside its lease has the
  delivery in PROCESSING and leased, and its attempt is the next. `RetryEnqueued`
  needs `RowKept`: the recovery of an expired attempt makes no row, so the one of that
  attempt must still be there while it runs. Both exclude deliveries for which an
  attempt was recorded late, for the reason section 6 gives.
* `ReadyIsStored` and `YoungSourceKept` need `StaleReadsHold`: of all that requests
  and cleanups read before they wait, their writes rest on what never changes back.
* `OneOutcome` and `NeverTooLate` need `LockHeld`, then `ReadIsCurrent`: as long as a
  transaction holds its key's lock, the record it read is still the record. That no
  key takes effect twice is `EffectsRecorded`. `BarredIsRefused` needs `BarredAtGate`:
  a request that has been barred ever since it came has a gate ahead that refuses it.
* `NoLostInvalidation` needs `FetchesHold`: the two kinds of fetches never both have
  an answer that will be used, and no answer to be used is older than what is shown.
* `QuietAfterStop` needs `StopOrder`, where the loop, the workers and the process
  can be, given the step of the stop function: the loop is idle once the workers are
  told to close, whether that ends or fails, and only a stop that ended waited for
  every job. Without its exception for a failed stop the property is false. That a
  round has at most `BatchSize` rows is a fact about ranks (`OldestBounded`): the n
  least rows are n at most.
* `WalkMissesNothing` needs `WalkKnown` (a walk's last row is that of its page, and
  what stayed still matches) and `PageKnown` (a page has a query of `Parse`). With it
  the order of a sort is transitive (`PrecedesTransitive`) and, thanks to the tie
  breaker, total (`PrecedesTotal`, by the least field that differs); so the rows past
  a page's last are all rows of the walk that are still to come. `LinksKeepTheQuery`
  is `RoundTrip`: `Parse(Serialize(q)) = q` for every query `Parse` can yield
  (`QueryOK`), key by key, filters included.
* `ListingMissesNothing` needs `ListKnown`: what is still owed comes after the last
  id listed, and new ids are no obstacle wherever they come.

**Only model-checked**: the liveness properties (`AtLeastOnce`, `RunsEnd`,
`DeliveriesEnd`, `AbandonedIsCleaned`, `RequestsEnd`, `ViewCatchesUp`,
`SignedOutIsCutOff`, `ShutdownEnds`, `BacklogDrains`), which rest on fairness and
hence on ENABLED, beyond the prover.

## 6. Where the code and its documents disagree

The run `processing_cancel_terminal` shows one: a cancellation reads an active
status, then updates by id (`app/documents/cancel-processing.ts:8`): a run that
COMPLETED or FAILED in between becomes CANCELED, though `state-machine.ts:11-13`
gives these statuses no transition. What the code keeps is `FollowsTableAsBuilt`.

Others were met while modelling. The properties named here are defined in their
modules, no run checks them, and TLC refutes each when it is added to the cfg of
`processing_stages`, `webhook_delivery`, `uploads`, `collection` or `realtime`:

| Property | What happens |
| --- | --- |
| `OnlyOwnStageFails` | A worker whose lease ran out in a completed stage throws, and `app/processing/fail-stage.ts:4` fails the run in the later stage another worker is in; the design document calls completed stages safe no-ops. `LeaseExclusive` is what holds. |
| `EndedIsFinal` | `app/webhooks/record-attempt.ts:12` records by id: an attempt slower than its lease puts a SUCCEEDED delivery back to PENDING, and it is posted again. `EndedIsFinalInLease` is what holds. |
| `ReadyHasSource` | `app/recovery/cleanup-documents.ts:16` deletes by id what it selected earlier: a document confirmed in between is READY without its source artifact. `ReadyIsStored` is what holds. |
| `LinksAreUsable` | On a page reached by `after`, the link to the previous page carries `after` and `before` (`apps/api/src/collection-query/response.ts:88-99`), which `definition.ts:97-99` rejects with 422; the collection design document says that in links "only the cursor changes". `LinksKeepTheQuery` is what holds. |
| `SortsAreDeclared` | `definition.ts:252` asks whether a field is `in` the object of declared sorts: names it inherits, like `toString`, are; the collection design document answers 422 to unknown sort fields. That no field is repeated and the tie breaker is among them (`SortOK`) holds all the same. |
| `ReconnectCatchesUp` | After an interruption longer than the five minutes of a ticket the handshake is refused, and socket.io does not try again: the browser hears nothing until a refetch for another reason brings a new ticket; the design document promises correct state after a reconnect. `ViewCatchesUp` is what holds. |

A shutdown whose stop function fails is no disagreement: a test of the repository
(`apps/worker/src/shutdown.test.ts`) asks for the database to be disconnected then.
`QuietAfterStop` says what may still run at that moment.

Two more are not properties of a model: after Redis has lost its data no schedule
runs until the scheduler process is started again (`apps/scheduler/src/schedules.ts`),
though the design document asks that the loss be recoverable from PostgreSQL; and
every "connect" refetches the ticket, whose new value makes the bridge close the
socket and open another, which connects, and so on.

## 7. Not modelled

* The content of objects: a source that is stored again by a signed URL, or by an
  upload that read its document's status before the confirmation
  (`app/documents/upload-source.ts:24-34`), replaces the one that was confirmed.
* The content of reports, artifacts, audit entries, events and notifications;
  signatures and encryption, of which only "decrypts or not" matters to a run.
* The addresses a webhook may go to, and the bytes of its exchange: an attempt ends
  in one answer of each class.
* Several worker processes at once with the limits of their batches: races are
  explored in `ProcessingSystem` without limits, limits in `WorkerProcess` with one
  process. More rows that always fail than a batch has places stop the outbox for
  good; `BacklogDrains` is about fewer.
* In `Realtime`, fetches that fail for another reason than a refused session, and
  the runtime configuration, which is fetched once more with each refetch.
* Registration, passwords, cookies; a registration that fails half way leaves an
  account that can neither register again nor sign in (`auth-commands.ts:3-14`).
* Routing, schemas, envelopes and API documentation, the user interface and its
  components, generated routes, recipes and scripts: they keep no state the commands
  depend on, and make up most of the repository's lines.
* Configuration, which a process reads once when it starts; the storage and database
  clients, which are I/O.

## 8. Plan

Done, in this order: `RunLifecycle`, `Processing`, its proofs, `OutboxRelay` with
`OutboxDelivery`, `ProcessingSystem`, `WebhookDelivery`, `Uploads`, `Idempotency`;
then `CollectionQuery` with `CollectionWalk`, `Realtime`, `WorkerProcess`,
`ApiCommands`, the answers of a webhook and the life of signed URLs; then the
theorems of all of them, with the inductive invariants the runs now check.

Next:

1. The safety half of the liveness arguments: what a recovery scan needs to find in
   every state in which a run is stuck.
2. Of the steps of the transaction, what commits when its answer is lost: an abstract
   specification of a command with a key that `Idempotency` implements.
