----------------------------- MODULE OutboxRelay -----------------------------
(***************************************************************************)
(* The transactional outbox and its relay: the QueueOutbox rows, the jobs  *)
(* BullMQ holds for them, and the relay loop of each worker process, which *)
(* claims a batch of rows and publishes them one by one.                   *)
(*                                                                         *)
(* A row and its job share a deterministic id, so the queue holds at most  *)
(* one job per row, and adding a job that exists, finished ones included,  *)
(* has no effect.  Producers and consumers are left to the modules that    *)
(* use this one; OutboxDelivery closes it with the least demanding ones.       *)
(***************************************************************************)
EXTENDS Naturals, FiniteSets

CONSTANTS Rows,       \* ids of outbox rows, contract:businessId:revision
          Relays,     \* relay loops, one per worker process
          Consumers,  \* holders of job locks
          BatchSize   \* rows claimed per round

ASSUME BatchSizeAssumption == BatchSize \in Nat \ {0}

JobStates == {"none", "waiting", "finished"}

ASSUME ConsumersAssumption == Consumers \cap JobStates = {}

VARIABLES
    outbox,    \* QueueOutbox.status, "NONE" for a row that does not exist
    aged,      \* claimedAt is more than 60 seconds ago
    job,       \* the job of a row: absent, waiting (or delayed), finished
               \* (completed or failed, retained), or its lock's holder
    rpc,       \* where a relay is
    rseen,     \* the rows a relay selected, with the status it saw
    rclaimed,  \* the rows it claimed and has still to publish
    rrow       \* the row it is publishing

relayVars == <<rpc, rseen, rclaimed, rrow>>
outboxVars == <<outbox, aged, job, relayVars>>

RowStates == {"NONE", "PENDING", "CLAIMED", "PUBLISHED", "FAILED"}
Due == {"PENDING", "FAILED"}
NoRow == <<>>

RelayPCs == {"release", "select", "claim", "lookup", "remove", "add", "mark", "markFailed"}

TypeOK ==
    /\ outbox \in [Rows -> RowStates]
    /\ aged \in [Rows -> BOOLEAN]
    /\ job \in [Rows -> JobStates \cup Consumers]
    /\ rpc \in [Relays -> RelayPCs]
    /\ rseen \in [Relays -> SUBSET (Rows \X Due)]
    /\ rclaimed \in [Relays -> SUBSET Rows]
    /\ rrow \in [Relays -> Rows \cup {NoRow}]

Init ==
    /\ outbox = [i \in Rows |-> "NONE"]
    /\ aged = [i \in Rows |-> FALSE]
    /\ job = [i \in Rows |-> "none"]
    /\ rpc = [p \in Relays |-> "release"]
    /\ rseen = [p \in Relays |-> {}]
    /\ rclaimed = [p \in Relays |-> {}]
    /\ rrow = [p \in Relays |-> NoRow]

-----------------------------------------------------------------------------
(* What producers do to rows. *)

\* enqueueIntent of new rows, in the transaction that needs them.  A row
\* that exists is left as it is, whatever its status.
Enqueued(new) == [i \in Rows |-> IF i \in new /\ outbox[i] = "NONE" THEN "PENDING" ELSE outbox[i]]

\* The conditional update of a recovery scan.
Rearmed(i) == IF outbox[i] = "PUBLISHED" THEN [outbox EXCEPT ![i] = "PENDING"] ELSE outbox

-----------------------------------------------------------------------------
(* One round of runOutboxRelay. *)

Goto(p, label) == rpc' = [rpc EXCEPT ![p] = label]

\* Mutant: nobody takes over the claims of a dead relay.
ReleaseAged_Never(p) ==
    /\ rpc[p] = "release"
    /\ Goto(p, "select")
    /\ UNCHANGED <<outbox, aged, job, rseen, rclaimed, rrow>>

\* Claims older than a minute return to PENDING, whoever made them.
ReleaseAged(p) ==
    /\ rpc[p] = "release"
    /\ outbox' = [i \in Rows |-> IF outbox[i] = "CLAIMED" /\ aged[i] THEN "PENDING" ELSE outbox[i]]
    /\ aged' = [i \in Rows |-> FALSE]
    /\ Goto(p, "select")
    /\ UNCHANGED <<job, rseen, rclaimed, rrow>>

\* The batch: any rows due, up to the limit.
Select(p) ==
    LET due == {i \in Rows : outbox[i] \in Due} IN
    /\ rpc[p] = "select"
    /\ \E batch \in SUBSET due :
         /\ Cardinality(batch) <= BatchSize
         /\ batch = due \/ Cardinality(batch) = BatchSize
         /\ rseen' = [rseen EXCEPT ![p] = {<<i, outbox[i]>> : i \in batch}]
         /\ Goto(p, IF batch = {} THEN "release" ELSE "claim")
    /\ UNCHANGED <<outbox, aged, job, rclaimed, rrow>>

\* One conditional update per selected row: it fails when the status has
\* changed since the selection.
ClaimRow(p) ==
    /\ rpc[p] = "claim"
    /\ \E seen \in rseen[p] :
         LET i == seen[1] IN
         /\ IF outbox[i] = seen[2]
            THEN /\ outbox' = [outbox EXCEPT ![i] = "CLAIMED"]
                 /\ aged' = [aged EXCEPT ![i] = FALSE]
                 /\ rclaimed' = [rclaimed EXCEPT ![p] = @ \cup {i}]
            ELSE UNCHANGED <<outbox, aged, rclaimed>>
         /\ rseen' = [rseen EXCEPT ![p] = @ \ {seen}]
         /\ Goto(p, IF rseen'[p] # {} THEN "claim"
                    ELSE IF rclaimed'[p] # {} THEN "lookup" ELSE "release")
    /\ UNCHANGED <<job, rrow>>

\* Mutant: any job the row already has is removed.
Lookup_RemovesAny(p) ==
    /\ rpc[p] = "lookup"
    /\ \E i \in rclaimed[p] :
         /\ rrow' = [rrow EXCEPT ![p] = i]
         /\ rclaimed' = [rclaimed EXCEPT ![p] = @ \ {i}]
         /\ Goto(p, IF job[i] # "none" THEN "remove" ELSE "add")
    /\ UNCHANGED <<outbox, aged, job, rseen>>

\* Mutant: the row is marked before its job is added.
Lookup_Marks(p) ==
    /\ rpc[p] = "lookup"
    /\ \E i \in rclaimed[p] :
         /\ rrow' = [rrow EXCEPT ![p] = i]
         /\ rclaimed' = [rclaimed EXCEPT ![p] = @ \ {i}]
         /\ Goto(p, IF job[i] = "finished" THEN "remove" ELSE "mark")
    /\ UNCHANGED <<outbox, aged, job, rseen>>

\* getJob and getState: a finished job is going to be removed.
Lookup(p) ==
    /\ rpc[p] = "lookup"
    /\ \E i \in rclaimed[p] :
         /\ rrow' = [rrow EXCEPT ![p] = i]
         /\ rclaimed' = [rclaimed EXCEPT ![p] = @ \ {i}]
         /\ Goto(p, IF job[i] = "finished" THEN "remove" ELSE "add")
    /\ UNCHANGED <<outbox, aged, job, rseen>>

\* remove() takes the job away in whatever state it is in by now, except
\* that it throws when a worker holds the job's lock.
Remove(p) ==
    LET i == rrow[p] IN
    /\ rpc[p] = "remove"
    /\ IF job[i] \in Consumers
       THEN Goto(p, "markFailed") /\ UNCHANGED job
       ELSE Goto(p, "add") /\ job' = [job EXCEPT ![i] = "none"]
    /\ UNCHANGED <<outbox, aged, rseen, rclaimed, rrow>>

\* queue.add with the row's job id.
Add(p) ==
    LET i == rrow[p] IN
    /\ rpc[p] = "add"
    /\ job' = [job EXCEPT ![i] = IF @ = "none" THEN "waiting" ELSE @]
    /\ Goto(p, "mark")
    /\ UNCHANGED <<outbox, aged, rseen, rclaimed, rrow>>

\* Redis or PostgreSQL refuses; the catch block runs.  The job may have
\* been added.
PublishThrows(p) ==
    /\ rpc[p] \in {"remove", "add", "mark"}
    /\ Goto(p, "markFailed")
    /\ UNCHANGED <<outbox, aged, job, rseen, rclaimed, rrow>>

NextRow(p) ==
    /\ rrow' = [rrow EXCEPT ![p] = NoRow]
    /\ Goto(p, IF rclaimed[p] # {} THEN "lookup" ELSE "release")

\* Both marks name the row by id alone.
MarkPublished(p) ==
    /\ rpc[p] = "mark"
    /\ outbox' = [outbox EXCEPT ![rrow[p]] = "PUBLISHED"]
    /\ NextRow(p)
    /\ UNCHANGED <<aged, job, rseen, rclaimed>>

MarkFailed(p) ==
    /\ rpc[p] = "markFailed"
    /\ outbox' = [outbox EXCEPT ![rrow[p]] = "FAILED"]
    /\ aged' = [aged EXCEPT ![rrow[p]] = FALSE]
    /\ NextRow(p)
    /\ UNCHANGED <<job, rseen, rclaimed>>

\* The round throws or its process dies; the next round starts from nothing
\* and the rows it had claimed stay CLAIMED until they are old enough.
Abort(p) ==
    /\ rpc[p] # "release"
    /\ Goto(p, "release")
    /\ rseen' = [rseen EXCEPT ![p] = {}]
    /\ rclaimed' = [rclaimed EXCEPT ![p] = {}]
    /\ rrow' = [rrow EXCEPT ![p] = NoRow]
    /\ UNCHANGED <<outbox, aged, job>>

RelayStep(p) ==
    \/ ReleaseAged(p)
    \/ Select(p)
    \/ ClaimRow(p)
    \/ Lookup(p)
    \/ Remove(p)
    \/ Add(p)
    \/ MarkPublished(p)
    \/ MarkFailed(p)

\* Sixty seconds since the claim of a row.
Age(i) ==
    /\ outbox[i] = "CLAIMED" /\ ~aged[i]
    /\ aged' = [aged EXCEPT ![i] = TRUE]
    /\ UNCHANGED <<outbox, job, relayVars>>

-----------------------------------------------------------------------------
(* BullMQ's side of a job. *)

Locked(i) == job[i] \in Consumers

Take(w, i) == job[i] = "waiting" /\ job' = [job EXCEPT ![i] = w]

\* The processor of w ended: the job is finished, or waits for a retry.  A
\* worker that has lost the lock cannot move the job.
Settle(w, i, state) == job' = [job EXCEPT ![i] = IF @ = w THEN state ELSE @]

\* A lock that is not renewed in time: the job waits again, or has stalled
\* too often and fails.  Its worker may be dead or only slow.
Stall(i) ==
    /\ Locked(i)
    /\ \E state \in {"waiting", "finished"} : job' = [job EXCEPT ![i] = state]
    /\ UNCHANGED <<outbox, aged, relayVars>>

\* Redis loses everything.
Flush ==
    /\ \E i \in Rows : job[i] # "none"
    /\ job' = [i \in Rows |-> "none"]
    /\ UNCHANGED <<outbox, aged, relayVars>>

\* Retention removes a finished job.
Forget(i) ==
    /\ job[i] = "finished"
    /\ job' = [job EXCEPT ![i] = "none"]
    /\ UNCHANGED <<outbox, aged, relayVars>>
=============================================================================
