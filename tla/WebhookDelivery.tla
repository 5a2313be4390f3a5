-------------------------- MODULE WebhookDelivery --------------------------
(***************************************************************************)
(* Webhook deliveries: the WebhookDelivery rows, the worker handler that   *)
(* makes one attempt per job and records it, and the scan that recovers    *)
(* attempts whose worker went away.  PostgreSQL, not BullMQ, owns the      *)
(* retries: the record of a failed attempt comes with the intent of the    *)
(* next one, whose revision is the number of attempts plus one.            *)
(*                                                                         *)
(* As in Processing, one step is one statement or one transaction, and a   *)
(* job may be delivered as soon as its outbox row exists, any number of    *)
(* times.  What a receiver answers is arbitrary; an endpoint that is       *)
(* inactive or not allowed is an answer of its own, a terminal one.        *)
(***************************************************************************)
EXTENDS Naturals

CONSTANTS Deliveries,    \* (endpoint, event) pairs, unique in the table
          Workers,       \* worker slots of the webhooks queue
          AttemptLimit,  \* 8 in the code: the last attempt is not retried
          MaxFaults      \* bound: crashes and exceptions

ASSUME AttemptLimitAssumption == AttemptLimit \in Nat \ {0}
ASSUME MaxFaultsAssumption == MaxFaults \in Nat

Statuses == {"ABSENT", "PENDING", "PROCESSING", "SUCCEEDED", "FAILED"}
Ended == {"SUCCEEDED", "FAILED"}
Outcomes == {"SUCCESS", "RETRYABLE", "TERMINAL"}

Jobs == Deliveries \X (Nat \ {0})
NoJob == <<>>

VARIABLES
    status,    \* WebhookDelivery.status
    attempts,  \* WebhookDelivery.attempts
    due,       \* nextAttemptAt has passed
    leased,    \* leaseExpiresAt is set and in the future
    rows,      \* the outbox rows, each a delivery and a revision
    wpc,       \* where a worker's handler is
    wjob,      \* the job it runs
    wanswer,   \* the outcome it is going to record
    scan,      \* what a recovery scan has still to enqueue
    fresh,     \* history variable: the lease of a worker's claim still runs
    stale,     \* history variable: an attempt of the delivery was recorded
               \* after the lease of its claim had run out
    faults

deliveryVars == <<status, attempts, due, leased>>
workerVars == <<wpc, wjob, wanswer, fresh>>
vars == <<deliveryVars, rows, workerVars, scan, stale, faults>>

TypeOK ==
    /\ status \in [Deliveries -> Statuses]
    /\ attempts \in [Deliveries -> Nat]
    /\ due \in [Deliveries -> BOOLEAN]
    /\ leased \in [Deliveries -> BOOLEAN]
    /\ rows \in SUBSET Jobs
    /\ wpc \in [Workers -> {"idle", "claim", "deliver", "record"}]
    /\ wjob \in [Workers -> Jobs \cup {NoJob}]
    /\ wanswer \in [Workers -> Outcomes \cup {"none"}]
    /\ scan \in SUBSET Jobs
    /\ fresh \in [Workers -> BOOLEAN]
    /\ stale \in [Deliveries -> BOOLEAN]
    /\ faults \in 0..MaxFaults

Init ==
    /\ status = [d \in Deliveries |-> "ABSENT"]
    /\ attempts = [d \in Deliveries |-> 0]
    /\ due = [d \in Deliveries |-> TRUE]
    /\ leased = [d \in Deliveries |-> FALSE]
    /\ rows = {}
    /\ wpc = [w \in Workers |-> "idle"]
    /\ wjob = [w \in Workers |-> NoJob]
    /\ wanswer = [w \in Workers |-> "none"]
    /\ scan = {}
    /\ fresh = [w \in Workers |-> FALSE]
    /\ stale = [d \in Deliveries |-> FALSE]
    /\ faults = 0

-----------------------------------------------------------------------------
\* prepareDelivery and its first intent, in the transaction that completes
\* the run.
Prepare(d) ==
    /\ status[d] = "ABSENT"
    /\ status' = [status EXCEPT ![d] = "PENDING"]
    /\ rows' = rows \cup {<<d, 1>>}
    /\ UNCHANGED <<attempts, due, leased, workerVars, scan, stale, faults>>

BecomeDue(d) ==
    /\ ~due[d]
    /\ due' = [due EXCEPT ![d] = TRUE]
    /\ UNCHANGED <<status, attempts, leased, rows, workerVars, scan, stale, faults>>

\* Thirty seconds since the claim.
ExpireLease(d) ==
    /\ leased[d]
    /\ leased' = [leased EXCEPT ![d] = FALSE]
    /\ fresh' = [w \in Workers |-> fresh[w] /\ wjob[w][1] # d]
    /\ UNCHANGED <<status, attempts, due, rows, wpc, wjob, wanswer, scan, stale, faults>>

-----------------------------------------------------------------------------
(* The handler of webhook.deliver.v1. *)

Goto(w, label) == wpc' = [wpc EXCEPT ![w] = label]

DeliveryOf(w) == wjob[w][1]
RevisionOf(w) == wjob[w][2]

StartJob(w, j) ==
    /\ wpc[w] = "idle"
    /\ j \in rows
    /\ wjob' = [wjob EXCEPT ![w] = j]
    /\ Goto(w, "claim")
    /\ UNCHANGED <<deliveryVars, rows, wanswer, fresh, scan, stale, faults>>

\* Mutant: the status is not tested.
Claimable_AnyStatus(d, revision) == attempts[d] = revision - 1 /\ due[d]

Claimable(d, revision) == status[d] = "PENDING" /\ attempts[d] = revision - 1 /\ due[d]

\* One conditional update.
Claim(w) ==
    LET d == DeliveryOf(w) IN
    /\ wpc[w] = "claim"
    /\ Claimable(d, RevisionOf(w))
    /\ status' = [status EXCEPT ![d] = "PROCESSING"]
    /\ leased' = [leased EXCEPT ![d] = TRUE]
    /\ fresh' = [fresh EXCEPT ![w] = TRUE]
    /\ Goto(w, "deliver")
    /\ UNCHANGED <<attempts, due, rows, wjob, wanswer, scan, stale, faults>>

\* The processor's promise settles, or its process is gone.
Release(w) ==
    /\ Goto(w, "idle")
    /\ wjob' = [wjob EXCEPT ![w] = NoJob]
    /\ wanswer' = [wanswer EXCEPT ![w] = "none"]
    /\ fresh' = [fresh EXCEPT ![w] = FALSE]

ClaimRefused(w) ==
    /\ wpc[w] = "claim"
    /\ ~Claimable(DeliveryOf(w), RevisionOf(w))
    /\ Release(w)
    /\ UNCHANGED <<deliveryVars, rows, scan, stale, faults>>

\* validateWebhookUrl refuses an address, or the name does not resolve.
Network == 0
UrlRefused == {400, Network}

\* What requestWebhook resolves to: an answer of the receiver (one of each
\* class), 413 for a body too large on either side, 408 after five seconds,
\* 503 for an error of the connection.
RequestAnswers == {200, 302, 404, 429, 500} \cup {413, 408, 503}

\* sendStoredWebhook: 410 for an endpoint that is not active.
SendAnswers == {410} \cup UrlRefused \cup RequestAnswers

classifyWebhookResponse(answer) ==
    CASE answer \in {Network, 408, 429} \/ answer >= 500 -> "RETRYABLE"
      [] answer \in 200..299 -> "SUCCESS"
      [] answer \in 400..499 \ {408, 429} -> "TERMINAL"
      [] OTHER -> "UNKNOWN"

\* The last attempt is not retried, and an UNKNOWN answer is.
OutcomeOf(revision, answer) ==
    LET classified == classifyWebhookResponse(answer) IN
    CASE revision >= AttemptLimit /\ classified # "SUCCESS" -> "TERMINAL"
      [] revision < AttemptLimit /\ classified = "UNKNOWN" -> "RETRYABLE"
      [] OTHER -> classified

\* The request and its answer, an exception being a failure of the network.
Deliver(w) ==
    /\ wpc[w] = "deliver"
    /\ \E answer \in SendAnswers :
         wanswer' = [wanswer EXCEPT ![w] = OutcomeOf(RevisionOf(w), answer)]
    /\ Goto(w, "record")
    /\ UNCHANGED <<deliveryVars, rows, wjob, fresh, scan, stale, faults>>

StatusAfter == [SUCCESS |-> "SUCCEEDED", TERMINAL |-> "FAILED", RETRYABLE |-> "PENDING"]

\* Mutant: the retry is left to the recovery scan.
Record_NoIntent(w) ==
    LET d == DeliveryOf(w)  retry == wanswer[w] = "RETRYABLE" IN
    /\ wpc[w] = "record"
    /\ status' = [status EXCEPT ![d] = StatusAfter[wanswer[w]]]
    /\ attempts' = [attempts EXCEPT ![d] = @ + 1]
    /\ leased' = [leased EXCEPT ![d] = FALSE]
    /\ due' = [due EXCEPT ![d] = @ /\ ~retry]
    /\ stale' = [stale EXCEPT ![d] = @ \/ ~fresh[w]]
    /\ Release(w)
    /\ UNCHANGED <<rows, scan, faults>>

\* Mutant: an attempt that is retried is not counted.
Record_Uncounted(w) ==
    LET d == DeliveryOf(w)  retry == wanswer[w] = "RETRYABLE" IN
    /\ wpc[w] = "record"
    /\ status' = [status EXCEPT ![d] = StatusAfter[wanswer[w]]]
    /\ attempts' = [attempts EXCEPT ![d] = IF retry THEN @ ELSE @ + 1]
    /\ leased' = [leased EXCEPT ![d] = FALSE]
    /\ due' = [due EXCEPT ![d] = @ /\ ~retry]
    /\ rows' = IF retry THEN rows \cup {<<d, RevisionOf(w) + 1>>} ELSE rows
    /\ stale' = [stale EXCEPT ![d] = @ \/ ~fresh[w]]
    /\ Release(w)
    /\ UNCHANGED <<scan, faults>>

\* recordWebhookAttempt names the delivery by id alone.  The retry is
\* enqueued in the same transaction, under the revision of the job plus one.
Record(w) ==
    LET d == DeliveryOf(w)  retry == wanswer[w] = "RETRYABLE" IN
    /\ wpc[w] = "record"
    /\ status' = [status EXCEPT ![d] = StatusAfter[wanswer[w]]]
    /\ attempts' = [attempts EXCEPT ![d] = @ + 1]
    /\ leased' = [leased EXCEPT ![d] = FALSE]
    /\ due' = [due EXCEPT ![d] = @ /\ ~retry]
    /\ rows' = IF retry THEN rows \cup {<<d, RevisionOf(w) + 1>>} ELSE rows
    /\ stale' = [stale EXCEPT ![d] = @ \/ ~fresh[w]]
    /\ Release(w)
    /\ UNCHANGED <<scan, faults>>

\* An exception ends the job as a crash does: whatever BullMQ repeats of it
\* is one more delivery.
Crash(w) ==
    /\ wpc[w] # "idle"
    /\ faults < MaxFaults
    /\ faults' = faults + 1
    /\ Release(w)
    /\ UNCHANGED <<deliveryVars, rows, scan, stale>>

-----------------------------------------------------------------------------
(* recoverWebhooks, every thirty seconds. *)

\* Mutant: the lease is not tested.
Expired_Any == {d \in Deliveries : status[d] = "PROCESSING"}

Expired == {d \in Deliveries : status[d] = "PROCESSING" /\ ~leased[d]}

\* Mutant: the attempt whose lease has run out is counted.
Recover_Counts ==
    /\ Expired # {}
    /\ status' = [d \in Deliveries |-> IF d \in Expired THEN "PENDING" ELSE status[d]]
    /\ attempts' = [d \in Deliveries |-> IF d \in Expired THEN attempts[d] + 1 ELSE attempts[d]]
    /\ UNCHANGED <<leased, due, rows, workerVars, scan, stale, faults>>

\* Its first statement: attempts whose lease has run out are pending again.
Recover ==
    /\ Expired # {}
    /\ status' = [d \in Deliveries |-> IF d \in Expired THEN "PENDING" ELSE status[d]]
    /\ leased' = [d \in Deliveries |-> leased[d] /\ d \notin Expired]
    /\ UNCHANGED <<attempts, due, rows, workerVars, scan, stale, faults>>

\* Mutant: the revision of the attempt that was made.
ScanRead_LastRevision ==
    LET found == {<<d, IF attempts[d] = 0 THEN 1 ELSE attempts[d]>> :
                    d \in {e \in Deliveries : status[e] = "PENDING" /\ due[e]}} IN
    /\ scan = {} /\ found # {}
    /\ scan' = found
    /\ UNCHANGED <<deliveryVars, rows, workerVars, stale, faults>>

\* Its second: what is due.
ScanRead ==
    LET found == {<<d, attempts[d] + 1>> :
                    d \in {e \in Deliveries : status[e] = "PENDING" /\ due[e]}} IN
    /\ scan = {} /\ found # {}
    /\ scan' = found
    /\ UNCHANGED <<deliveryVars, rows, workerVars, stale, faults>>

\* Then one row after the other, re-armed or made.
ScanWrite ==
    /\ \E j \in scan : rows' = rows \cup {j} /\ scan' = scan \ {j}
    /\ UNCHANGED <<deliveryVars, workerVars, stale, faults>>

-----------------------------------------------------------------------------
Handle(w) == Claim(w) \/ ClaimRefused(w) \/ Deliver(w) \/ Record(w)

Next ==
    \/ \E d \in Deliveries : Prepare(d) \/ BecomeDue(d) \/ ExpireLease(d)
    \/ \E w \in Workers : Handle(w) \/ Crash(w) \/ \E j \in rows : StartJob(w, j)
    \/ Recover
    \/ ScanRead
    \/ ScanWrite

Spec == Init /\ [][Next]_vars

Waiting(d) == <<d, attempts[d] + 1>> \in rows

\* Handlers and the scan go on, time passes, and the job of a delivery's
\* next attempt reaches a worker again and again: its row is re-armed until
\* the attempt is made.
Fairness ==
    /\ \A w \in Workers : WF_vars(Handle(w))
    /\ \A d \in Deliveries : WF_vars(BecomeDue(d)) /\ WF_vars(ExpireLease(d))
    /\ \A d \in Deliveries :
         SF_vars(Waiting(d) /\ \E w \in Workers : StartJob(w, <<d, attempts[d] + 1>>))
    /\ WF_vars(Recover) /\ WF_vars(ScanRead) /\ WF_vars(ScanWrite)

FairSpec == Spec /\ Fairness

-----------------------------------------------------------------------------
\* No job is ahead of its delivery: a row's revision is at most the number
\* of attempts plus one, although scans enqueue from what they read earlier
\* and late workers from the revision of their own job.
RowsNotAhead == \A j \in rows \cup scan : j[2] <= attempts[j[1]] + 1

\* A delivery that waits for an attempt has the row of that attempt, unless
\* some attempt of it was recorded after its lease: the retry does not
\* depend on the scan (webhook-deliver-v1.ts records and enqueues at once).
RetryEnqueued == \A d \in Deliveries : status[d] = "PENDING" /\ ~stale[d] => Waiting(d)

\* As long as every attempt is recorded within its lease, a delivery has at
\* most one attempt under way in its lease, and that one is not yet counted
\* (the claim is the only lock between two copies of a job).
OneAttempt ==
    \A v, w \in Workers :
        fresh[v] /\ fresh[w] /\ DeliveryOf(v) = DeliveryOf(w) /\ ~stale[DeliveryOf(w)] =>
            v = w /\ attempts[DeliveryOf(w)] = RevisionOf(w) - 1

\* A delivery that has ended stays as it is, whoever still works on it (the
\* webhooks test expects one of two concurrent jobs to claim it, and the
\* delivery to end SUCCEEDED).  The code does not keep it, but
\* EndedIsFinalInLease.
EndedIsFinal == [][\A d \in Deliveries : status[d] \in Ended => status'[d] = status[d]]_vars

\* What the code keeps of it: only an attempt that was recorded after its
\* lease can bring an ended delivery back (record-attempt.ts tests nothing).
EndedIsFinalInLease ==
    [][\A d \in Deliveries : status[d] \in Ended /\ ~stale'[d] => status'[d] = status[d]]_vars

\* Every delivery ends, although workers die between claim and record and
\* late records leave a delivery without the row of its next attempt
\* (recover-webhooks.ts).
DeliveriesEnd == \A d \in Deliveries : status[d] = "PENDING" ~> status[d] \in Ended

-----------------------------------------------------------------------------
(* The inductive invariant. *)

\* A worker's job is a row, and the rows and what a scan is going to make
\* are of deliveries that exist; one that does not was never attempted.
JobsExist ==
    /\ \A w \in Workers :
         /\ wpc[w] # "idle" => wjob[w] \in rows
         /\ wpc[w] = "record" => wanswer[w] \in Outcomes
         /\ fresh[w] => wpc[w] \in {"deliver", "record"}
    /\ \A j \in rows \cup scan : status[j[1]] # "ABSENT"
    /\ \A d \in Deliveries : status[d] = "ABSENT" => attempts[d] = 0

\* Inside the lease of its claim a worker has its delivery, and the attempt
\* it makes is the next one, unless a late record interfered.
LeaseCovers ==
    \A w \in Workers : fresh[w] /\ ~stale[DeliveryOf(w)] =>
        /\ status[DeliveryOf(w)] = "PROCESSING"
        /\ leased[DeliveryOf(w)]
        /\ attempts[DeliveryOf(w)] = RevisionOf(w) - 1

\* The row of the next attempt stays while the attempt is under way, for a
\* recovery that returns the delivery to PENDING makes none.
RowKept == \A d \in Deliveries : status[d] \in {"PENDING", "PROCESSING"} /\ ~stale[d] => Waiting(d)

\* The inductive invariant of the deliveries: jobs, attempts and leases stay in
\* step, whatever is recovered or recorded late (recover-webhooks.ts).
IInv ==
    /\ TypeOK
    /\ JobsExist
    /\ RowsNotAhead
    /\ LeaseCovers
    /\ OneAttempt
    /\ RowKept
=============================================================================
