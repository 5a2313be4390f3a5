--------------------------- MODULE WorkerProcess ---------------------------
(***************************************************************************)
(* The worker process as a whole: the loop that publishes outbox rows a    *)
(* batch at a time, the BullMQ workers that run their jobs, the recovery   *)
(* scan, and the shutdown that stops all of them in order; and the         *)
(* scheduler process, whose schedules live in Redis.  What each step does  *)
(* to a run, and how several relays race, is in ProcessingSystem; here are *)
(* the order rows are taken in, the limits of a batch and of a scan, and   *)
(* the life of the process.                                                *)
(*                                                                         *)
(* A row stands for the run it is about.  Rows are numbered by createdAt;  *)
(* transactions may commit in another order.                               *)
(***************************************************************************)
EXTENDS Naturals, FiniteSets, FiniteSetsExt

CONSTANTS Rows,       \* a set of numbers
          Poison,     \* rows that cannot be published: a contract the relay
                      \* does not know, a payload its schema refuses
          BatchSize,  \* limit of claimOutboxBatch
          ScanLimit,  \* limit of recoverProcessing
          MaxFaults   \* bound: signals, crashes, kills, outages of Redis, jobs
                      \* that end in vain

ASSUME RowsAssumption == Rows \subseteq Nat /\ IsFiniteSet(Rows) /\ Poison \subseteq Rows
ASSUME LimitsAssumption == {BatchSize, ScanLimit} \subseteq Nat \ {0}
ASSUME MaxFaultsAssumption == MaxFaults \in Nat

VARIABLES
    row,       \* QueueOutbox.status, or "NONE"
    aged,      \* claimedAt is more than 60 seconds ago
    job,       \* "none", "waiting", "active", "finished"
    done,      \* the run has ended
    redis,     \* Redis answers
    scheduled, \* Redis has the job schedulers
    process,   \* "up", "stopping" (a signal came), "down"
    loop,      \* the relay loop: "timer", "round", "idle"
    round,     \* the rows the round has claimed and not dealt with
    stop,      \* the stop function: "none", "relay", "workers", "ended", "failed"
    late,      \* its ten seconds are over
    disconnected,
    faults

processVars == <<process, loop, round, stop, late, disconnected>>
vars == <<row, aged, job, done, redis, scheduled, processVars, faults>>

TypeOK ==
    /\ row \in [Rows -> {"NONE", "PENDING", "CLAIMED", "PUBLISHED", "FAILED"}]
    /\ job \in [Rows -> {"none", "waiting", "active", "finished"}]
    /\ aged \subseteq Rows /\ done \subseteq Rows \ Poison
    /\ redis \in BOOLEAN /\ scheduled \in BOOLEAN
    /\ late \in BOOLEAN /\ disconnected \in BOOLEAN
    /\ process \in {"up", "stopping", "down"}
    /\ loop \in {"timer", "round", "idle"}
    /\ round \subseteq {i \in Rows : row[i] = "CLAIMED"}
    /\ Cardinality(round) <= BatchSize
    /\ stop \in {"none", "relay", "workers", "ended", "failed"}
    /\ faults \in 0..MaxFaults

Init ==
    /\ row = [i \in Rows |-> "NONE"] /\ aged = {}
    /\ job = [i \in Rows |-> "none"] /\ done = {}
    /\ redis = TRUE /\ scheduled = TRUE
    /\ process = "up" /\ loop = "timer" /\ round = {}
    /\ stop = "none" /\ late = FALSE /\ disconnected = FALSE
    /\ faults = 0

-----------------------------------------------------------------------------
Insert(i) ==
    /\ row[i] = "NONE"
    /\ row' = [row EXCEPT ![i] = "PENDING"]
    /\ UNCHANGED <<aged, job, done, redis, scheduled, processVars, faults>>

\* The n least of a set of numbers, and the n greatest.
Oldest(S, n) == {i \in S : Cardinality({j \in S : j < i}) < n}
Newest(S, n) == {i \in S : Cardinality({j \in S : j > i}) < n}

\* Mutant: one row less.
Batch_Short(due) == Oldest(due, BatchSize - 1)
\* Mutant: the limit is forgotten.
Batch_Unlimited(due) == due
Batch(due) == Oldest(due, BatchSize)

\* The loop's timer fires: claimOutboxBatch releases old claims and takes
\* the oldest rows that are due, failed ones included.
Tick ==
    /\ process # "down" /\ loop = "timer"
    /\ LET released == {i \in aged : row[i] = "CLAIMED"}
       IN  /\ round' = Batch(released \cup {i \in Rows : row[i] \in {"PENDING", "FAILED"}})
           /\ row' = [i \in Rows |-> IF i \in round' THEN "CLAIMED"
                                     ELSE IF i \in released THEN "PENDING" ELSE row[i]]
    /\ aged' = {}
    /\ loop' = "round"
    /\ UNCHANGED <<job, done, redis, scheduled, process, stop, late, disconnected, faults>>

\* The next row of the round.  Without Redis the commands wait for it.
PublishRow ==
    /\ loop = "round" /\ round # {} /\ redis
    /\ LET i == Min(round) IN
         /\ round' = round \ {i}
         /\ aged' = aged \ {i}
         /\ IF i \in Poison
            THEN row' = [row EXCEPT ![i] = "FAILED"] /\ UNCHANGED job
            ELSE /\ row' = [row EXCEPT ![i] = "PUBLISHED"]
                 /\ job' = [job EXCEPT ![i] = IF @ \in {"none", "finished"} THEN "waiting" ELSE @]
    /\ UNCHANGED <<done, redis, scheduled, process, loop, stop, late, disconnected, faults>>

\* The round is over; the loop sets its timer again unless it was stopped.
EndRound ==
    /\ loop = "round" /\ round = {}
    /\ loop' = IF stop = "none" THEN "timer" ELSE "idle"
    /\ UNCHANGED <<row, aged, job, done, redis, scheduled, process, round, stop, late,
                   disconnected, faults>>

\* BullMQ's workers take jobs until they are closed.
TakesJobs == process # "down" /\ redis /\ stop \in {"none", "relay"}

Take(i) ==
    /\ TakesJobs
    /\ job[i] = "waiting"
    /\ job' = [job EXCEPT ![i] = "active"]
    /\ UNCHANGED <<row, aged, done, redis, scheduled, processVars, faults>>

\* The handler returns, and the run, which has one stage here, has ended.
EndJob(i) ==
    /\ job[i] = "active"
    /\ job' = [job EXCEPT ![i] = "finished"]
    /\ done' = done \cup {i}
    /\ UNCHANGED <<row, aged, redis, scheduled, processVars, faults>>

\* recoverProcessing: the newest of the runs that have not ended and that
\* nobody holds the lease of get their published rows re-armed.
Scan ==
    /\ TakesJobs /\ scheduled
    /\ LET stuck == {i \in Rows \ done : row[i] # "NONE" /\ job[i] # "active"}
           rearmed == {i \in Newest(stuck, ScanLimit) : row[i] = "PUBLISHED"}
       IN  /\ rearmed # {}
           /\ row' = [i \in Rows |-> IF i \in rearmed THEN "PENDING" ELSE row[i]]
    /\ UNCHANGED <<aged, job, done, redis, scheduled, processVars, faults>>

-----------------------------------------------------------------------------
(* Shutdown. *)

\* The first SIGINT or SIGTERM: createShutdown's function is called, stop
\* begins by stopping the relay loop.
Signal ==
    /\ process = "up" /\ faults < MaxFaults
    /\ faults' = faults + 1
    /\ process' = "stopping"
    /\ stop' = "relay"
    /\ loop' = IF loop = "timer" THEN "idle" ELSE loop
    /\ UNCHANGED <<row, aged, job, done, redis, scheduled, round, late, disconnected>>

\* Mutant: the round in progress is not awaited.
RelayStopped_Now == TRUE
RelayStopped == loop = "idle"

\* The relay's round is over; then the workers take no more jobs and wait for
\* those they have, and queues and health server are closed.
StopStep ==
    /\ \/ stop = "relay" /\ RelayStopped /\ stop' = "workers"
       \/ stop = "workers" /\ redis /\ (\A i \in Rows : job[i] # "active") /\ stop' = "ended"
    /\ UNCHANGED <<row, aged, job, done, redis, scheduled, process, loop, round, late,
                   disconnected, faults>>

\* One of the promises of stop rejects: a worker, a queue or the health server
\* could not be closed.  Every worker was told to close, and the others may still
\* run their jobs.
StopFails ==
    /\ stop = "workers"
    /\ stop' = "failed"
    /\ UNCHANGED <<row, aged, job, done, redis, scheduled, process, loop, round, late,
                   disconnected, faults>>

\* Mutant: shutdown waits for stop, however long it takes.
Timeout_None == FALSE /\ UNCHANGED vars
Timeout ==
    /\ process = "stopping" /\ stop \notin {"ended", "failed"} /\ ~late
    /\ late' = TRUE
    /\ UNCHANGED <<row, aged, job, done, redis, scheduled, process, loop, round, stop,
                   disconnected, faults>>

\* The finally block, after stop has ended or failed, or its ten seconds.
Disconnect ==
    /\ process = "stopping" /\ ~disconnected
    /\ stop \in {"ended", "failed"} \/ late
    /\ disconnected' = TRUE
    /\ UNCHANGED <<row, aged, job, done, redis, scheduled, process, loop, round, stop, late,
                   faults>>

\* The process is gone; its active jobs stall and wait again.
Gone ==
    /\ process' = "down" /\ loop' = "idle" /\ round' = {}
    /\ stop' = "none" /\ late' = FALSE /\ disconnected' = FALSE
    /\ job' = [i \in Rows |-> IF job[i] = "active" THEN "waiting" ELSE job[i]]
    /\ UNCHANGED <<row, aged, done, redis, scheduled>>

\* Nothing is left to run, or the container's supervisor loses patience: what
\* a stop that failed or was late has not closed keeps the process alive.
Exit ==
    /\ disconnected
    /\ stop \in {"ended", "failed"} \/ late
    /\ Gone /\ UNCHANGED faults

Start ==
    /\ process = "down"
    /\ process' = "up" /\ loop' = "timer"
    /\ UNCHANGED <<row, aged, job, done, redis, scheduled, round, stop, late, disconnected,
                   faults>>

-----------------------------------------------------------------------------
(* Time, faults, and the scheduler process. *)

Age(i) ==
    /\ row[i] = "CLAIMED" /\ i \notin aged
    /\ aged' = aged \cup {i}
    /\ UNCHANGED <<row, job, done, redis, scheduled, processVars, faults>>

RedisReturns ==
    /\ ~redis
    /\ redis' = TRUE
    /\ UNCHANGED <<row, aged, job, done, scheduled, processVars, faults>>

\* installSchedulers, which only a start of the scheduler process calls.
StartScheduler ==
    /\ redis /\ ~scheduled
    /\ scheduled' = TRUE
    /\ UNCHANGED <<row, aged, job, done, redis, processVars, faults>>

\* Redis stops, and comes back with or without its data.
RedisFault ==
    /\ redis
    /\ redis' = FALSE
    /\ \/ UNCHANGED <<job, scheduled>>
       \/ scheduled' = FALSE /\ job' = [i \in Rows |-> IF job[i] = "active" THEN "active" ELSE "none"]
    /\ UNCHANGED <<row, aged, done, processVars>>

\* The job ends and the run does not: its attempts were used up, or the
\* lease of a worker that is gone kept it from the run.
EndInVain(i) ==
    /\ job[i] = "active"
    /\ job' = [job EXCEPT ![i] = "finished"]
    /\ UNCHANGED <<row, aged, done, redis, scheduled, processVars>>

Fault ==
    /\ faults < MaxFaults
    /\ faults' = faults + 1
    /\ \/ RedisFault
       \/ process # "down" /\ Gone
       \/ \E i \in Rows : EndInVain(i)

Next ==
    \/ \E i \in Rows : Insert(i) \/ Take(i) \/ EndJob(i) \/ Age(i)
    \/ Tick \/ PublishRow \/ EndRound \/ Scan
    \/ Signal \/ StopStep \/ StopFails \/ Timeout \/ Disconnect \/ Exit \/ Start
    \/ RedisReturns \/ StartScheduler \/ Fault

Spec == Init /\ [][Next]_vars

\* Timers fire, promises settle, BullMQ gives out every waiting job in turn, and
\* whoever operates the processes starts them again.  Nothing has to fail, and
\* that Redis comes back is left to the properties.
Fairness ==
    /\ WF_vars(Tick) /\ WF_vars(PublishRow) /\ WF_vars(EndRound) /\ WF_vars(Scan)
    /\ \A i \in Rows : WF_vars(Take(i)) /\ WF_vars(EndJob(i)) /\ WF_vars(Age(i))
    /\ WF_vars(StopStep) /\ WF_vars(Timeout) /\ WF_vars(Disconnect)
    /\ WF_vars(Exit) /\ WF_vars(Start) /\ WF_vars(StartScheduler)

FairSpec == Spec /\ Fairness

-----------------------------------------------------------------------------
\* A shutdown whose ten seconds are not over has left no claimed row of its own
\* when the database is disconnected, and no job either unless stop failed: the
\* finally block does not wait for the jobs of the other workers then.
QuietAfterStop ==
    disconnected /\ ~late =>
      /\ loop = "idle" /\ round = {}
      /\ stop # "failed" => \A i \in Rows : job[i] # "active"

\* Every signal leads to the end of the shutdown, even if Redis is gone and
\* the round or the workers wait for it for ever (createShutdown's timer), and
\* if stop fails (its finally block).
ShutdownEnds == process = "stopping" ~> disconnected \/ process = "down"

\* Every run that can be run is, in the end, if Redis stays up in the end:
\* batches take the oldest rows and scans the newest runs, so that fewer
\* unpublishable rows than either limit hold nobody up (claimOutboxBatch,
\* recoverProcessing).
BacklogDrains ==
    <>[]redis => \A i \in Rows \ Poison : row[i] # "NONE" ~> i \in done

-----------------------------------------------------------------------------
(* The inductive invariant. *)

\* The relay adds no job for a row it cannot publish.
JobsPublishable == \A i \in Poison : job[i] = "none"

\* Where the loop and the stop function can be, one given the other: the
\* workers are stopped after the loop, and the loop stays stopped; only a stop
\* that ended waited for every job; the database goes when stop has settled or
\* its time is up.
StopOrder ==
    /\ loop # "round" => round = {}
    /\ process = "down" => loop = "idle"
    /\ process # "stopping" => stop = "none"
    /\ stop \in {"workers", "ended", "failed"} => loop = "idle"
    /\ stop = "ended" => \A i \in Rows : job[i] # "active"
    /\ disconnected => stop \in {"ended", "failed"} \/ late

\* The inductive invariant of the worker process: the order in which stop
\* and createShutdown take it apart (main.ts, shutdown.ts).
IInv ==
    /\ TypeOK
    /\ JobsPublishable
    /\ StopOrder
=============================================================================
