-------------------------- MODULE ProcessingSystem --------------------------
(***************************************************************************)
(* The processing pipeline as deployed: Processing, with its job delivery  *)
(* replaced by what delivers jobs, the outbox rows its transactions write, *)
(* the relays that publish them, BullMQ, and the recovery scan that        *)
(* re-arms the row of a run nobody holds the lease of.                     *)
(*                                                                         *)
(* Everything Processing leaves to chance is caused by something here, so  *)
(* this module can ask what Processing cannot: does every run end?         *)
(***************************************************************************)
EXTENDS Processing

CONSTANTS Relays,     \* relay loops
          BatchSize,  \* rows a relay claims per round
          MaxFaults,  \* bound: faults of a behavior
          FaultKinds  \* bound: which of them, of "worker", "relay", "redis", "scan"

VARIABLES
    outbox, aged, job, rpc, rseen, rclaimed, rrow,  \* those of OutboxRelay
    scan,    \* rows that recovery scans have still to re-arm: the stage each
             \* run was in when the scan read it, and the run
    scheduled,  \* Redis has the job scheduler that runs the scan
    faults   \* how many faults happened

Outbox == INSTANCE OutboxRelay WITH Rows <- Intents, Consumers <- Workers

ASSUME WorkersAssumption == Workers \cap Outbox!JobStates = {}

relayVars == <<rpc, rseen, rclaimed, rrow>>
outboxVars == <<outbox, aged, job, relayVars>>
systemVars == <<vars, outboxVars, scan, scheduled, faults>>

SystemInit ==
    /\ Init
    /\ Outbox!Init
    /\ scan = {}
    /\ scheduled = TRUE
    /\ faults = 0

-----------------------------------------------------------------------------
\* Mutant: the rows are left to the recovery scan.
Produce_Later == UNCHANGED <<outbox, aged, job, relayVars, scan, scheduled>>

\* The outbox rows of a transaction's new intents, in the same transaction.
Produce ==
    /\ outbox' = Outbox!Enqueued(intents' \ intents)
    /\ UNCHANGED <<aged, job, relayVars, scan, scheduled>>

Api(c) == ApiStep(c) /\ Produce /\ UNCHANGED faults

Handle(w) == HandlerStep(w) /\ ~ProcessorThrows(w) /\ Produce /\ UNCHANGED faults

Deliver(w, i) ==
    /\ StartJob(w, i)
    /\ Outbox!Take(w, i)
    /\ UNCHANGED <<outbox, aged, relayVars, scan, scheduled, faults>>

\* A processor that returns completes its job, whatever it returns; one that
\* throws is retried after a delay until its attempts are used up.
End(w) ==
    /\ Finish(w)
    /\ \E state \in IF wpc[w] = "threw" THEN {"waiting", "finished"} ELSE {"finished"} :
         Outbox!Settle(w, wtask[w], state)
    /\ UNCHANGED <<outbox, aged, relayVars, scan, scheduled, faults>>

Relay(p) == Outbox!RelayStep(p) /\ UNCHANGED <<vars, scan, scheduled, faults>>

\* A lease, or a relay's claim, or the lock of a worker that is gone, has
\* run out.
LeaseEnds(r) == ExpireLease(r) /\ UNCHANGED <<outboxVars, scan, scheduled, faults>>

ClaimAges(i) == Outbox!Age(i) /\ UNCHANGED <<vars, scan, scheduled, faults>>

Abandoned(i) == Outbox!Locked(i) /\ wtask[job[i]] # i

LockEnds(i) == Abandoned(i) /\ Outbox!Stall(i) /\ UNCHANGED <<vars, scan, scheduled, faults>>

-----------------------------------------------------------------------------
(* recoverProcessing, run by the scheduler every minute: one scan at a     *)
(* time, but what it read may be old when it gets to the run.              *)

\* Mutant: the run in a stage is sent on to the next one.
ContractFor_Next == [QUEUED |-> "VALIDATING", VALIDATING |-> "ANALYZING",
                     ANALYZING |-> "FINALIZING", FINALIZING |-> "FINALIZING"]

ContractFor == [QUEUED |-> "VALIDATING", VALIDATING |-> "VALIDATING",
                ANALYZING |-> "ANALYZING", FINALIZING |-> "FINALIZING"]

\* Mutant: a run that still waits for its first claim is not scanned.
Recoverable_Claimed == {r \in Runs : status[r] \in Stages /\ ~leased[r]}

Recoverable == {r \in Runs : status[r] \in Stages \cup {"QUEUED"} /\ ~leased[r]}

ScanRead ==
    LET found == {<<ContractFor[status[r]], r>> : r \in Recoverable} IN
    /\ scheduled
    /\ scan = {} /\ found # {}
    /\ scan' = found
    /\ UNCHANGED <<vars, outboxVars, scheduled, faults>>

\* The conditional update, then enqueueIntent: it finds the row or makes it.
ScanWrite ==
    /\ \E i \in scan :
         /\ outbox' = IF outbox[i] = "NONE" THEN Outbox!Enqueued({i}) ELSE Outbox!Rearmed(i)
         /\ intents' = intents \cup {i}
         /\ scan' = scan \ {i}
    /\ UNCHANGED <<runVars, outVars, endpoint, workerVars, request,
                   aged, job, relayVars, scheduled, faults>>

\* The scheduler process installs the schedule when it starts, and only then.
StartScheduler ==
    /\ ~scheduled
    /\ scheduled' = TRUE
    /\ UNCHANGED <<vars, outboxVars, scan, faults>>

-----------------------------------------------------------------------------
(* Faults: of a worker, of a relay, of the database under either, of a     *)
(* scan, of a lock that is lost under a slow worker, of all of Redis.      *)

WorkerFault ==
    /\ \E w \in Workers : Crash(w) \/ ProcessorThrows(w)
    /\ UNCHANGED <<outboxVars, scan, scheduled>>

RelayFault ==
    /\ \E p \in Relays : Outbox!PublishThrows(p) \/ Outbox!Abort(p)
    /\ UNCHANGED <<vars, scan, scheduled>>

RedisFault ==
    /\ \/ (\E i \in Intents : ~Abandoned(i) /\ Outbox!Stall(i)) /\ UNCHANGED scheduled
       \/ Outbox!Flush /\ scheduled' = FALSE
    /\ UNCHANGED <<vars, scan>>

ScanFault ==
    /\ scan # {}
    /\ scan' = {}
    /\ UNCHANGED <<vars, outboxVars, scheduled>>

Fault ==
    /\ faults < MaxFaults
    /\ faults' = faults + 1
    /\ \/ "worker" \in FaultKinds /\ WorkerFault
       \/ "relay" \in FaultKinds /\ RelayFault
       \/ "redis" \in FaultKinds /\ RedisFault
       \/ "scan" \in FaultKinds /\ ScanFault

SystemNext ==
    \/ \E c \in Clients : Api(c)
    \/ \E w \in Workers : Handle(w) \/ End(w) \/ \E i \in Intents : Deliver(w, i)
    \/ \E p \in Relays : Relay(p)
    \/ \E r \in Runs : LeaseEnds(r)
    \/ \E i \in Intents : ClaimAges(i) \/ LockEnds(i)
    \/ ScanRead
    \/ ScanWrite
    \/ StartScheduler
    \/ Fault

SystemSpec == SystemInit /\ [][SystemNext]_systemVars

\* A handler, a relay loop and a scan take their next step, the clock
\* passes every deadline, and BullMQ gives out waiting jobs in turn.  Somebody
\* restarts the scheduler once Redis has lost its data: nothing in the code
\* does, and without it no scan runs again.
SystemFairness ==
    /\ \A w \in Workers : WF_systemVars(Handle(w)) /\ WF_systemVars(End(w))
    /\ \A i \in Intents : SF_systemVars(\E w \in Workers : Deliver(w, i))
    /\ \A p \in Relays : WF_systemVars(Relay(p))
    /\ \A r \in Runs : WF_systemVars(LeaseEnds(r))
    /\ \A i \in Intents : WF_systemVars(ClaimAges(i)) /\ WF_systemVars(LockEnds(i))
    /\ WF_systemVars(ScanRead)
    /\ WF_systemVars(ScanWrite)
    /\ WF_systemVars(StartScheduler)

FairSystem == SystemSpec /\ SystemFairness

-----------------------------------------------------------------------------
\* The assembled pipeline does nothing Processing does not allow, so what
\* holds of Processing holds of it: in particular a scan that acts on an old
\* status never makes a row for a stage the run has not reached.
ImplementsProcessing == Spec

\* Every run ends, whichever process dies between two of its steps, and even
\* if Redis loses all of its jobs at any moment, provided that the scheduler
\* is started again then (recover-processing.ts, schedules.ts).
RunsEnd == \A r \in Runs : status[r] = "QUEUED" ~> status[r] \in Terminal

-----------------------------------------------------------------------------
(* The inductive invariant. *)

\* Processing's intents are the rows of the relays' outbox.
RowsAreIntents == intents = {i \in Intents : outbox[i] # "NONE"}

\* A job, and a row a relay holds, come from an intent.
JobsHaveRows == \A i \in Intents : job[i] # "none" => i \in intents

RelaysHoldRows ==
    \A p \in Relays :
        /\ rclaimed[p] \subseteq intents
        /\ rpc[p] \in {"remove", "add", "mark", "markFailed"} => rrow[p] \in intents

\* However old what a scan read is, the row it goes on to re-arm exists.
ScanFindsRows == scan \subseteq intents

\* The inductive invariant of the pipeline: that of Processing, and what is
\* published, delivered and re-armed are rows of runs that have reached the
\* stage (recover-processing.ts).
SystemIInv ==
    /\ IInv
    /\ Outbox!TypeOK
    /\ RowsAreIntents
    /\ JobsHaveRows
    /\ RelaysHoldRows
    /\ ScanFindsRows
=============================================================================
