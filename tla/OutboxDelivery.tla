--------------------------- MODULE OutboxDelivery ---------------------------
(***************************************************************************)
(* OutboxRelay closed: transactions insert rows, a recovery scan re-arms   *)
(* published ones, consumers run jobs.  It checks what the outbox promises *)
(* on its own, for intents no scan may ever come back to, such as          *)
(* notification.publish.v1: a committed row is published, and run, at      *)
(* least once, although relays race, stall, throw and die.                 *)
(***************************************************************************)
EXTENDS OutboxRelay

CONSTANTS MaxFaults,  \* bound: throws, aborts and stalls
          MaxRearms   \* bound: rows re-armed

ASSUME BoundsAssumption == MaxFaults \in Nat /\ MaxRearms \in Nat

VARIABLES
    ran,    \* history variable: rows whose job was started
    faults, rearms

deliveryVars == <<outboxVars, ran, faults, rearms>>

DeliveryTypeOK ==
    /\ TypeOK
    /\ ran \in SUBSET Rows
    /\ faults \in 0..MaxFaults
    /\ rearms \in 0..MaxRearms

DeliveryInit ==
    /\ Init
    /\ ran = {}
    /\ faults = 0 /\ rearms = 0

Insert(i) ==
    /\ outbox[i] = "NONE"
    /\ outbox' = Enqueued({i})
    /\ UNCHANGED <<aged, job, relayVars, ran, faults, rearms>>

Rearm(i) ==
    /\ rearms < MaxRearms
    /\ outbox[i] = "PUBLISHED"
    /\ outbox' = Rearmed(i)
    /\ rearms' = rearms + 1
    /\ UNCHANGED <<aged, job, relayVars, ran, faults>>

Relay(p) ==
    /\ RelayStep(p)
    /\ UNCHANGED <<ran, faults, rearms>>

Start(w, i) ==
    /\ Take(w, i)
    /\ ran' = ran \cup {i}
    /\ UNCHANGED <<outbox, aged, relayVars, faults, rearms>>

End(w, i) ==
    /\ job[i] = w
    /\ \E state \in {"waiting", "finished"} : Settle(w, i, state)
    /\ UNCHANGED <<outbox, aged, relayVars, ran, faults, rearms>>

Fault ==
    /\ faults < MaxFaults
    /\ \/ \E p \in Relays : PublishThrows(p) \/ Abort(p)
       \/ \E i \in Rows : Stall(i)
    /\ faults' = faults + 1
    /\ UNCHANGED <<ran, rearms>>

Time(i) == (Age(i) \/ Forget(i)) /\ UNCHANGED <<ran, faults, rearms>>

DeliveryNext ==
    \/ \E i \in Rows : Insert(i) \/ Rearm(i) \/ Time(i)
    \/ \E p \in Relays : Relay(p)
    \/ \E w \in Consumers, i \in Rows : Start(w, i) \/ End(w, i)
    \/ Fault

DeliverySpec == DeliveryInit /\ [][DeliveryNext]_deliveryVars

\* A relay that is alive takes its next step (the loop re-arms its timer
\* after every round), a minute passes, and a worker takes the waiting job.
DeliveryFairness ==
    /\ \A p \in Relays : WF_deliveryVars(Relay(p))
    /\ \A i \in Rows : WF_deliveryVars(Age(i) /\ UNCHANGED <<ran, faults, rearms>>)
    /\ \A i \in Rows : WF_deliveryVars(\E w \in Consumers : Start(w, i))

FairDelivery == DeliverySpec /\ DeliveryFairness

-----------------------------------------------------------------------------
\* A published row was run, or has a job a worker can still take, although
\* a relay that lost its claim acts on a job another relay has added since,
\* and the marks look at neither (relay.ts looks the job up, removes it, adds
\* it and marks the row in four separate steps).
PublishedIsDelivered ==
    \A i \in Rows : outbox[i] = "PUBLISHED" => i \in ran \/ job[i] \in {"waiting"} \cup Consumers

\* Every committed row is run at least once: a claim whose relay died is
\* released by the others, and a row that failed is claimed again
\* (claim-batch.ts).
AtLeastOnce == \A i \in Rows : outbox[i] = "PENDING" ~> i \in ran

-----------------------------------------------------------------------------
(* The inductive invariant. *)

\* Only a job that was started gets a lock, ends, or is removed.
JobsRan == \A i \in Rows : job[i] \in {"finished"} \cup Consumers => i \in ran

\* A relay removes a job only after it has seen it finished, and what it is
\* about to mark was added, or was run before.
RelayKnows ==
    \A p \in Relays :
        /\ rpc[p] \in {"remove", "add", "mark", "markFailed"} => rrow[p] \in Rows
        /\ rpc[p] = "remove" => rrow[p] \in ran
        /\ rpc[p] = "mark" => rrow[p] \in ran \/ job[rrow[p]] = "waiting"

\* The inductive invariant of the outbox: what a relay concluded from its look
\* at the queue is still true at each of its later steps (relay.ts).
IInv ==
    /\ DeliveryTypeOK
    /\ JobsRan
    /\ RelayKnows
    /\ PublishedIsDelivered
=============================================================================
