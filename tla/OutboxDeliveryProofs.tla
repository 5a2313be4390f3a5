------------------------ MODULE OutboxDeliveryProofs ------------------------
(***************************************************************************)
(* Proofs about OutboxRelay, closed by OutboxDelivery, for any rows,       *)
(* relays, consumers, sizes of a batch, and bounds on faults and scans.    *)
(***************************************************************************)
EXTENDS OutboxDelivery, TLAPS

\* At first there are no rows and no jobs, and no relay is at work.
LEMMA InitIInv == DeliveryInit => IInv
  <1> SUFFICES ASSUME DeliveryInit PROVE IInv
    OBVIOUS
  <1> USE DEF DeliveryInit, Init
  <1>1. DeliveryTypeOK
    BY BoundsAssumption DEF DeliveryTypeOK, TypeOK, RowStates, JobStates, RelayPCs
  <1>2. JobsRan
    BY ConsumersAssumption DEF JobsRan, JobStates
  <1>3. RelayKnows /\ PublishedIsDelivered
    BY DEF RelayKnows, PublishedIsDelivered
  <1> QED
    BY <1>1, <1>2, <1>3 DEF IInv

-----------------------------------------------------------------------------
(* Types. *)

\* A round keeps the types, whoever its relay is.
LEMMA RoundType ==
    ASSUME TypeOK, RelayKnows, NEW p \in Relays, RelayStep(p) \/ PublishThrows(p) \/ Abort(p)
    PROVE  TypeOK'
  <1> USE DEF TypeOK, RowStates, RelayPCs, Due, Goto
  <1>1. CASE ReleaseAged(p)
    BY <1>1 DEF ReleaseAged
  <1>2. CASE Select(p)
    <2>1. PICK batch \in SUBSET {i \in Rows : outbox[i] \in Due} :
            /\ rseen' = [rseen EXCEPT ![p] = {<<i, outbox[i]>> : i \in batch}]
            /\ Goto(p, IF batch = {} THEN "release" ELSE "claim")
      BY <1>2 DEF Select
    <2>2. {<<i, outbox[i]>> : i \in batch} \in SUBSET (Rows \X Due)
      OBVIOUS
    <2> QED
      BY <1>2, <2>1, <2>2 DEF Select
  <1>3. CASE ClaimRow(p)
    <2>1. PICK seen \in rseen[p] :
            /\ IF outbox[seen[1]] = seen[2]
               THEN /\ outbox' = [outbox EXCEPT ![seen[1]] = "CLAIMED"]
                    /\ aged' = [aged EXCEPT ![seen[1]] = FALSE]
                    /\ rclaimed' = [rclaimed EXCEPT ![p] = @ \cup {seen[1]}]
               ELSE UNCHANGED <<outbox, aged, rclaimed>>
            /\ rseen' = [rseen EXCEPT ![p] = @ \ {seen}]
            /\ Goto(p, IF rseen'[p] # {} THEN "claim"
                       ELSE IF rclaimed'[p] # {} THEN "lookup" ELSE "release")
      BY <1>3 DEF ClaimRow
    <2>2. seen[1] \in Rows
      BY <2>1
    <2>3. /\ outbox' \in [Rows -> RowStates]
          /\ aged' \in [Rows -> BOOLEAN]
          /\ rclaimed' \in [Relays -> SUBSET Rows]
      <3>1. CASE outbox[seen[1]] = seen[2]
        <4> DEFINE i == seen[1]
        <4>1. /\ outbox' = [outbox EXCEPT ![i] = "CLAIMED"]
              /\ aged' = [aged EXCEPT ![i] = FALSE]
              /\ rclaimed' = [rclaimed EXCEPT ![p] = @ \cup {i}]
          BY <2>1, <3>1
        <4>2. i \in Rows
          BY <2>2
        <4> HIDE DEF i
        <4> QED
          BY <4>1, <4>2
      <3>2. CASE outbox[seen[1]] # seen[2]
        BY <2>1, <3>2
      <3> QED
        BY <3>1, <3>2
    <2>4. rseen' \in [Relays -> SUBSET (Rows \X Due)]
      BY <2>1
    <2>5. rpc' \in [Relays -> RelayPCs]
      BY <2>1
    <2> QED
      BY <1>3, <2>3, <2>4, <2>5 DEF ClaimRow
  <1>4. CASE Lookup(p)
    BY <1>4 DEF Lookup
  <1>5. CASE Remove(p) \/ Add(p)
    BY <1>5 DEF Remove, Add, JobStates
  <1>6. CASE PublishThrows(p)
    BY <1>6 DEF PublishThrows
  <1>7. CASE MarkPublished(p) \/ MarkFailed(p)
    BY <1>7 DEF MarkPublished, MarkFailed, NextRow
  <1>8. CASE Abort(p)
    BY <1>8 DEF Abort
  <1> QED
    BY <1>1, <1>2, <1>3, <1>4, <1>5, <1>6, <1>7, <1>8 DEF RelayStep

\* Every step keeps the types and the bounds.
LEMMA TypeStep ==
    ASSUME IInv, [DeliveryNext]_deliveryVars
    PROVE  DeliveryTypeOK'
  <1>t. DeliveryTypeOK /\ TypeOK /\ RelayKnows
    BY DEF IInv, DeliveryTypeOK
  <1> USE BoundsAssumption DEF DeliveryTypeOK
  <1>1. ASSUME NEW i \in Rows, Insert(i) \/ Rearm(i) \/ Time(i) PROVE DeliveryTypeOK'
    <2> USE DEF TypeOK, relayVars
    <2>1. CASE Insert(i)
      BY <1>t, <2>1 DEF Insert, Enqueued, RowStates
    <2>2. CASE Rearm(i)
      BY <1>t, <2>2 DEF Rearm, Rearmed, RowStates
    <2>3. CASE Age(i) /\ UNCHANGED <<ran, faults, rearms>>
      BY <1>t, <2>3 DEF Age
    <2>4. CASE Forget(i) /\ UNCHANGED <<ran, faults, rearms>>
      BY <1>t, <2>4 DEF Forget, JobStates
    <2> QED
      BY <1>1, <2>1, <2>2, <2>3, <2>4 DEF Time
  <1>2. ASSUME NEW p \in Relays, Relay(p) PROVE DeliveryTypeOK'
    BY <1>t, <1>2, RoundType DEF Relay
  <1>3. ASSUME NEW w \in Consumers, NEW i \in Rows, Start(w, i) \/ End(w, i) PROVE DeliveryTypeOK'
    BY <1>t, <1>3 DEF Start, End, Take, Settle, TypeOK, JobStates, relayVars
  <1>4. CASE Fault
    <2>1. ASSUME NEW p \in Relays, PublishThrows(p) \/ Abort(p) PROVE TypeOK'
      BY <1>t, <2>1, RoundType
    <2>2. ASSUME NEW i \in Rows, Stall(i) PROVE TypeOK'
      BY <1>t, <2>2 DEF Stall, TypeOK, JobStates, relayVars
    <2> QED
      BY <1>t, <1>4, <2>1, <2>2 DEF Fault
  <1>5. CASE UNCHANGED deliveryVars
    BY <1>t, <1>5 DEF deliveryVars, outboxVars, relayVars, TypeOK
  <1> QED
    BY <1>1, <1>2, <1>3, <1>4, <1>5 DEF DeliveryNext

-----------------------------------------------------------------------------
(* Jobs. *)

\* A job of a row that was never run is added, and not touched before its
\* start.
LEMMA JobStep ==
    ASSUME IInv, [DeliveryNext]_deliveryVars, NEW i \in Rows
    PROVE  /\ i \in ran => i \in ran'
           /\ i \notin ran' => /\ job[i] \in {"none", "waiting"}
                               /\ job'[i] \in {"none", "waiting"}
                               /\ job[i] = "waiting" => job'[i] = "waiting"
  <1>t. TypeOK /\ JobsRan /\ RelayKnows
    BY DEF IInv, DeliveryTypeOK
  <1>0. i \notin ran => job[i] \in {"none", "waiting"}
    BY <1>t DEF TypeOK, JobsRan, JobStates
  <1>1. ASSUME NEW p \in Relays, RelayStep(p), i \notin ran
        PROVE  job'[i] \in {"none", "waiting"} /\ (job[i] = "waiting" => job'[i] = "waiting")
    <2>1. CASE Remove(p)
      BY <1>t, <1>0, <1>1, <2>1 DEF Remove, TypeOK, RelayKnows
    <2>2. CASE Add(p)
      BY <1>t, <1>0, <1>1, <2>2 DEF Add, TypeOK, RelayKnows
    <2> QED
      BY <1>0, <1>1, <2>1, <2>2
         DEF RelayStep, ReleaseAged, Select, ClaimRow, Lookup, MarkPublished, MarkFailed
  <1>2. ASSUME NEW w \in Consumers, NEW j \in Rows, Start(w, j), i \notin ran'
        PROVE  job'[i] = job[i]
    BY <1>t, <1>2 DEF Start, Take, TypeOK
  <1>3. ASSUME NEW w \in Consumers, NEW j \in Rows, End(w, j), i \notin ran
        PROVE  job'[i] = job[i]
    BY <1>t, <1>3 DEF End, Settle, TypeOK, JobsRan
  <1>4. ASSUME NEW j \in Rows, Stall(j) \/ Forget(j), i \notin ran PROVE job'[i] = job[i]
    BY <1>t, <1>4 DEF Stall, Locked, Forget, TypeOK, JobsRan
  <1> QED
    BY <1>0, <1>1, <1>2, <1>3, <1>4
       DEF DeliveryNext, Insert, Rearm, Time, Age, Relay, Start, End, Fault, PublishThrows, Abort,
           deliveryVars, outboxVars

\* A job is locked only by being started.
LEMMA JobsRanStep ==
    ASSUME IInv, [DeliveryNext]_deliveryVars
    PROVE  JobsRan'
  <1> SUFFICES ASSUME NEW i \in Rows, job'[i] \in {"finished"} \cup Consumers, i \notin ran'
               PROVE  FALSE
    BY DEF JobsRan
  <1> QED
    BY JobStep, ConsumersAssumption DEF JobStates

-----------------------------------------------------------------------------
(* What a relay knows. *)

\* A row a relay is about to remove or to mark keeps its claim to have run,
\* or its waiting job, while others act.
LEMMA RelayKnowsStep ==
    ASSUME IInv, [DeliveryNext]_deliveryVars
    PROVE  RelayKnows'
  <1>t. TypeOK /\ JobsRan /\ RelayKnows
    BY DEF IInv, DeliveryTypeOK
  <1> SUFFICES ASSUME NEW p \in Relays
               PROVE  /\ rpc'[p] \in {"remove", "add", "mark", "markFailed"} => rrow'[p] \in Rows
                      /\ rpc'[p] = "remove" => rrow'[p] \in ran'
                      /\ rpc'[p] = "mark" => rrow'[p] \in ran' \/ job'[rrow'[p]] = "waiting"
    BY DEF RelayKnows
  <1> DEFINE Knows == /\ rpc'[p] \in {"remove", "add", "mark", "markFailed"} => rrow'[p] \in Rows
                      /\ rpc'[p] = "remove" => rrow'[p] \in ran'
                      /\ rpc'[p] = "mark" => rrow'[p] \in ran' \/ job'[rrow'[p]] = "waiting"
  <1>j. \A i \in Rows : /\ i \in ran => i \in ran'
                        /\ job[i] = "waiting" => i \in ran' \/ job'[i] = "waiting"
    BY JobStep
  <1>0. ASSUME rpc'[p] = rpc[p], rrow'[p] = rrow[p] PROVE Knows
    <2>1. /\ rpc[p] \in {"remove", "add", "mark", "markFailed"} => rrow[p] \in Rows
          /\ rpc[p] = "remove" => rrow[p] \in ran
          /\ rpc[p] = "mark" => rrow[p] \in ran \/ job[rrow[p]] = "waiting"
      BY <1>t DEF RelayKnows
    <2> QED
      BY <1>0, <1>j, <2>1
  <1>1. ASSUME RelayStep(p), ran' = ran PROVE Knows
    <2> USE <1>t DEF TypeOK, Goto
    <2>1. CASE ReleaseAged(p)
      BY <2>1 DEF ReleaseAged
    <2>2. CASE Select(p)
      BY <2>2 DEF Select
    <2>3. CASE ClaimRow(p)
      BY <2>3 DEF ClaimRow
    <2>4. CASE Lookup(p)
      BY <1>1, <2>4 DEF Lookup, JobsRan
    <2>5. CASE Remove(p)
      BY <2>5 DEF Remove, RelayKnows
    <2>6. CASE Add(p)
      <3>1. rrow[p] \in Rows /\ rrow' = rrow /\ rpc'[p] = "mark"
        BY <2>6 DEF Add, RelayKnows
      <3>2. job'[rrow[p]] \in {"waiting", "finished"} \cup Consumers
        BY <2>6, <3>1 DEF Add, JobStates
      <3> QED
        BY <1>1, <3>1, <3>2, JobsRanStep DEF JobsRan
    <2>7. CASE MarkPublished(p) \/ MarkFailed(p)
      BY <2>7 DEF MarkPublished, MarkFailed, NextRow
    <2> QED
      BY <1>1, <2>1, <2>2, <2>3, <2>4, <2>5, <2>6, <2>7 DEF RelayStep
  <1>2. ASSUME PublishThrows(p) \/ Abort(p) PROVE Knows
    BY <1>2, <1>t DEF PublishThrows, Abort, Goto, TypeOK, RelayKnows
  <1>3. ASSUME NEW q \in Relays, q # p, RelayStep(q) \/ PublishThrows(q) \/ Abort(q)
        PROVE  rpc'[p] = rpc[p] /\ rrow'[p] = rrow[p]
    BY <1>3, <1>t
       DEF RelayStep, ReleaseAged, Select, ClaimRow, Lookup, Remove, Add, MarkPublished,
           MarkFailed, NextRow, PublishThrows, Abort, Goto, TypeOK
  <1>4. ASSUME NEW q \in Relays, Relay(q) PROVE Knows
    BY <1>0, <1>1, <1>3, <1>4 DEF Relay
  <1>5. CASE Fault
    <2>1. ASSUME NEW i \in Rows, Stall(i) PROVE Knows
      BY <1>0, <2>1 DEF Stall, relayVars
    <2> QED
      BY <1>0, <1>2, <1>3, <1>5, <2>1 DEF Fault
  <1>6. ASSUME NEW i \in Rows, Insert(i) \/ Rearm(i) \/ Time(i) PROVE Knows
    BY <1>0, <1>6 DEF Insert, Rearm, Time, Age, Forget, relayVars
  <1>7. ASSUME NEW w \in Consumers, NEW i \in Rows, Start(w, i) \/ End(w, i) PROVE Knows
    BY <1>0, <1>7 DEF Start, End, relayVars
  <1>8. CASE UNCHANGED deliveryVars
    BY <1>0, <1>8 DEF relayVars, deliveryVars, outboxVars
  <1> QED
    BY <1>4, <1>5, <1>6, <1>7, <1>8 DEF DeliveryNext

-----------------------------------------------------------------------------
(* What is published. *)

\* Only a relay that knows publishes a row, and what it knows stays true.
LEMMA PublishedStep ==
    ASSUME IInv, [DeliveryNext]_deliveryVars
    PROVE  PublishedIsDelivered'
  <1>t. TypeOK /\ RelayKnows /\ PublishedIsDelivered
    BY DEF IInv, DeliveryTypeOK
  <1>k. TypeOK' /\ JobsRan'
    BY TypeStep, JobsRanStep DEF DeliveryTypeOK
  <1> SUFFICES ASSUME NEW i \in Rows, outbox'[i] = "PUBLISHED", i \notin ran'
               PROVE  job'[i] = "waiting"
    BY DEF PublishedIsDelivered
  <1>0. i \notin ran /\ job[i] \in {"none", "waiting"}
        /\ (job[i] = "waiting" => job'[i] = "waiting")
    BY JobStep
  <1>1. CASE outbox[i] = "PUBLISHED"
    BY <1>t, <1>0, <1>1, ConsumersAssumption DEF PublishedIsDelivered, JobStates
  <1>2. CASE outbox[i] # "PUBLISHED"
    <2>1. PICK p \in Relays : MarkPublished(p) /\ rrow[p] = i
      BY <1>t, <1>2
         DEF DeliveryNext, Insert, Enqueued, Rearm, Rearmed, Time, Age, Forget, Relay, RelayStep,
             ReleaseAged, Select, ClaimRow, Lookup, Remove, Add, MarkPublished, MarkFailed,
             Start, End, Fault, PublishThrows, Abort, Stall, deliveryVars, outboxVars, TypeOK,
             RelayKnows
    <2> QED
      BY <1>t, <1>0, <2>1 DEF MarkPublished, RelayKnows
  <1> QED
    BY <1>1, <1>2

\* Every step keeps the inductive invariant.
LEMMA NextIInv == IInv /\ [DeliveryNext]_deliveryVars => IInv'
  BY TypeStep, JobsRanStep, RelayKnowsStep, PublishedStep DEF IInv

-----------------------------------------------------------------------------
(* Theorems. *)

\* The inductive invariant holds: what a relay concluded from its look at
\* the queue is still true at each of its later steps (relay.ts).
THEOREM Invariance == DeliverySpec => []IInv
  <1> QED
    BY InitIInv, NextIInv, PTL DEF DeliverySpec

\* Rows, jobs and relays keep their types, and the bounds hold.
THEOREM DeliveryTypeCorrect == DeliverySpec => []DeliveryTypeOK
  <1>1. IInv => DeliveryTypeOK
    BY DEF IInv
  <1> QED
    BY <1>1, Invariance, PTL

\* A row is marked as published only when its job was run or waits to be,
\* for any number of relays that race, throw, lose their claims and die.
THEOREM PublishedDelivered == DeliverySpec => []PublishedIsDelivered
  <1>1. IInv => PublishedIsDelivered
    BY DEF IInv
  <1> QED
    BY <1>1, Invariance, PTL
=============================================================================
