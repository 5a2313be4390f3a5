------------------------ MODULE WebhookDeliveryProofs ------------------------
(***************************************************************************)
(* Proofs about WebhookDelivery, for any deliveries, workers, limits of    *)
(* attempts and bounds on the faults.                                      *)
(***************************************************************************)
EXTENDS WebhookDelivery, TLAPS

\* Every answer of an attempt is one of the outcomes that are recorded, and
\* an attempt that is tried again is not the last one.
LEMMA OutcomeType ==
    ASSUME NEW revision \in Nat, NEW answer \in SendAnswers
    PROVE  /\ OutcomeOf(revision, answer) \in Outcomes
           /\ OutcomeOf(revision, answer) = "RETRYABLE" => revision < AttemptLimit
  <1>1. answer \in Nat
    BY DEF SendAnswers, UrlRefused, RequestAnswers, Network
  <1>2. classifyWebhookResponse(answer) \in Outcomes \cup {"UNKNOWN"}
    BY <1>1 DEF classifyWebhookResponse, Outcomes, Network
  <1>3. revision >= AttemptLimit \/ revision < AttemptLimit
    BY AttemptLimitAssumption
  <1> QED
    BY <1>2, <1>3, AttemptLimitAssumption DEF OutcomeOf, Outcomes

\* The status an outcome leads to: PENDING after a retryable one only.
LEMMA StatusAfterType ==
    ASSUME NEW answer \in Outcomes
    PROVE  /\ StatusAfter[answer] \in {"PENDING", "SUCCEEDED", "FAILED"}
           /\ StatusAfter[answer] = "PENDING" <=> answer = "RETRYABLE"
  BY DEF StatusAfter, Outcomes

\* The delivery and the revision of a job.
LEMMA JobType ==
    ASSUME TypeOK, JobsExist, NEW w \in Workers, wpc[w] # "idle"
    PROVE  /\ wjob[w] \in rows
           /\ wjob[w] = <<DeliveryOf(w), RevisionOf(w)>>
           /\ DeliveryOf(w) \in Deliveries
           /\ RevisionOf(w) \in Nat \ {0}
           /\ status[DeliveryOf(w)] # "ABSENT"
  BY DEF TypeOK, JobsExist, Jobs, DeliveryOf, RevisionOf

\* At first there are no deliveries.
LEMMA InitIInv == Init => IInv
  <1> SUFFICES ASSUME Init PROVE IInv
    OBVIOUS
  <1>1. TypeOK
    BY MaxFaultsAssumption DEF Init, TypeOK, Statuses
  <1>2. JobsExist
    BY DEF Init, JobsExist
  <1>3. RowsNotAhead /\ LeaseCovers /\ OneAttempt /\ RowKept
    BY DEF Init, RowsNotAhead, LeaseCovers, OneAttempt, RowKept
  <1> QED
    BY <1>1, <1>2, <1>3 DEF IInv

-----------------------------------------------------------------------------
(* Types. *)

\* Every step keeps the types.
LEMMA TypeStep ==
    ASSUME IInv, [Next]_vars
    PROVE  TypeOK'
  <1>t. TypeOK /\ JobsExist
    BY DEF IInv
  <1> USE DEF deliveryVars, workerVars
  <1>1. ASSUME NEW d \in Deliveries, Prepare(d) PROVE TypeOK'
    BY <1>t, <1>1 DEF Prepare, TypeOK, Statuses, Jobs
  <1>2. ASSUME NEW d \in Deliveries, BecomeDue(d) \/ ExpireLease(d) PROVE TypeOK'
    BY <1>t, <1>2 DEF BecomeDue, ExpireLease, TypeOK
  <1>3. ASSUME NEW w \in Workers, NEW j \in rows, StartJob(w, j) PROVE TypeOK'
    BY <1>t, <1>3 DEF StartJob, Goto, TypeOK
  <1>4. ASSUME NEW w \in Workers, Claim(w) PROVE TypeOK'
    BY <1>t, <1>4 DEF Claim, Goto, TypeOK, Statuses
  <1>5. ASSUME NEW w \in Workers, ClaimRefused(w) PROVE TypeOK'
    BY <1>t, <1>5 DEF ClaimRefused, Release, Goto, TypeOK
  <1>6. ASSUME NEW w \in Workers, Deliver(w) PROVE TypeOK'
    <2>1. RevisionOf(w) \in Nat
      BY <1>t, <1>6, JobType DEF Deliver
    <2>2. \A answer \in SendAnswers : OutcomeOf(RevisionOf(w), answer) \in Outcomes
      BY <2>1, OutcomeType
    <2> QED
      BY <1>t, <1>6, <2>2 DEF Deliver, Goto, TypeOK
  <1>7. ASSUME NEW w \in Workers, Record(w) PROVE TypeOK'
    <2> DEFINE d == DeliveryOf(w)
    <2>1. /\ d \in Deliveries /\ RevisionOf(w) \in Nat
          /\ StatusAfter[wanswer[w]] \in Statuses
      BY <1>t, <1>7, JobType, StatusAfterType DEF Record, JobsExist, Statuses
    <2>2. rows' \in SUBSET Jobs
      BY <1>t, <1>7, <2>1 DEF Record, TypeOK, Jobs
    <2>3. due' \in [Deliveries -> BOOLEAN] /\ stale' \in [Deliveries -> BOOLEAN]
      BY <1>t, <1>7, <2>1 DEF Record, TypeOK
    <2> QED
      BY <1>t, <1>7, <2>1, <2>2, <2>3 DEF Record, Release, Goto, TypeOK
  <1>8. ASSUME NEW w \in Workers, Crash(w) PROVE TypeOK'
    BY <1>t, <1>8, MaxFaultsAssumption DEF Crash, Release, Goto, TypeOK
  <1>9. CASE Recover
    BY <1>t, <1>9 DEF Recover, TypeOK, Statuses
  <1>10. CASE ScanRead
    BY <1>t, <1>10 DEF ScanRead, TypeOK, Jobs
  <1>11. CASE ScanWrite
    BY <1>t, <1>11 DEF ScanWrite, TypeOK
  <1>12. CASE UNCHANGED vars
    BY <1>t, <1>12 DEF vars, TypeOK
  <1> QED
    BY <1>1, <1>2, <1>3, <1>4, <1>5, <1>6, <1>7, <1>8, <1>9, <1>10, <1>11, <1>12 DEF Next, Handle

-----------------------------------------------------------------------------
(* Jobs and rows. *)

\* The end of a job, whichever it is.
LEMMA ReleaseStep ==
    ASSUME TypeOK, NEW w \in Workers, Release(w)
    PROVE  /\ wpc'[w] = "idle" /\ ~fresh'[w]
           /\ \A v \in Workers \ {w} : /\ wpc'[v] = wpc[v] /\ wjob'[v] = wjob[v]
                                       /\ wanswer'[v] = wanswer[v] /\ fresh'[v] = fresh[v]
  BY DEF TypeOK, Release, Goto

\* What the record of an attempt does to its delivery, and to no other.
LEMMA RecordStep ==
    ASSUME IInv, NEW w \in Workers, Record(w)
    PROVE  /\ Release(w)
           /\ attempts' = [attempts EXCEPT ![DeliveryOf(w)] = attempts[DeliveryOf(w)] + 1]
           /\ stale'[DeliveryOf(w)] = (stale[DeliveryOf(w)] \/ ~fresh[w])
           /\ status'[DeliveryOf(w)] \in {"PENDING", "SUCCEEDED", "FAILED"}
           /\ status'[DeliveryOf(w)] = "PENDING" =>
                rows' = rows \cup {<<DeliveryOf(w), RevisionOf(w) + 1>>}
           /\ rows' \subseteq rows \cup {<<DeliveryOf(w), RevisionOf(w) + 1>>}
           /\ rows \subseteq rows'
           /\ \A d \in Deliveries \ {DeliveryOf(w)} :
                status'[d] = status[d] /\ stale'[d] = stale[d] /\ leased'[d] = leased[d]
           /\ scan' = scan
  <1>1. TypeOK /\ JobsExist /\ wanswer[w] \in Outcomes
    BY DEF IInv, Record, JobsExist
  <1>2. DeliveryOf(w) \in Deliveries
    BY <1>1, JobType DEF Record
  <1> QED
    BY <1>1, <1>2, StatusAfterType DEF Record, TypeOK

\* Jobs are of rows, and rows of deliveries that exist.
LEMMA JobsStep ==
    ASSUME IInv, [Next]_vars
    PROVE  JobsExist'
  <1>t. TypeOK /\ JobsExist
    BY DEF IInv
  <1> USE DEF deliveryVars, workerVars
  <1>1. ASSUME NEW d \in Deliveries, Prepare(d) PROVE JobsExist'
    BY <1>t, <1>1 DEF Prepare, TypeOK, Jobs, JobsExist
  <1>2. ASSUME NEW d \in Deliveries, BecomeDue(d) \/ ExpireLease(d) PROVE JobsExist'
    BY <1>t, <1>2 DEF BecomeDue, ExpireLease, TypeOK, JobsExist
  <1>3. ASSUME NEW w \in Workers, NEW j \in rows, StartJob(w, j) PROVE JobsExist'
    BY <1>t, <1>3 DEF StartJob, Goto, TypeOK, JobsExist
  <1>4. ASSUME NEW w \in Workers, Claim(w) PROVE JobsExist'
    <2>1. /\ status'[DeliveryOf(w)] = "PROCESSING"
          /\ \A d \in Deliveries \ {DeliveryOf(w)} : status'[d] = status[d]
      BY <1>t, <1>4, JobType DEF Claim, TypeOK
    <2>2. \A j \in rows \cup scan : j[1] \in Deliveries
      BY <1>t DEF TypeOK, Jobs
    <2>3. \A j \in rows' \cup scan' : status'[j[1]] # "ABSENT"
      BY <1>t, <1>4, <2>1, <2>2 DEF Claim, JobsExist
    <2>4. \A d \in Deliveries : status'[d] = "ABSENT" => attempts'[d] = 0
      BY <1>t, <1>4, <2>1 DEF Claim, JobsExist
    <2> QED
      BY <1>t, <1>4, <2>3, <2>4 DEF Claim, Goto, TypeOK, JobsExist
  <1>5. ASSUME NEW w \in Workers, Release(w), UNCHANGED <<status, attempts, rows, scan>>
        PROVE  JobsExist'
    BY <1>t, <1>5, ReleaseStep DEF JobsExist
  <1>6. ASSUME NEW w \in Workers, Deliver(w) PROVE JobsExist'
    <2>1. RevisionOf(w) \in Nat
      BY <1>t, <1>6, JobType DEF Deliver
    <2>2. \A answer \in SendAnswers : OutcomeOf(RevisionOf(w), answer) \in Outcomes
      BY <2>1, OutcomeType
    <2> QED
      BY <1>t, <1>6, <2>2 DEF Deliver, Goto, TypeOK, JobsExist
  <1>7. ASSUME NEW w \in Workers, Record(w) PROVE JobsExist'
    <2>1. DeliveryOf(w) \in Deliveries /\ status[DeliveryOf(w)] # "ABSENT"
      BY <1>t, <1>7, JobType DEF Record
    <2>2. \A j \in rows \cup scan : j[1] \in Deliveries
      BY <1>t DEF TypeOK, Jobs
    <2>3. \A j \in rows' \cup scan' : status'[j[1]] # "ABSENT"
      BY <1>t, <1>7, <2>1, <2>2, RecordStep DEF JobsExist
    <2>4. \A d \in Deliveries : status'[d] = "ABSENT" => attempts'[d] = 0
      BY <1>t, <1>7, <2>1, RecordStep DEF JobsExist, TypeOK
    <2> QED
      BY <1>t, <1>7, <2>3, <2>4, RecordStep, ReleaseStep DEF JobsExist
  <1>8. CASE Recover
    BY <1>t, <1>8 DEF Recover, TypeOK, Jobs, JobsExist
  <1>9. CASE ScanRead
    BY <1>t, <1>9 DEF ScanRead, JobsExist
  <1>10. CASE ScanWrite
    BY <1>t, <1>10 DEF ScanWrite, JobsExist
  <1>11. CASE UNCHANGED vars
    BY <1>t, <1>11 DEF vars, JobsExist
  <1> QED
    BY <1>1, <1>2, <1>3, <1>4, <1>5, <1>6, <1>7, <1>8, <1>9, <1>10, <1>11
       DEF Next, Handle, ClaimRefused, Crash

\* Attempts are counted and never taken back, and a row is made for the
\* attempt after a job's own or after those a scan read of.
LEMMA RowsStep ==
    ASSUME IInv, [Next]_vars
    PROVE  RowsNotAhead'
  <1>t. TypeOK /\ JobsExist /\ RowsNotAhead
    BY DEF IInv
  <1> USE DEF deliveryVars, workerVars
  <1>j. \A j \in rows \cup scan : j[1] \in Deliveries /\ j[2] \in Nat
    BY <1>t DEF TypeOK, Jobs
  <1>1. ASSUME NEW d \in Deliveries, Prepare(d) PROVE RowsNotAhead'
    BY <1>t, <1>1 DEF Prepare, JobsExist, RowsNotAhead
  <1>2. ASSUME NEW w \in Workers, Record(w) PROVE RowsNotAhead'
    <2>1. /\ wjob[w] \in rows /\ wjob[w] = <<DeliveryOf(w), RevisionOf(w)>>
          /\ DeliveryOf(w) \in Deliveries /\ RevisionOf(w) \in Nat
      BY <1>t, <1>2, JobType DEF Record
    <2>2. RevisionOf(w) <= attempts[DeliveryOf(w)] + 1
      BY <1>t, <2>1 DEF RowsNotAhead
    <2>3. \A j \in rows \cup scan : j[2] <= attempts'[j[1]] + 1
      BY <1>t, <1>j, <1>2, RecordStep DEF RowsNotAhead, TypeOK
    <2>4. RevisionOf(w) + 1 <= attempts'[DeliveryOf(w)] + 1
      BY <1>t, <1>2, <2>1, <2>2, RecordStep DEF TypeOK
    <2> QED
      BY <1>2, <2>3, <2>4, RecordStep DEF RowsNotAhead
  <1>3. CASE ScanRead
    BY <1>t, <1>3 DEF ScanRead, RowsNotAhead, TypeOK
  <1>4. CASE ScanWrite
    BY <1>t, <1>4 DEF ScanWrite, RowsNotAhead
  <1>5. CASE UNCHANGED <<attempts, rows, scan>>
    BY <1>t, <1>5 DEF RowsNotAhead
  <1> QED
    BY <1>1, <1>2, <1>3, <1>4, <1>5
       DEF Next, Handle, BecomeDue, ExpireLease, StartJob, Claim, ClaimRefused, Deliver, Crash,
           Recover, vars

-----------------------------------------------------------------------------
(* Leases. *)

\* A step gives nobody but the worker that claims a delivery a lease.
LEMMA FreshStep ==
    ASSUME IInv, [Next]_vars, NEW w \in Workers, fresh'[w]
    PROVE  \/ fresh[w] /\ wjob'[w] = wjob[w] /\ wpc[w] # "idle"
           \/ Claim(w) /\ wjob'[w] = wjob[w] /\ wpc[w] # "idle"
  <1>t. TypeOK /\ JobsExist
    BY DEF IInv
  <1>1. ASSUME NEW v \in Workers, Release(v) PROVE fresh[w] /\ wjob'[w] = wjob[w]
    BY <1>t, <1>1, ReleaseStep
  <1>2. ASSUME NEW v \in Workers, Claim(v) PROVE (fresh[w] \/ v = w) /\ wjob'[w] = wjob[w]
    BY <1>t, <1>2 DEF Claim, TypeOK
  <1>3. ASSUME NEW v \in Workers, NEW j \in rows, StartJob(v, j)
        PROVE  fresh[w] /\ wjob'[w] = wjob[w]
    BY <1>t, <1>3 DEF StartJob, TypeOK, JobsExist
  <1>4. fresh[w] => wpc[w] # "idle"
    BY <1>t DEF JobsExist
  <1>5. Claim(w) => wpc[w] # "idle"
    BY DEF Claim
  <1> QED
    BY <1>1, <1>2, <1>3, <1>4, <1>5
       DEF Next, Handle, Prepare, BecomeDue, ExpireLease, ClaimRefused, Deliver, Record, Crash,
           Recover, ScanRead, ScanWrite, vars, deliveryVars, workerVars

\* Nobody is inside a lease on a delivery that is not being processed, if no
\* record came late.
LEMMA NobodyInLease ==
    ASSUME IInv, NEW d \in Deliveries, ~stale[d], status[d] # "PROCESSING" \/ ~leased[d]
    PROVE  \A w \in Workers : fresh[w] => DeliveryOf(w) # d
  BY DEF IInv, LeaseCovers

\* Inside a lease nobody else claims or recovers, and only a late record counts.
LEMMA LeaseStep ==
    ASSUME IInv, [Next]_vars
    PROVE  LeaseCovers'
  <1>t. TypeOK /\ JobsExist /\ LeaseCovers /\ OneAttempt
    BY DEF IInv
  <1> USE DEF deliveryVars, workerVars
  <1> SUFFICES ASSUME NEW w \in Workers, fresh'[w], ~stale'[DeliveryOf(w)']
               PROVE  /\ status'[DeliveryOf(w)'] = "PROCESSING"
                      /\ leased'[DeliveryOf(w)']
                      /\ attempts'[DeliveryOf(w)'] = RevisionOf(w)' - 1
    BY DEF LeaseCovers
  <1>0. /\ wjob'[w] = wjob[w] /\ wpc[w] # "idle"
        /\ DeliveryOf(w)' = DeliveryOf(w) /\ RevisionOf(w)' = RevisionOf(w)
        /\ fresh[w] \/ Claim(w)
    BY FreshStep DEF DeliveryOf, RevisionOf
  <1> DEFINE d == DeliveryOf(w)
  <1>d. d \in Deliveries /\ status[d] # "ABSENT" /\ RevisionOf(w) \in Nat
    BY <1>t, <1>0, JobType
  <1>1. CASE Claim(w)
    BY <1>t, <1>0, <1>d, <1>1 DEF Claim, Claimable, TypeOK
  <1>2. ASSUME ~Claim(w) PROVE fresh[w] /\ ~stale[d] /\ status[d] = "PROCESSING" /\ leased[d]
                                /\ attempts[d] = RevisionOf(w) - 1
    <2>1. stale[d] => stale'[d]
      <3>1. ASSUME NEW v \in Workers, Record(v) PROVE stale[d] => stale'[d]
        BY <1>d, <3>1, RecordStep
      <3> QED
        BY <3>1 DEF Next, Handle, Prepare, BecomeDue, ExpireLease, StartJob, Claim, ClaimRefused,
                    Deliver, Crash, Recover, ScanRead, ScanWrite, vars
    <2> QED
      BY <1>t, <1>0, <1>2, <2>1 DEF LeaseCovers
  <1>3. ASSUME NEW e \in Deliveries, ~Claim(w), Prepare(e) PROVE status'[d] = "PROCESSING"
    BY <1>t, <1>2, <1>3 DEF Prepare, TypeOK
  <1>4. ASSUME NEW e \in Deliveries, ~Claim(w), ExpireLease(e) PROVE leased'[d]
    BY <1>t, <1>2, <1>4 DEF ExpireLease, TypeOK, DeliveryOf
  <1>5. ASSUME NEW v \in Workers, ~Claim(w), Claim(v)
        PROVE  status'[d] = "PROCESSING" /\ leased'[d] /\ attempts'[d] = attempts[d]
    BY <1>t, <1>d, <1>2, <1>5 DEF Claim, TypeOK
  <1>6. ASSUME NEW v \in Workers, ~Claim(w), Record(v)
        PROVE  status'[d] = "PROCESSING" /\ leased'[d] /\ attempts'[d] = attempts[d]
    <2>1. v # w
      BY <1>t, <1>6, RecordStep, ReleaseStep
    <2>2. DeliveryOf(v) # d
      BY <1>t, <1>0, <1>d, <1>2, <1>6, <2>1, RecordStep DEF OneAttempt
    <2> QED
      BY <1>t, <1>d, <1>2, <1>6, <2>2, RecordStep DEF TypeOK
  <1>7. ASSUME ~Claim(w), Recover PROVE status'[d] = "PROCESSING" /\ leased'[d]
    BY <1>d, <1>2, <1>7 DEF Recover, Expired
  <1> QED
    BY <1>0, <1>1, <1>2, <1>3, <1>4, <1>5, <1>6, <1>7
       DEF Next, Handle, Prepare, BecomeDue, ExpireLease, StartJob, ClaimRefused, Deliver, Crash,
           Recover, ScanRead, ScanWrite, vars

\* A second copy of a job finds the delivery claimed or its attempt counted.
LEMMA OneAttemptStep ==
    ASSUME IInv, [Next]_vars
    PROVE  OneAttempt'
  <1>t. TypeOK /\ JobsExist /\ OneAttempt
    BY DEF IInv
  <1> SUFFICES ASSUME NEW v \in Workers, NEW w \in Workers, fresh'[v], fresh'[w],
                      DeliveryOf(v)' = DeliveryOf(w)', ~stale'[DeliveryOf(w)']
               PROVE  v = w /\ attempts'[DeliveryOf(w)'] = RevisionOf(w)' - 1
    BY DEF OneAttempt
  <1>1. attempts'[DeliveryOf(w)'] = RevisionOf(w)' - 1
    BY LeaseStep DEF LeaseCovers
  <1>2. /\ DeliveryOf(v)' = DeliveryOf(v) /\ DeliveryOf(w)' = DeliveryOf(w)
        /\ fresh[v] \/ Claim(v)
        /\ fresh[w] \/ Claim(w)
        /\ DeliveryOf(w) \in Deliveries
    BY <1>t, FreshStep, JobType DEF DeliveryOf
  <1>3. CASE fresh[v] /\ fresh[w] /\ ~stale[DeliveryOf(w)]
    BY <1>t, <1>1, <1>2, <1>3 DEF OneAttempt
  <1>4. stale[DeliveryOf(w)] => stale'[DeliveryOf(w)]
    <2>1. ASSUME NEW u \in Workers, Record(u) PROVE stale[DeliveryOf(w)] => stale'[DeliveryOf(w)]
      BY <1>2, <2>1, RecordStep
    <2> QED
      BY <2>1 DEF Next, Handle, Prepare, BecomeDue, ExpireLease, StartJob, Claim, ClaimRefused,
                  Deliver, Crash, Recover, ScanRead, ScanWrite, vars
  <1>5. ASSUME NEW a \in Workers, NEW b \in Workers, Claim(a), fresh[b],
               DeliveryOf(b) = DeliveryOf(a), DeliveryOf(a) = DeliveryOf(w)
        PROVE  FALSE
    BY <1>2, <1>4, <1>5, NobodyInLease DEF Claim, Claimable
  <1>6. ASSUME Claim(v), Claim(w) PROVE v = w
    <2>1. wpc' = [wpc EXCEPT ![v] = "deliver"] /\ wpc' = [wpc EXCEPT ![w] = "deliver"]
          /\ wpc[v] = "claim" /\ wpc[w] = "claim"
      BY <1>6 DEF Claim, Goto
    <2> QED
      BY <1>t, <2>1 DEF TypeOK
  <1> QED
    BY <1>1, <1>2, <1>3, <1>4, <1>5, <1>6

-----------------------------------------------------------------------------
(* The row of the next attempt. *)

\* A delivery returns to PENDING with the row of its next attempt.
LEMMA RowKeptStep ==
    ASSUME IInv, [Next]_vars
    PROVE  RowKept'
  <1>t. TypeOK /\ JobsExist /\ RowKept
    BY DEF IInv
  <1> USE DEF deliveryVars, workerVars
  <1> SUFFICES ASSUME NEW d \in Deliveries, status'[d] \in {"PENDING", "PROCESSING"}, ~stale'[d]
               PROVE  <<d, attempts'[d] + 1>> \in rows'
    BY DEF RowKept, Waiting
  <1>1. ASSUME rows \subseteq rows', attempts'[d] = attempts[d], stale'[d] = stale[d],
               status[d] \in {"PENDING", "PROCESSING"}
        PROVE  <<d, attempts'[d] + 1>> \in rows'
    BY <1>t, <1>1 DEF RowKept, Waiting
  <1>2. ASSUME NEW e \in Deliveries, Prepare(e) PROVE <<d, attempts'[d] + 1>> \in rows'
    <2>1. CASE e = d
      BY <1>t, <1>2, <2>1 DEF Prepare, JobsExist
    <2>2. CASE e # d
      BY <1>t, <1>1, <1>2, <2>2 DEF Prepare, TypeOK
    <2> QED
      BY <2>1, <2>2
  <1>3. ASSUME NEW w \in Workers, Claim(w) PROVE <<d, attempts'[d] + 1>> \in rows'
    <2>1. status[d] \in {"PENDING", "PROCESSING"}
      BY <1>t, <1>3 DEF Claim, Claimable, TypeOK
    <2> QED
      BY <1>1, <1>3, <2>1 DEF Claim
  <1>4. ASSUME NEW w \in Workers, Record(w) PROVE <<d, attempts'[d] + 1>> \in rows'
    <2>1. CASE DeliveryOf(w) = d
      <3>1. fresh[w] /\ ~stale[d]
        BY <1>4, <2>1, RecordStep
      <3>2. attempts[d] = RevisionOf(w) - 1 /\ RevisionOf(w) \in Nat
        BY <1>t, <1>4, <2>1, <3>1, JobType DEF IInv, LeaseCovers, Record
      <3>3. attempts'[d] + 1 = RevisionOf(w) + 1
        BY <1>t, <1>4, <2>1, <3>2, RecordStep DEF TypeOK
      <3>4. status'[d] = "PENDING"
        BY <1>4, <2>1, RecordStep
      <3> QED
        BY <1>4, <2>1, <3>3, <3>4, RecordStep
    <2>2. CASE DeliveryOf(w) # d
      BY <1>t, <1>1, <1>4, <2>2, RecordStep DEF TypeOK
    <2> QED
      BY <2>1, <2>2
  <1>5. CASE Recover
    BY <1>1, <1>5 DEF Recover, Expired
  <1> QED
    BY <1>1, <1>2, <1>3, <1>4, <1>5
       DEF Next, Handle, BecomeDue, ExpireLease, StartJob, ClaimRefused, Deliver, Crash,
           ScanRead, ScanWrite, vars

-----------------------------------------------------------------------------
(* What follows for every behavior. *)

\* Every step keeps the inductive invariant.
LEMMA NextIInv == IInv /\ [Next]_vars => IInv'
  BY TypeStep, JobsStep, RowsStep, LeaseStep, OneAttemptStep, RowKeptStep DEF IInv

\* The inductive invariant holds: a delivery's rows, its count of attempts and
\* the leases of its workers stay in step.
THEOREM Invariance == Spec => []IInv
  BY InitIInv, NextIInv, PTL DEF Spec

\* Type correctness of the deliveries.
THEOREM TypeCorrect == Spec => []TypeOK
  <1>1. IInv => TypeOK
    BY DEF IInv
  <1> QED
    BY <1>1, Invariance, PTL

\* No job is ahead of the attempts its delivery has had.
THEOREM JobsNotAhead == Spec => []RowsNotAhead
  <1>1. IInv => RowsNotAhead
    BY DEF IInv
  <1> QED
    BY <1>1, Invariance, PTL

\* The retry of a delivery is in the outbox, whatever scans do, unless an
\* attempt was recorded late.
THEOREM RetryIsEnqueued == Spec => []RetryEnqueued
  <1>1. IInv => RetryEnqueued
    BY DEF IInv, RowKept, RetryEnqueued
  <1> QED
    BY <1>1, Invariance, PTL

\* Of any number of copies of a job, at most one makes its attempt within a
\* lease, and that attempt is the next one to be counted.
THEOREM OneAttemptAtATime == Spec => []OneAttempt
  <1>1. IInv => OneAttempt
    BY DEF IInv
  <1> QED
    BY <1>1, Invariance, PTL

\* An ended delivery changes only if an attempt is recorded after its lease.
THEOREM EndedStays == Spec => EndedIsFinalInLease
  <1>1. ASSUME IInv, [Next]_vars, NEW d \in Deliveries, status[d] \in Ended, ~stale'[d]
        PROVE  status'[d] = status[d]
    <2>t. TypeOK /\ JobsExist
      BY <1>1 DEF IInv
    <2> USE DEF deliveryVars, workerVars, Ended
    <2>1. ASSUME NEW e \in Deliveries, Prepare(e) PROVE status'[d] = status[d]
      BY <1>1, <2>t, <2>1 DEF Prepare, TypeOK
    <2>2. ASSUME NEW w \in Workers, Claim(w) PROVE status'[d] = status[d]
      BY <1>1, <2>t, <2>2 DEF Claim, Claimable, TypeOK
    <2>3. ASSUME NEW w \in Workers, Record(w) PROVE status'[d] = status[d]
      <3>1. CASE DeliveryOf(w) = d
        BY <1>1, <2>3, <3>1, RecordStep, NobodyInLease
      <3>2. CASE DeliveryOf(w) # d
        BY <1>1, <2>3, <3>2, RecordStep
      <3> QED
        BY <3>1, <3>2
    <2>4. CASE Recover
      BY <1>1, <2>4 DEF Recover, Expired
    <2> QED
      BY <1>1, <2>1, <2>2, <2>3, <2>4
         DEF Next, Handle, BecomeDue, ExpireLease, StartJob, ClaimRefused, Deliver, Crash,
             ScanRead, ScanWrite, vars
  <1>2. IInv /\ [Next]_vars =>
          [\A d \in Deliveries : status[d] \in Ended /\ ~stale'[d] => status'[d] = status[d]]_vars
    BY <1>1
  <1> QED
    BY <1>2, Invariance, PTL DEF Spec, EndedIsFinalInLease
=============================================================================
