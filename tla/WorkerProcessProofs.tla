------------------------- MODULE WorkerProcessProofs -------------------------
(***************************************************************************)
(* Proofs about WorkerProcess, for any finite set of rows, any limits, and *)
(* any number of signals, crashes and outages.                             *)
(***************************************************************************)
EXTENDS WorkerProcess, FiniteSetTheorems, TLAPS

-----------------------------------------------------------------------------
(* A batch. *)

\* The n least of a finite set of numbers are n at most: each has its own
\* rank below n.
LEMMA OldestBounded ==
    ASSUME NEW S, S \subseteq Nat, IsFiniteSet(S), NEW n \in Nat
    PROVE  /\ Oldest(S, n) \subseteq S
           /\ IsFiniteSet(Oldest(S, n))
           /\ Cardinality(Oldest(S, n)) <= n
  <1> DEFINE Below(i) == {j \in S : j < i}
             rank == [i \in Oldest(S, n) |-> Cardinality(Below(i))]
  <1>1. Oldest(S, n) \subseteq S
    BY DEF Oldest
  <1>2. ASSUME NEW i \in S PROVE IsFiniteSet(Below(i)) /\ Cardinality(Below(i)) \in Nat
    BY FS_Subset, FS_CardinalityType
  <1>3. \A i \in Oldest(S, n) : rank[i] \in 0..(n - 1)
    BY <1>1, <1>2 DEF Oldest
  <1>4. ASSUME NEW i \in S, NEW j \in S, i < j
        PROVE  Cardinality(Below(i)) # Cardinality(Below(j))
    <2>1. Below(i) \in SUBSET Below(j) /\ i \in Below(j) /\ i \notin Below(i)
      <3>1. \A k \in S : k < i => k < j
        BY <1>4
      <3>2. ~(i < i)
        BY <1>4
      <3> QED
        BY <1>4, <3>1, <3>2
    <2>2. IsFiniteSet(Below(j))
      BY <1>2
    <2> HIDE DEF Below
    <2> QED
      BY <2>1, <2>2, FS_Subset
  <1>5. rank \in Injection(Oldest(S, n), 0..(n - 1))
    <2>1. rank \in [Oldest(S, n) -> 0..(n - 1)]
      BY <1>3
    <2>2. ASSUME NEW i \in Oldest(S, n), NEW j \in Oldest(S, n), rank[i] = rank[j] PROVE i = j
      <3>1. i \in S /\ j \in S /\ i \in Nat /\ j \in Nat
        BY <1>1
      <3>2. Cardinality(Below(i)) = Cardinality(Below(j))
        BY <2>2
      <3> HIDE DEF Below
      <3>3. i = j \/ i < j \/ j < i
        BY <3>1
      <3> QED
        BY <1>4, <3>1, <3>2, <3>3
    <2> QED
      BY <2>1, <2>2 DEF Injection, IsInjective
  <1>6. IsFiniteSet(0..(n - 1)) /\ Cardinality(0..(n - 1)) = n
    BY FS_Interval
  <1>7. Cardinality(Oldest(S, n)) <= Cardinality(0..(n - 1))
    BY <1>5, <1>6, FS_Injection
  <1> QED
    BY <1>1, <1>6, <1>7, FS_Subset

-----------------------------------------------------------------------------
(* Types. *)

\* At first the process is up and there are no rows.
LEMMA InitIInv == Init => IInv
  <1> SUFFICES ASSUME Init PROVE IInv
    OBVIOUS
  <1>1. TypeOK
    <2>1. Cardinality(round) <= BatchSize /\ faults \in 0..MaxFaults
      BY LimitsAssumption, MaxFaultsAssumption, FS_EmptySet DEF Init
    <2>2. /\ redis \in BOOLEAN /\ scheduled \in BOOLEAN
          /\ late \in BOOLEAN /\ disconnected \in BOOLEAN
      BY DEF Init
    <2> QED
      BY <2>1, <2>2 DEF Init, TypeOK
  <1> QED
    BY <1>1, RowsAssumption DEF IInv, Init, JobsPublishable, StopOrder

\* What a round may hold, whatever is due.
LEMMA BatchBounded ==
    ASSUME NEW due, due \subseteq Rows
    PROVE  Batch(due) \subseteq due /\ Cardinality(Batch(due)) <= BatchSize
  <1>1. due \subseteq Nat /\ IsFiniteSet(due)
    BY RowsAssumption, FS_Subset
  <1> QED
    BY <1>1, OldestBounded, LimitsAssumption DEF Batch

\* Every step keeps the types and the limit of a batch.
LEMMA TypeStep ==
    ASSUME IInv, [Next]_vars
    PROVE  TypeOK'
  <1>t. TypeOK /\ JobsPublishable /\ StopOrder
    BY DEF IInv
  <1> USE DEF TypeOK, processVars
  <1>1. ASSUME NEW i \in Rows, Insert(i) \/ Take(i) \/ EndJob(i) \/ Age(i) PROVE TypeOK'
    <2>1. CASE Insert(i)
      BY <1>t, <2>1 DEF Insert
    <2>2. CASE Take(i)
      BY <1>t, <2>2 DEF Take
    <2>3. CASE EndJob(i)
      BY <1>t, <2>3 DEF EndJob, JobsPublishable
    <2>4. CASE Age(i)
      BY <1>t, <2>4 DEF Age
    <2> QED
      BY <1>1, <2>1, <2>2, <2>3, <2>4
  <1>2. CASE Tick
    <2> DEFINE released == {i \in aged : row[i] = "CLAIMED"}
               due == released \cup {i \in Rows : row[i] \in {"PENDING", "FAILED"}}
    <2>1. due \subseteq Rows
      BY <1>t
    <2>2. round' \subseteq Rows /\ Cardinality(round') <= BatchSize
      BY <1>2, <2>1, BatchBounded DEF Tick
    <2>3. row' = [i \in Rows |-> IF i \in round' THEN "CLAIMED"
                               ELSE IF i \in released THEN "PENDING" ELSE row[i]]
      BY <1>2 DEF Tick
    <2>4. /\ row' \in [Rows -> {"NONE", "PENDING", "CLAIMED", "PUBLISHED", "FAILED"}]
          /\ round' \subseteq {i \in Rows : row'[i] = "CLAIMED"}
      BY <1>t, <2>2, <2>3
    <2> QED
      BY <1>t, <1>2, <2>2, <2>4 DEF Tick
  <1>3. CASE PublishRow
    <2> DEFINE i == Min(round)
    <2> HIDE DEF i
    <2>1. /\ round' = round \ {i}
          /\ aged' = aged \ {i}
          /\ \/ row' = [row EXCEPT ![i] = "FAILED"] /\ UNCHANGED job
             \/ /\ row' = [row EXCEPT ![i] = "PUBLISHED"]
                /\ job' = [job EXCEPT ![i] = IF @ \in {"none", "finished"} THEN "waiting" ELSE @]
      BY <1>3 DEF PublishRow, i
    <2>2. IsFiniteSet(round)
      BY <1>t, RowsAssumption, FS_Subset
    <2>3. Cardinality(round') <= BatchSize
      <3>1. Cardinality(round) \in Nat
        BY <2>2, FS_CardinalityType
      <3> QED
        <4>1. Cardinality(round \ {i}) \in {Cardinality(round) - 1, Cardinality(round)}
          BY <2>2, FS_RemoveElement
        <4>2. Cardinality(round) <= BatchSize /\ BatchSize \in Nat
          BY <1>t, LimitsAssumption
        <4> QED
          BY <2>1, <3>1, <4>1, <4>2
    <2>4. /\ row' \in [Rows -> {"NONE", "PENDING", "CLAIMED", "PUBLISHED", "FAILED"}]
          /\ job' \in [Rows -> {"none", "waiting", "active", "finished"}]
      BY <1>t, <2>1
    <2>5. round' \subseteq {j \in Rows : row'[j] = "CLAIMED"}
      BY <1>t, <2>1
    <2> QED
      BY <1>t, <1>3, <2>1, <2>3, <2>4, <2>5 DEF PublishRow
  <1>4. CASE EndRound \/ Signal \/ StopStep \/ StopFails
    BY <1>t, <1>4, MaxFaultsAssumption DEF EndRound, Signal, StopStep, StopFails
  <1>5. CASE Scan
    BY <1>t, <1>5 DEF Scan
  <1>6. CASE Timeout \/ Disconnect
    BY <1>t, <1>6 DEF Timeout, Disconnect
  <1>7. ASSUME Gone, faults' \in 0..MaxFaults PROVE TypeOK'
    <2>1. Cardinality(round') <= BatchSize
      BY <1>7, FS_EmptySet, LimitsAssumption DEF Gone
    <2> QED
      BY <1>t, <1>7, <2>1 DEF Gone
  <1>8. CASE Exit
    BY <1>t, <1>7, <1>8 DEF Exit
  <1>9. CASE Start \/ RedisReturns \/ StartScheduler
    BY <1>t, <1>9 DEF Start, RedisReturns, StartScheduler
  <1>10. CASE Fault
    <2>1. faults' \in 0..MaxFaults
      BY <1>t, <1>10, MaxFaultsAssumption DEF Fault
    <2>2. CASE RedisFault
      BY <1>t, <2>1, <2>2 DEF RedisFault
    <2>3. ASSUME NEW i \in Rows, EndInVain(i) PROVE TypeOK'
      BY <1>t, <2>1, <2>3 DEF EndInVain
    <2> QED
      BY <1>7, <1>10, <2>1, <2>2, <2>3 DEF Fault
  <1>11. CASE UNCHANGED vars
    BY <1>t, <1>11 DEF vars
  <1> QED
    BY <1>1, <1>2, <1>3, <1>4, <1>5, <1>6, <1>8, <1>9, <1>10, <1>11 DEF Next

-----------------------------------------------------------------------------
(* Jobs and shutdown. *)

\* A row that cannot be published throws before its job is added.
LEMMA JobsStep ==
    ASSUME IInv, [Next]_vars
    PROVE  JobsPublishable'
  <1>t. TypeOK /\ JobsPublishable /\ Poison \subseteq Rows
    BY RowsAssumption DEF IInv
  <1> SUFFICES ASSUME NEW i \in Poison PROVE job'[i] = "none"
    BY DEF JobsPublishable
  <1>0. job[i] = "none" /\ i \in Rows
    BY <1>t DEF JobsPublishable
  <1>1. CASE PublishRow
    BY <1>t, <1>0, <1>1 DEF PublishRow, TypeOK
  <1>2. ASSUME NEW j \in Rows, Take(j) \/ EndJob(j) \/ EndInVain(j) PROVE job'[i] = "none"
    BY <1>t, <1>0, <1>2 DEF Take, EndJob, EndInVain, TypeOK
  <1>3. CASE RedisFault \/ Gone
    BY <1>0, <1>3 DEF RedisFault, Gone
  <1> QED
    BY <1>0, <1>1, <1>2, <1>3
       DEF Next, Insert, Age, Tick, EndRound, Scan, Signal, StopStep, StopFails, Timeout, Disconnect,
           Exit, Start, RedisReturns, StartScheduler, Fault, vars

\* The stop function goes from step to step, and nothing it stopped starts again.
LEMMA StopStepOrder ==
    ASSUME IInv, [Next]_vars
    PROVE  StopOrder'
  <1>t. TypeOK /\ StopOrder
    BY DEF IInv
  <1> USE DEF StopOrder, processVars
  <1>1. ASSUME NEW i \in Rows, Insert(i) \/ Take(i) \/ EndJob(i) \/ Age(i) PROVE StopOrder'
    BY <1>t, <1>1 DEF Insert, Take, TakesJobs, EndJob, Age, TypeOK
  <1>2. CASE Tick \/ EndRound
    BY <1>t, <1>2 DEF Tick, EndRound, TypeOK
  <1>3. CASE PublishRow
    BY <1>t, <1>3 DEF PublishRow
  <1>4. CASE Scan \/ RedisReturns \/ StartScheduler \/ Start
    BY <1>t, <1>4 DEF Scan, RedisReturns, StartScheduler, Start
  <1>5. CASE Signal \/ Timeout \/ Disconnect
    BY <1>t, <1>5 DEF Signal, Timeout, Disconnect
  <1>6. CASE StopStep \/ StopFails
    BY <1>t, <1>6 DEF StopStep, StopFails, RelayStopped
  <1>7. CASE Gone
    BY <1>7 DEF Gone
  <1>8. CASE RedisFault
    BY <1>t, <1>8 DEF RedisFault
  <1>9. ASSUME NEW i \in Rows, EndInVain(i) PROVE StopOrder'
    BY <1>t, <1>9 DEF EndInVain, TypeOK
  <1>10. CASE UNCHANGED vars
    BY <1>t, <1>10 DEF vars
  <1> QED
    BY <1>1, <1>2, <1>3, <1>4, <1>5, <1>6, <1>7, <1>8, <1>9, <1>10 DEF Next, Exit, Fault

\* Every step keeps the inductive invariant.
LEMMA NextIInv == IInv /\ [Next]_vars => IInv'
  BY TypeStep, JobsStep, StopStepOrder DEF IInv

-----------------------------------------------------------------------------
(* Theorems. *)

\* The inductive invariant holds: the relay is stopped before the workers, the
\* database goes only when stop has ended, has failed or is late, and only what
\* can be published becomes a job.
THEOREM Invariance == Spec => []IInv
  <1> QED
    BY InitIInv, NextIInv, PTL DEF Spec

\* Types hold; a round holds claimed rows, BatchSize of them at most; and a
\* run whose row cannot be published is never done.
THEOREM TypeCorrect == Spec => []TypeOK
  <1>1. IInv => TypeOK
    BY DEF IInv
  <1> QED
    BY <1>1, Invariance, PTL

\* A shutdown within its ten seconds leaves no round running, even if stop
\* failed, and no job unless it did (createShutdown).
THEOREM StoppedIsQuiet == Spec => []QuietAfterStop
  <1>1. IInv => QuietAfterStop
    BY DEF IInv, StopOrder, QuietAfterStop
  <1> QED
    BY <1>1, Invariance, PTL
=============================================================================
