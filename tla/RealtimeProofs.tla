--------------------------- MODULE RealtimeProofs ---------------------------
(***************************************************************************)
(* Proofs about Realtime, for any number of changes, attempts and faults.  *)
(***************************************************************************)
EXTENDS Realtime, TLAPS

(* Fetches: the rest of the proof looks at their fields alone. *)

\* The fields of a fetch.
LEMMA MadeFetches ==
    ASSUME NEW n \in Nat, NEW at \in {"none", "asked", "ok", "refused"}, NEW v \in 0..n,
           NEW wanted \in BOOLEAN
    PROVE  /\ Fetch(at, v, wanted) \in Fetches(n)
           /\ Fetch(at, v, wanted).at = at
           /\ Fetch(at, v, wanted).version = v
           /\ Fetch(at, v, wanted).wanted <=> wanted
  <1>1. Fetch(at, v, wanted) \in Fetches(n)
    BY DEF Fetch, Fetches
  <1>2. Fetch(at, v, wanted).at = at /\ Fetch(at, v, wanted).version = v
    BY DEF Fetch
  <1>3. Fetch(at, v, wanted).wanted <=> wanted
    BY Zenon DEF Fetch
  <1> QED
    BY <1>1, <1>2, <1>3

\* A fetch just asked for is wanted; where there is none, none is.
LEMMA NewFetches ==
    ASSUME NEW n \in Nat
    PROVE  /\ Asked \in Fetches(n) /\ Asked.at = "asked" /\ Asked.wanted
           /\ NoFetch \in Fetches(n) /\ NoFetch.at = "none" /\ ~NoFetch.wanted
  BY DEF Asked, NoFetch, Fetch, Fetches

\* A fetch stays one when versions go up.
LEMMA LaterFetches ==
    ASSUME NEW m \in Nat, NEW n \in Nat, m <= n, NEW f \in Fetches(m)
    PROVE  f \in Fetches(n)
  BY DEF Fetches

\* The types of a fetch's fields.
LEMMA FetchFields ==
    ASSUME NEW n \in Nat, NEW f \in Fetches(n)
    PROVE  /\ f.at \in {"none", "asked", "ok", "refused"}
           /\ f.version \in 0..n
           /\ f.wanted \in BOOLEAN
  BY DEF Fetches

\* The server's answer to a fetch.
LEMMA Answers ==
    ASSUME version \in Nat, NEW f \in Fetches(version)
    PROVE  /\ Answer(f) \in Fetches(version)
           /\ Answer(f).at = (IF session THEN "ok" ELSE "refused")
           /\ session => Answer(f).version = version
           /\ Answer(f).wanted <=> f.wanted
  <1>1. f.wanted \in BOOLEAN /\ version \in 0..version /\ 0 \in 0..version
    BY FetchFields
  <1>2. CASE session
    BY <1>1, <1>2, MadeFetches DEF Answer
  <1>3. CASE ~session
    BY <1>1, <1>3, MadeFetches DEF Answer
  <1> QED
    BY <1>2, <1>3

-----------------------------------------------------------------------------
(* The invariant, one group of actions after the other. *)

\* The browser begins by asking, and was told of nothing.
LEMMA InitIInv == Init => IInv
  <1> SUFFICES ASSUME Init PROVE IInv
    OBVIOUS
  <1>1. NumbersOK
    BY MaxVersionAssumption, MaxAttemptsAssumption, MaxFaultsAssumption DEF Init, NumbersOK
  <1>2. FlagsOK /\ AskedIsOpen
    BY DEF Init, FlagsOK, AskedIsOpen
  <1>3. batch \in Fetches(version) /\ solo \in Fetches(version)
    BY NewFetches DEF Init
  <1> QED
    BY <1>1, <1>2, <1>3, NewFetches
       DEF Init, TypeOK, IInv, FetchesHold, NoLostInvalidation, Brings

\* A change of the data makes nothing shown newer.
LEMMA CommitStep == IInv /\ Commit => IInv'
  <1> SUFFICES ASSUME IInv, Commit PROVE IInv'
    OBVIOUS
  <1> USE MaxVersionAssumption, MaxAttemptsAssumption
  <1>1. NumbersOK'
    BY LaterFetches DEF IInv, TypeOK, NumbersOK, Commit, fetchVars, socketVars, Versions
  <1>2. FlagsOK' /\ AskedIsOpen'
    BY DEF IInv, TypeOK, FlagsOK, AskedIsOpen, Commit, fetchVars, socketVars, Versions
  <1>3. batch' \in Fetches(version') /\ solo' \in Fetches(version')
    BY LaterFetches DEF IInv, TypeOK, NumbersOK, Commit, fetchVars, socketVars, Versions
  <1> QED
    BY <1>1, <1>2, <1>3
       DEF IInv, Commit, fetchVars, socketVars, FetchesHold, NoLostInvalidation, Brings, TypeOK

\* An attempt to publish leaves the browser alone.
LEMMA PublishStep == ASSUME IInv, NEW v \in Versions, Publish(v) PROVE IInv'
  <1> USE MaxVersionAssumption, MaxAttemptsAssumption
  <1>1. NumbersOK'
    <2>1. PICK ok \in BOOLEAN : left' = [left EXCEPT ![v] = IF ok THEN 0 ELSE @ - 1]
      BY DEF Publish
    <2>2. left[v] \in 1..MaxAttempts /\ v \in 1..version
      BY DEF IInv, TypeOK, NumbersOK, Publish, Versions
    <2>3. /\ left' \in [Versions -> 0..MaxAttempts]
          /\ \A u \in Versions : left'[u] > 0 => left[u] > 0
      BY <2>1, <2>2 DEF IInv, TypeOK, NumbersOK
    <2>4. inbox' \subseteq 1..version
      BY <2>2 DEF IInv, TypeOK, NumbersOK, Publish, Emit
    <2> QED
      BY <2>3, <2>4 DEF IInv, TypeOK, NumbersOK, Publish, fetchVars
  <1>2. FlagsOK' /\ AskedIsOpen'
    BY DEF IInv, TypeOK, FlagsOK, AskedIsOpen, Publish, Emit, fetchVars, Versions
  <1>3. batch' \in Fetches(version') /\ solo' \in Fetches(version')
    BY DEF IInv, TypeOK, NumbersOK, Publish, Emit, fetchVars, Versions
  <1> QED
    BY <1>1, <1>2, <1>3
       DEF IInv, Publish, fetchVars, FetchesHold, NoLostInvalidation, Brings, TypeOK

\* The server answers with the present version, the newest there is.
LEMMA AnswerStep == IInv /\ (AnswerBatch \/ AnswerSolo) => IInv'
  <1> SUFFICES ASSUME IInv, AnswerBatch \/ AnswerSolo PROVE IInv'
    OBVIOUS
  <1>t. /\ version \in Nat /\ view \in 0..version /\ heard \in 0..version
        /\ batch \in Fetches(version) /\ solo \in Fetches(version)
    BY MaxVersionAssumption DEF IInv, TypeOK, NumbersOK
  <1> USE DEF AnswerBatch, AnswerSolo, serverVars, socketVars
  <1>1. NumbersOK'
    BY <1>t, Answers DEF IInv, TypeOK, NumbersOK
  <1>2. FlagsOK' /\ AskedIsOpen'
    BY DEF IInv, TypeOK, FlagsOK, AskedIsOpen
  <1>3. batch' \in Fetches(version') /\ solo' \in Fetches(version')
    BY <1>t, Answers DEF IInv, TypeOK, NumbersOK
  <1> QED
    BY <1>t, <1>1, <1>2, <1>3, Answers DEF IInv, FetchesHold, NoLostInvalidation, Brings, TypeOK

\* An event makes the answers in flight unwanted and asks again.
LEMMA HearStep == ASSUME IInv, NEW v \in Versions, Hear(v) PROVE IInv'
  <1>t. /\ version \in Nat /\ batch \in Fetches(version) /\ solo \in Fetches(version)
    BY MaxVersionAssumption DEF IInv, TypeOK, NumbersOK
  <1>u. /\ Fetch(batch.at, batch.version, FALSE) \in Fetches(version)
        /\ Fetch(batch.at, batch.version, FALSE).at = batch.at
        /\ ~Fetch(batch.at, batch.version, FALSE).wanted
    <2>1. batch.at \in {"none", "asked", "ok", "refused"} /\ batch.version \in 0..version
      BY <1>t, FetchFields
    <2>2. /\ Fetch(batch.at, batch.version, FALSE) \in Fetches(version)
          /\ Fetch(batch.at, batch.version, FALSE).at = batch.at
      BY <1>t, <2>1 DEF Fetch, Fetches
    <2>3. ~Fetch(batch.at, batch.version, FALSE).wanted
      BY DEF Fetch
    <2> QED
      BY <2>2, <2>3
  <1> USE DEF Hear, EventInvalidates, serverVars
  <1>1. NumbersOK'
    BY <1>t, <1>u, NewFetches DEF IInv, TypeOK, NumbersOK, Versions
  <1>2. FlagsOK' /\ AskedIsOpen'
    BY DEF IInv, TypeOK, FlagsOK, AskedIsOpen, Versions
  <1>3. batch' \in Fetches(version') /\ solo' \in Fetches(version')
    BY <1>t, <1>u, NewFetches DEF IInv, TypeOK, NumbersOK, Versions
  <1> QED
    BY <1>t, <1>1, <1>2, <1>3, <1>u, NewFetches
       DEF IInv, FetchesHold, NoLostInvalidation, Brings, TypeOK

\* After joining, connecting, or losing the connection or the focus, one fetch at most
\* is going to be used.
LEMMA InvalidateStep == IInv /\ (Join \/ Connect \/ Fault) => IInv'
  <1> SUFFICES ASSUME IInv, Join \/ Connect \/ Fault PROVE IInv'
    OBVIOUS
  <1>t. /\ version \in Nat /\ batch \in Fetches(version) /\ solo \in Fetches(version)
    BY MaxVersionAssumption DEF IInv, TypeOK, NumbersOK
  <1> USE DEF serverVars, fetchVars, socketVars
  <1>1. \/ UNCHANGED <<batch, solo, heard>>
        \/ batch' = Asked /\ solo' = NoFetch /\ heard' = version
    BY DEF Join, Connect, Fault, Drop, Refocus, ConnectInvalidates, InvalidateAll
  <1>2. UNCHANGED <<version, view, left, session>> /\ inbox' \in {inbox, {}}
    BY DEF Join, Connect, Fault, Drop, Refocus
  <1>3. faults' \in 0..MaxFaults
    BY MaxFaultsAssumption DEF Join, Connect, Fault, IInv, TypeOK, NumbersOK
  <1>4. NumbersOK'
    BY <1>1, <1>2, <1>3, <1>t DEF IInv, TypeOK, NumbersOK
  <1>5. FlagsOK' /\ AskedIsOpen'
    <2> USE DEF IInv, TypeOK, FlagsOK, AskedIsOpen
    <2>1. CASE Join
      BY <2>1 DEF Join
    <2>2. CASE Connect
      BY <2>2 DEF Connect
    <2>3. CASE Drop
      BY <2>3 DEF Drop
    <2>4. CASE Refocus
      BY <2>4 DEF Refocus
    <2> QED
      BY <2>1, <2>2, <2>3, <2>4 DEF Fault
  <1>6. batch' \in Fetches(version') /\ solo' \in Fetches(version')
    BY <1>t, <1>1, <1>2, NewFetches
  <1> QED
    BY <1>t, <1>1, <1>2, <1>4, <1>5, <1>6, NewFetches
       DEF IInv, FetchesHold, NoLostInvalidation, Brings, TypeOK

\* An answer that is used is no older than what is shown.
LEMMA ReceiveStep == IInv /\ (ReceiveSolo \/ ReceiveBatch) => IInv'
  <1> SUFFICES ASSUME IInv, ReceiveSolo \/ ReceiveBatch PROVE IInv'
    OBVIOUS
  <1>t. /\ version \in Nat /\ view \in 0..version /\ heard \in 0..version
        /\ batch \in Fetches(version) /\ solo \in Fetches(version)
    BY MaxVersionAssumption DEF IInv, TypeOK, NumbersOK
  <1> USE DEF ReceiveSolo, ReceiveBatch, serverVars, socketVars
  <1>1. NumbersOK'
    BY <1>t, FetchFields, NewFetches DEF IInv, TypeOK, NumbersOK, Ready
  <1>2. FlagsOK' /\ AskedIsOpen'
    <2> USE DEF IInv, TypeOK, FlagsOK, AskedIsOpen
    <2>1. CASE ReceiveSolo
      BY <2>1
    <2>2. CASE ReceiveBatch
      <3>1. failed' \in BOOLEAN /\ ticket' \in {"none", "valid", "expired"} /\ session' = session
        BY <2>2
      <3>2. \/ UNCHANGED socketVars
            \/ socket' \in {"connecting", "none"} /\ asked' = FALSE /\ joined' = FALSE
        BY <2>2
      <3>3. joined' \in BOOLEAN /\ asked' \in BOOLEAN
        BY <3>2
      <3>4. socket' \in {"none", "connecting", "open", "refused"}
        BY <3>2
      <3>5. (joined' => socket' = "open") /\ (asked' => socket' = "open")
        BY <3>2
      <3>6. session' \in BOOLEAN
        BY <3>1
      <3> QED
        BY <3>1, <3>3, <3>4, <3>5, <3>6
    <2> QED
      BY <2>1, <2>2
  <1>3. batch' \in Fetches(version') /\ solo' \in Fetches(version')
    BY <1>t, FetchFields, NewFetches DEF IInv, TypeOK, NumbersOK, Ready
  <1> QED
    BY <1>t, <1>1, <1>2, <1>3, FetchFields, NewFetches
       DEF IInv, FetchesHold, NoLostInvalidation, Brings, TypeOK

\* Tickets and sessions end without a fetch.
LEMMA OtherStep == IInv /\ (ExpireTicket \/ EndSession \/ UNCHANGED vars) => IInv'
  <1> SUFFICES ASSUME IInv, ExpireTicket \/ EndSession \/ UNCHANGED vars PROVE IInv'
    OBVIOUS
  <1> USE DEF ExpireTicket, EndSession, vars, serverVars, fetchVars, socketVars
  <1>1. NumbersOK' /\ batch' \in Fetches(version') /\ solo' \in Fetches(version')
    BY DEF IInv, TypeOK, NumbersOK
  <1>2. FlagsOK' /\ AskedIsOpen'
    <2>1. session' \in BOOLEAN
      BY DEF IInv, TypeOK, FlagsOK
    <2>2. ticket' \in {"none", "valid", "expired"} /\ UNCHANGED <<failed, asked, joined, socket>>
      BY DEF IInv, TypeOK, FlagsOK
    <2> QED
      BY <2>1, <2>2 DEF IInv, TypeOK, FlagsOK, AskedIsOpen
  <1>3. FetchesHold' /\ NoLostInvalidation'
    BY DEF IInv, FetchesHold, NoLostInvalidation, Brings
  <1> QED
    BY <1>1, <1>2, <1>3 DEF IInv, TypeOK

\* Every step keeps the inductive invariant.
LEMMA NextIInv == IInv /\ [Next]_vars => IInv'
  BY CommitStep, PublishStep, AnswerStep, HearStep, InvalidateStep,
     ReceiveStep, OtherStep DEF Next

-----------------------------------------------------------------------------
(* Theorems. *)

\* The inductive invariant holds: of two fetches in flight at most one is
\* going to be used (bindRealtimeInvalidation).
THEOREM Invariance == Spec => []IInv
  <1> QED
    BY InitIInv, NextIInv, PTL DEF Spec

\* Servers, fetches and sockets keep their types; only an open socket is in
\* the workspace's room.
THEOREM TypeCorrect == Spec => []TypeOK
  <1>1. IInv => TypeOK
    BY DEF IInv
  <1> QED
    BY <1>1, Invariance, PTL

\* What a signed-in browser was told of is shown or about to be shown, for
\* any number of changes, events and interruptions.
THEOREM NothingLost == Spec => []NoLostInvalidation
  <1>1. IInv => NoLostInvalidation
    BY DEF IInv
  <1> QED
    BY <1>1, Invariance, PTL
=============================================================================
