-------------------------- MODULE ApiCommandsProofs --------------------------
(***************************************************************************)
(* Proofs about Idempotency and about ApiCommands, its gates included, for *)
(* any keys, callers, clients and locks, collisions of locks among them.   *)
(***************************************************************************)
EXTENDS ApiCommands, TLAPS

(* Types of the transaction around a command. *)

\* No client has begun: nothing is held, recorded or answered.
LEMMA CommandInit == Init => IInv
  BY MaxRequestsAssumption DEF Init, IInv, TypeOK, LockHeld, ReadIsCurrent, EffectsRecorded,
     AnswersRecorded,
         Records, NoRecord

\* What End does to a client's variables and to the locks.
LEMMA EndType ==
    ASSUME TypeOK, NEW c \in Clients, End(c)
    PROVE  /\ pc' \in [Clients -> {"idle", "lock", "read", "decide", "record"}]
           /\ key' \in [Clients -> Keys \cup {"none"}]
           /\ caller' \in [Clients -> Callers \cup {"none"}]
           /\ seen' \in [Clients -> Records]
           /\ holder' \in [Locks -> Clients \cup {"free"}]
           /\ pc'[c] = "idle"
           /\ \A b \in Clients \ {c} :
                pc'[b] = pc[b] /\ key'[b] = key[b] /\ caller'[b] = caller[b] /\ seen'[b] = seen[b]
           /\ \A l \in Locks : holder[l] # c => holder'[l] = holder[l]
  BY DEF TypeOK, End, Goto, Records

\* Every step keeps the types.
LEMMA TypeStep ==
    ASSUME IInv, [Next]_vars
    PROVE  TypeOK'
  <1>t. TypeOK /\ LockHeld /\ EffectsRecorded
    BY DEF IInv
  <1>1. ASSUME NEW c \in Clients, NEW k \in Keys, NEW who \in Callers, Ask(c, k, who)
        PROVE  TypeOK'
    BY <1>t, <1>1, MaxRequestsAssumption DEF Ask, Goto, TypeOK, Records
  <1>2. ASSUME NEW c \in Clients, Lock(c) PROVE TypeOK'
    BY <1>t, <1>2 DEF Lock, Goto, TypeOK, Records
  <1>3. ASSUME NEW c \in Clients, Read(c) PROVE TypeOK'
    BY <1>t, <1>3 DEF Read, Goto, TypeOK, LockHeld
  <1>4. ASSUME NEW c \in Clients, Replay(c) PROVE TypeOK'
    <2>1. <<key[c], caller[c], seen[c].response>> \in Keys \X Callers \X (Nat \ {0})
      BY <1>t, <1>4 DEF Replay, TypeOK, LockHeld, Records
    <2>2. answers' \in SUBSET (Keys \X Callers \X (Nat \ {0}))
      BY <1>t, <1>4, <2>1 DEF Replay, Replayed, TypeOK
    <2> QED
      BY <1>t, <1>4, <2>2, EndType DEF Replay, End, TypeOK
  <1>5. ASSUME NEW c \in Clients, Conflict(c) PROVE TypeOK'
    BY <1>t, <1>5, EndType DEF Conflict, End, TypeOK
  <1>6. ASSUME NEW c \in Clients, Act(c) PROVE TypeOK'
    BY <1>t, <1>6 DEF Act, Goto, TypeOK
  <1>7. ASSUME NEW c \in Clients, Commit(c) PROVE TypeOK'
    <2>1. key[c] \in Keys /\ caller[c] \in Callers /\ effects[key[c]] \in Nat
      BY <1>t, <1>7 DEF Commit, TypeOK, LockHeld
    <2>2. Recorded(c) \in Records /\ Recorded(c).response \in Nat \ {0}
      BY <2>1 DEF Recorded, Records
    <2>3. answers' \in SUBSET (Keys \X Callers \X (Nat \ {0}))
      BY <1>t, <1>7, <2>1, <2>2 DEF Commit, Replayed, TypeOK
    <2>4. record' \in [Keys -> Records] /\ effects' \in [Keys -> Nat]
      BY <1>t, <1>7, <2>1, <2>2 DEF Commit, TypeOK
    <2> QED
      BY <1>t, <1>7, <2>3, <2>4, EndType DEF Commit, End, TypeOK
  <1>8. ASSUME NEW c \in Clients, Abort(c) PROVE TypeOK'
    BY <1>t, <1>8, EndType DEF Abort, End, TypeOK
  <1>9. CASE UNCHANGED vars
    BY <1>t, <1>9 DEF vars, clientVars, TypeOK
  <1> QED
    BY <1>1, <1>2, <1>3, <1>4, <1>5, <1>6, <1>7, <1>8, <1>9 DEF Next, Step

-----------------------------------------------------------------------------
(* The lock. *)

\* A transaction that ends gives up its own lock and nobody else's.
LEMMA EndKeepsOthers ==
    ASSUME IInv, NEW c \in Clients, End(c)
    PROVE  LockHeld'
  <1> SUFFICES ASSUME NEW b \in Clients
               PROVE  /\ pc'[b] # "idle" => key'[b] \in Keys /\ caller'[b] \in Callers
                      /\ pc'[b] \in {"read", "decide", "record"} => holder'[LockOf(key'[b])] = b
    BY DEF LockHeld
  <1>t. TypeOK /\ LockHeld
    BY DEF IInv
  <1>1. CASE b = c
    BY <1>t, <1>1, EndType
  <1>2. CASE b # c
    BY <1>t, <1>2, EndType, LockOfAssumption DEF LockHeld
  <1> QED
    BY <1>1, <1>2

\* A lock is taken when it is free and given up at the end of its transaction.
LEMMA LockStep ==
    ASSUME IInv, [Next]_vars
    PROVE  LockHeld'
  <1>t. TypeOK /\ LockHeld
    BY DEF IInv
  <1>1. ASSUME NEW c \in Clients, NEW k \in Keys, NEW who \in Callers, Ask(c, k, who)
        PROVE  LockHeld'
    BY <1>t, <1>1 DEF Ask, Goto, TypeOK, LockHeld
  <1>2. ASSUME NEW c \in Clients, Lock(c) PROVE LockHeld'
    BY <1>t, <1>2, LockOfAssumption, ClientsAssumption DEF Lock, Goto, TypeOK, LockHeld
  <1>3. ASSUME NEW c \in Clients, Read(c) \/ Act(c) PROVE LockHeld'
    BY <1>t, <1>3 DEF Read, Act, Goto, TypeOK, LockHeld
  <1>4. ASSUME NEW c \in Clients, Replay(c) \/ Conflict(c) \/ Commit(c) \/ Abort(c)
        PROVE  LockHeld'
    BY <1>4, EndKeepsOthers DEF Replay, Conflict, Commit, Abort
  <1>5. CASE UNCHANGED vars
    BY <1>t, <1>5 DEF vars, clientVars, LockHeld
  <1> QED
    BY <1>1, <1>2, <1>3, <1>4, <1>5 DEF Next, Step

\* Two transactions in their locks have different keys.
LEMMA LockExcludes ==
    ASSUME IInv, NEW b \in Clients, NEW c \in Clients, b # c,
           pc[b] \in {"read", "decide", "record"}, pc[c] \in {"read", "decide", "record"}
    PROVE  key[b] # key[c]
  BY DEF IInv, LockHeld

-----------------------------------------------------------------------------
(* What a transaction read, and what it wrote. *)

\* Only the holder of a key's lock writes its record.
LEMMA ReadStep ==
    ASSUME IInv, [Next]_vars
    PROVE  ReadIsCurrent'
  <1>t. TypeOK /\ LockHeld /\ ReadIsCurrent
    BY DEF IInv
  <1>1. ASSUME NEW c \in Clients, NEW k \in Keys, NEW who \in Callers, Ask(c, k, who)
        PROVE  ReadIsCurrent'
    BY <1>t, <1>1 DEF Ask, Goto, TypeOK, ReadIsCurrent
  <1>2. ASSUME NEW c \in Clients, Lock(c) \/ Read(c) \/ Act(c) PROVE ReadIsCurrent'
    BY <1>t, <1>2 DEF Lock, Read, Act, Goto, TypeOK, ReadIsCurrent
  <1>3. ASSUME NEW c \in Clients, End(c), UNCHANGED record PROVE ReadIsCurrent'
    BY <1>t, <1>3, EndType DEF ReadIsCurrent
  <1>4. ASSUME NEW c \in Clients, Commit(c) PROVE ReadIsCurrent'
    <2> SUFFICES ASSUME NEW b \in Clients, pc'[b] \in {"decide", "record"}
                 PROVE  /\ seen'[b] = record'[key'[b]]
                        /\ pc'[b] = "record" => seen'[b] = NoRecord
      BY DEF ReadIsCurrent
    <2>1. End(c) /\ record' = [record EXCEPT ![key[c]] = Recorded(c)] /\ pc[c] = "record"
      BY <1>4 DEF Commit
    <2>2. b # c /\ pc[b] = pc'[b] /\ key'[b] = key[b] /\ seen'[b] = seen[b]
      BY <1>t, <2>1, EndType
    <2>3. key[b] # key[c] /\ key[b] \in Keys
      BY <1>t, <2>1, <2>2, LockExcludes DEF LockHeld
    <2> QED
      BY <1>t, <2>1, <2>2, <2>3 DEF ReadIsCurrent, TypeOK
  <1>5. CASE UNCHANGED vars
    BY <1>t, <1>5 DEF vars, clientVars, ReadIsCurrent
  <1> QED
    BY <1>1, <1>2, <1>3, <1>4, <1>5 DEF Next, Step, Replay, Conflict, Abort

\* The only action that changes a record, or counts an effect.
LEMMA RecordedOnce ==
    ASSUME IInv, [Next]_vars
    PROVE  \/ UNCHANGED <<record, effects>>
           \/ \E c \in Clients :
                /\ Commit(c)
                /\ key[c] \in Keys /\ caller[c] \in Callers
                /\ record[key[c]] = NoRecord /\ effects[key[c]] = 0
                /\ record' = [record EXCEPT ![key[c]] = [caller |-> caller[c], response |-> 1]]
                /\ effects' = [effects EXCEPT ![key[c]] = 1]
  <1>1. ASSUME NEW c \in Clients, Commit(c)
        PROVE  /\ key[c] \in Keys /\ caller[c] \in Callers
               /\ record[key[c]] = NoRecord /\ effects[key[c]] = 0
               /\ record' = [record EXCEPT ![key[c]] = [caller |-> caller[c], response |-> 1]]
               /\ effects' = [effects EXCEPT ![key[c]] = 1]
    <2>1. key[c] \in Keys /\ caller[c] \in Callers /\ record[key[c]] = NoRecord
      BY <1>1 DEF Commit, IInv, LockHeld
    <2>2. effects[key[c]] = 0
      BY <2>1 DEF IInv, EffectsRecorded
    <2> QED
      BY <1>1, <2>1, <2>2 DEF Commit, Recorded, IInv, TypeOK
  <1> QED
    BY <1>1 DEF Next, Step, Ask, Lock, Read, Replay, Conflict, Act, Abort, vars

\* A transaction that commits makes its effect and its record together.
LEMMA EffectsStep ==
    ASSUME IInv, [Next]_vars
    PROVE  EffectsRecorded'
  <1>t. TypeOK /\ EffectsRecorded
    BY DEF IInv
  <1>1. \A who : [caller |-> who, response |-> 1] # NoRecord
    BY DEF NoRecord
  <1>2. CASE UNCHANGED <<record, effects>>
    BY <1>t, <1>2 DEF EffectsRecorded
  <1>3. ASSUME NEW c \in Clients, key[c] \in Keys,
               record' = [record EXCEPT ![key[c]] = [caller |-> caller[c], response |-> 1]],
               effects' = [effects EXCEPT ![key[c]] = 1]
        PROVE  EffectsRecorded'
    BY <1>t, <1>1, <1>3 DEF TypeOK, EffectsRecorded, NoRecord
  <1> QED
    BY <1>2, <1>3, RecordedOnce

\* Records are never changed, so an answer stays on record.
LEMMA AnswersStep ==
    ASSUME IInv, [Next]_vars
    PROVE  AnswersRecorded'
  <1>t. TypeOK /\ AnswersRecorded
    BY DEF IInv
  <1>1. ASSUME NEW a \in answers PROVE record'[a[1]] = [caller |-> a[2], response |-> a[3]]
    <2>1. /\ a[1] \in Keys /\ a[3] # 0
          /\ record[a[1]] = [caller |-> a[2], response |-> a[3]]
      BY <1>t, <1>1 DEF TypeOK, AnswersRecorded
    <2>2. record[a[1]] # NoRecord
      BY <2>1 DEF NoRecord
    <2> QED
      BY <1>t, <2>1, <2>2, RecordedOnce DEF TypeOK
  <1>2. ASSUME NEW c \in Clients, Replay(c)
        PROVE  record'[key[c]] = [caller |-> caller[c], response |-> seen[c].response]
    <2>1. seen[c] = record[key[c]] /\ seen[c] # NoRecord /\ seen[c].caller = caller[c]
      BY <1>2 DEF Replay, Same, IInv, ReadIsCurrent
    <2>2. seen[c] \in [caller : Callers, response : Nat \ {0}]
      BY <1>t, <2>1 DEF TypeOK, Records
    <2> QED
      BY <1>2, <2>1, <2>2 DEF Replay
  <1>3. ASSUME NEW c \in Clients, Commit(c)
        PROVE  record'[key[c]] = [caller |-> caller[c], response |-> Recorded(c).response]
    BY <1>t, <1>3 DEF Commit, Recorded, TypeOK, IInv, LockHeld
  <1>4. \/ answers' = answers
        \/ \E c \in Clients : Replay(c) /\ answers' = answers \cup {<<key[c], caller[c], seen[c].response>>}
        \/ \E c \in Clients : Commit(c) /\ answers' = answers \cup {<<key[c], caller[c], Recorded(c).response>>}
    BY DEF Next, Step, Ask, Lock, Read, Replay, Conflict, Act, Commit, Abort, Replayed, vars
  <1> SUFFICES ASSUME NEW a \in answers'
               PROVE  record'[a[1]] = [caller |-> a[2], response |-> a[3]]
    BY DEF AnswersRecorded
  <1>5. CASE a \in answers
    BY <1>1, <1>5
  <1>6. ASSUME NEW c \in Clients, Replay(c), a = <<key[c], caller[c], seen[c].response>>
        PROVE  record'[a[1]] = [caller |-> a[2], response |-> a[3]]
    BY <1>2, <1>6
  <1>7. ASSUME NEW c \in Clients, Commit(c), a = <<key[c], caller[c], Recorded(c).response>>
        PROVE  record'[a[1]] = [caller |-> a[2], response |-> a[3]]
    BY <1>3, <1>7
  <1> QED
    BY <1>4, <1>5, <1>6, <1>7

\* Every step of a transaction keeps the inductive invariant.
LEMMA NextIInv == IInv /\ [Next]_vars => IInv'
  BY TypeStep, LockStep, ReadStep, EffectsStep, AnswersStep DEF IInv

\* The inductive invariant of the transactions, for their own specification.
THEOREM CommandInvariance == Spec => []IInv
  BY CommandInit, NextIInv, PTL DEF Spec

\* The answers and the effects of a key are those of its record.
LEMMA InvOneOutcome == IInv => OneOutcome
  <1> SUFFICES ASSUME IInv PROVE OneOutcome
    OBVIOUS
  <1>1. \A e \in {0, 1} : e <= 1
    OBVIOUS
  <1>2. ASSUME NEW k \in Keys PROVE effects[k] <= 1
    <2>1. effects[k] \in {0, 1}
      BY DEF IInv, EffectsRecorded
    <2> QED
      BY <1>1, <2>1, Zenon
  <1>3. ASSUME NEW a \in answers PROVE record[a[1]].caller = a[2] /\ record[a[1]].response = a[3]
    <2>1. record[a[1]] = [caller |-> a[2], response |-> a[3]]
      BY <1>3 DEF IInv, AnswersRecorded
    <2> QED
      BY <2>1
  <1> QED
    BY <1>2, <1>3 DEF OneOutcome

\* Where a request is about to insert a record, it has read that there is
\* none, and that is still so.
LEMMA InvNeverTooLate == IInv => NeverTooLate
  BY DEF IInv, ReadIsCurrent, NeverTooLate

-----------------------------------------------------------------------------
(* The gates. *)

\* At first no request stands before a gate.
LEMMA GatesInit == AccessInit => AccessIInv
  <1> SUFFICES ASSUME AccessInit PROVE AccessIInv
    OBVIOUS
  <1>1. IInv
    BY CommandInit DEF AccessInit
  <1>2. AccessTypeOK
    BY <1>1, MaxChangesAssumption DEF AccessInit, AccessTypeOK, IInv, permissions
  <1>3. BarredAtGate
    BY DEF AccessInit, BarredAtGate
  <1> QED
    BY <1>1, <1>2, <1>3 DEF AccessIInv

\* What the two doors ask for a user with a role does not have is what the
\* narrowed scopes, and the permissions of the role, do not hold.
LEMMA PermitsEntitled ==
    ASSUME NEW door \in Doors, NEW u, NEW r \in DOMAIN permissions, Permits(door, u, r)
    PROVE  Entitled(door, u, r)
  <1>1. /\ "documents:process" \in permissions[r] => "documents:write" \in permissions[r]
        /\ "*" \notin permissions[r] /\ "admin" \notin permissions[r]
    BY DEF permissions
  <1>2. CASE door = "web"
    BY <1>1, <1>2 DEF Permits, Entitled
  <1>3. CASE door = "api"
    BY <1>1, <1>3 DEF Permits, Entitled, Granted, requireApiScope
  <1> QED
    BY <1>2, <1>3 DEF Doors

\* In front of and behind the gates, a step is one of Idempotency.
LEMMA AccessIsCommand ==
    ASSUME AccessTypeOK, [AccessNext]_<<vars, accessVars>>
    PROVE  [Next]_vars
  <1>1. ASSUME NEW c \in Clients, Authorize(c) PROVE [Next]_vars
    <2>1. visit[c].who \in Callers
      BY <1>1 DEF Authorize, AccessTypeOK
    <2> QED
      BY <1>1, <2>1 DEF Authorize, Refuse, Next
  <1>2. ASSUME NEW c \in Clients, Lock(c) \/ Step(c) PROVE [Next]_vars
    BY <1>2 DEF Next
  <1>3. CASE UNCHANGED vars
    BY <1>3
  <1> QED
    BY <1>1, <1>2, <1>3
       DEF AccessNext, Access, Administer, Arrive, Authenticate, Refuse, EndCredential, ChangeMembership


\* Every step keeps the types of requests, keys, sessions and roles.
LEMMA AccessTypeStep ==
    ASSUME AccessIInv, [AccessNext]_<<vars, accessVars>>
    PROVE  AccessTypeOK'
  <1>t. AccessTypeOK /\ TypeOK'
    BY AccessIsCommand, TypeStep DEF AccessIInv
  <1> USE <1>t DEF AccessTypeOK
  <1>1. ASSUME NEW c \in Clients, NEW door \in Doors, NEW who \in Callers, Arrive(c, door, who)
        PROVE  AccessTypeOK'
    BY <1>1 DEF Arrive
  <1>2. ASSUME NEW c \in Clients, Authenticate(c) PROVE AccessTypeOK'
    BY <1>2 DEF Authenticate, Refuse, Leave
  <1>3. ASSUME NEW c \in Clients, Authorize(c) PROVE AccessTypeOK'
    BY <1>3 DEF Authorize, Refuse, Leave
  <1>4. ASSUME NEW u \in Users, NEW door \in Doors, EndCredential(door, u) PROVE AccessTypeOK'
    BY <1>4, MaxChangesAssumption DEF EndCredential, Changed
  <1>5. ASSUME NEW u \in Users, NEW r \in {"MEMBER", "VIEWER"}, ChangeMembership(u, r)
        PROVE  AccessTypeOK'
    <2>1. r \in DOMAIN permissions
      BY DEF permissions
    <2>2. role' \in [Users -> DOMAIN permissions]
      BY <1>5, <2>1 DEF ChangeMembership
    <2>3. barred' \in [Clients -> {"no", "role", "credential"}]
      BY <1>5 DEF ChangeMembership
    <2> QED
      BY <1>5, <2>2, <2>3, MaxChangesAssumption DEF ChangeMembership, Changed
  <1>6. CASE UNCHANGED accessVars
    BY <1>6 DEF accessVars
  <1> QED
    BY <1>1, <1>2, <1>3, <1>4, <1>5, <1>6 DEF AccessNext, Access, Administer

\* A client in front of the gates is not in a transaction, and does not
\* enter one but through Authorize.
LEMMA GateIdle ==
    ASSUME AccessIInv, NEW c \in Clients, gate[c] # "none", pc'[c] # "idle",
           [AccessNext]_<<vars, accessVars>>
    PROVE  Authorize(c) /\ gate'[c] = "none"
  <1>t. TypeOK /\ AccessTypeOK /\ pc[c] = "idle"
    BY DEF AccessIInv, AccessTypeOK, BarredAtGate
  <1>1. ASSUME NEW b \in Clients, Lock(b) \/ Step(b) PROVE FALSE
    <2>1. pc[b] # "idle"
      BY <1>1 DEF Lock, Step, Read, Replay, Conflict, Act, Commit, Abort
    <2> QED
      BY <1>t, <1>1, <2>1
         DEF Lock, Step, Read, Replay, Conflict, Act, Commit, Abort, End, Goto, TypeOK
  <1>2. ASSUME NEW b \in Clients, Authorize(b) PROVE b = c /\ gate'[c] = "none"
    BY <1>t, <1>2 DEF Authorize, Refuse, Leave, Ask, Goto, TypeOK, AccessTypeOK, vars, clientVars
  <1>3. pc' # pc
    BY <1>t
  <1> QED
    BY <1>1, <1>2, <1>3
       DEF AccessNext, Access, Administer, Arrive, Authenticate, Refuse, EndCredential,
           ChangeMembership, vars, clientVars

\* A request that stays barred stays in front of the gate that refuses it.
LEMMA BarredStep ==
    ASSUME AccessIInv, [AccessNext]_<<vars, accessVars>>
    PROVE  BarredAtGate'
  <1>t. TypeOK /\ AccessTypeOK /\ BarredAtGate
    BY DEF AccessIInv, AccessTypeOK
  <1> DEFINE User(b) == UserOf(visit[b].who)
             Kept(b) == /\ barred[b] = "credential" =>
                             gate[b] = "credential" /\ <<visit[b].door, User(b)>> \in ended
                        /\ barred[b] = "role" => ~Entitled(visit[b].door, User(b), role[User(b)])
  <1> SUFFICES ASSUME NEW b \in Clients
               PROVE  /\ gate'[b] # "none" => pc'[b] = "idle"
                      /\ barred'[b] # "no" => gate'[b] # "none"
                      /\ Kept(b)'
    BY DEF BarredAtGate
  <1>k. Kept(b) /\ (barred[b] # "no" => gate[b] # "none") /\ (gate[b] # "none" => pc[b] = "idle")
    BY <1>t DEF BarredAtGate
  <1>1. ASSUME NEW c \in Clients, NEW door \in Doors, NEW who \in Callers, Arrive(c, door, who)
        PROVE  /\ gate'[b] # "none" => pc'[b] = "idle"
               /\ barred'[b] # "no" => gate'[b] # "none"
               /\ Kept(b)'
    <2>1. CASE b = c
      BY <1>t, <1>1, <2>1 DEF Arrive, AccessTypeOK, Entitled, vars, clientVars
    <2>2. CASE b # c
      BY <1>t, <1>k, <1>1, <2>2 DEF Arrive, AccessTypeOK, Entitled, vars, clientVars
    <2> QED
      BY <2>1, <2>2
  <1>2. ASSUME NEW c \in Clients, Authenticate(c) \/ Authorize(c)
        PROVE  /\ gate'[b] # "none" => pc'[b] = "idle"
               /\ barred'[b] # "no" => gate'[b] # "none"
               /\ Kept(b)'
    <2>0. gate'[b] # "none" => pc'[b] = "idle"
      <3>1. gate'[b] # "none" => gate[b] # "none"
        BY <1>t, <1>2 DEF Authenticate, Authorize, Refuse, Leave, AccessTypeOK
      <3> QED
        BY <1>2, <3>1, GateIdle DEF AccessNext, Access
    <2>1. CASE b # c
      <3>1. barred'[b] = barred[b] /\ gate'[b] = gate[b] /\ visit'[b] = visit[b]
        BY <1>t, <1>2, <2>1 DEF Authenticate, Authorize, Refuse, Leave, AccessTypeOK
      <3>2. role' = role /\ ended' = ended
        BY <1>2 DEF Authenticate, Authorize
      <3> QED
        BY <1>k, <2>0, <3>1, <3>2 DEF Entitled
    <2>2. CASE b = c /\ barred'[b] = "no"
      BY <2>0, <2>2
    <2>3. CASE b = c /\ Authenticate(c) /\ barred'[b] # "no"
      <3>1. /\ Known(visit[b].door, User(b))
            /\ gate' = [gate EXCEPT ![b] = "member"] /\ UNCHANGED <<visit, barred, role, ended>>
        BY <1>t, <2>3 DEF Authenticate, Refuse, AccessTypeOK
      <3>2. barred[b] # "credential"
        BY <1>k, <3>1 DEF Known
      <3> QED
        BY <1>t, <1>k, <2>0, <3>1, <3>2 DEF Entitled, AccessTypeOK
    <2>4. CASE b = c /\ Authorize(c) /\ barred'[b] # "no"
      <3>1. /\ Permits(visit[b].door, User(b), role[User(b)])
            /\ UNCHANGED barred /\ gate[b] = "member"
        BY <1>t, <2>4 DEF Authorize, Refuse, AccessTypeOK
      <3>2. visit[b] \in [door : Doors, who : Callers] /\ role[User(b)] \in DOMAIN permissions
        BY <1>t, <3>1 DEF AccessTypeOK, Users
      <3>3. Entitled(visit[b].door, User(b), role[User(b)])
        BY <3>1, <3>2, PermitsEntitled
      <3> QED
        BY <1>t, <1>k, <2>4, <3>1, <3>3 DEF AccessTypeOK
    <2> QED
      BY <1>2, <2>1, <2>2, <2>3, <2>4
  <1>3. ASSUME NEW u \in Users, NEW door \in Doors, EndCredential(door, u)
        PROVE  /\ gate'[b] # "none" => pc'[b] = "idle"
               /\ barred'[b] # "no" => gate'[b] # "none"
               /\ Kept(b)'
    BY <1>k, <1>3 DEF EndCredential, Entitled, vars, clientVars
  <1>4. ASSUME NEW u \in Users, NEW r \in {"MEMBER", "VIEWER"}, ChangeMembership(u, r)
        PROVE  /\ gate'[b] # "none" => pc'[b] = "idle"
               /\ barred'[b] # "no" => gate'[b] # "none"
               /\ Kept(b)'
    <2>1. UNCHANGED <<gate, visit, ended, pc>>
      BY <1>4 DEF ChangeMembership, vars, clientVars
    <2>2. barred'[b] # "no" => barred'[b] = barred[b]
      BY <1>4 DEF ChangeMembership
    <2>3. role' = [role EXCEPT ![u] = r] /\ role \in [Users -> DOMAIN permissions]
      BY <1>t, <1>4 DEF ChangeMembership, AccessTypeOK
    <2>4. ASSUME barred'[b] = "role" PROVE ~Entitled(visit[b].door, User(b), role'[User(b)])
      <3>1. barred[b] = "role" /\ gate[b] # "none"
        BY <1>k, <2>2, <2>4
      <3>2. CASE User(b) = u
        <4>1. ~Entitled(visit[b].door, u, r)
          BY <1>4, <2>4, <3>1, <3>2 DEF ChangeMembership
        <4> QED
          BY <2>3, <3>2, <4>1
      <3>3. CASE User(b) # u
        BY <1>k, <2>3, <3>1, <3>3
      <3> QED
        BY <3>2, <3>3
    <2> QED
      BY <1>k, <2>1, <2>2, <2>4 DEF Entitled
  <1>5. CASE UNCHANGED accessVars
    <2>1. gate[b] # "none" => pc'[b] = "idle"
      BY <1>5, GateIdle DEF accessVars
    <2> QED
      BY <1>k, <1>5, <2>1 DEF accessVars, Entitled
  <1> QED
    BY <1>1, <1>2, <1>3, <1>4, <1>5 DEF AccessNext, Access, Administer

\* Every step keeps the inductive invariant of commands and gates.
LEMMA NextAccessIInv == AccessIInv /\ [AccessNext]_<<vars, accessVars>> => AccessIInv'
  <1> SUFFICES ASSUME AccessIInv, [AccessNext]_<<vars, accessVars>> PROVE AccessIInv'
    OBVIOUS
  <1>1. IInv'
    BY AccessIsCommand, NextIInv DEF AccessIInv
  <1> QED
    BY <1>1, AccessTypeStep, BarredStep DEF AccessIInv

-----------------------------------------------------------------------------
(* What follows for every behavior. *)

\* The inductive invariant of commands and gates holds, whatever keys, sessions
\* and roles change between two look-ups.
THEOREM AccessInvariance == AccessSpec => []AccessIInv
  BY GatesInit, NextAccessIInv, PTL DEF AccessSpec

\* The command behind its gates does nothing the command alone may not do.
THEOREM AccessImplementsCommand == AccessSpec => Spec
  <1>1. AccessInit => Init
    BY DEF AccessInit
  <1>2. AccessIInv /\ [AccessNext]_<<vars, accessVars>> => [Next]_vars
    BY AccessIsCommand DEF AccessIInv
  <1> QED
    BY <1>1, <1>2, AccessInvariance, PTL DEF AccessSpec, Spec

\* Type correctness of the commands and their gates.
THEOREM AccessTypeCorrect == AccessSpec => []AccessTypeOK
  <1>1. AccessIInv => AccessTypeOK
    BY DEF AccessIInv
  <1> QED
    BY <1>1, AccessInvariance, PTL

\* A key takes effect once, and all who are answered get the response of
\* the caller whose key it is (executeIdempotent).
THEOREM OutcomeIsOne == AccessSpec => []OneOutcome
  <1>1. AccessIInv => OneOutcome
    BY InvOneOutcome DEF AccessIInv
  <1> QED
    BY <1>1, AccessInvariance, PTL

\* Of two requests with a key the second replays; it never fails for being
\* second.
THEOREM InsertSucceeds == AccessSpec => []NeverTooLate
  <1>1. AccessIInv => NeverTooLate
    BY InvNeverTooLate DEF AccessIInv
  <1> QED
    BY <1>1, AccessInvariance, PTL

\* No request gets to its command with an ended key or session, or without
\* a role for it at any moment since it came.
THEOREM BarredStayOut == AccessSpec => []BarredIsRefused
  <1>1. AccessIInv => BarredIsRefused
    BY DEF AccessIInv, BarredAtGate, BarredIsRefused
  <1> QED
    BY <1>1, AccessInvariance, PTL
=============================================================================
