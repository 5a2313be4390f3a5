---------------------------- MODULE Idempotency ----------------------------
(***************************************************************************)
(* executeIdempotent: one transaction that takes an advisory lock on the   *)
(* key, looks for the record of an earlier execution, and either replays   *)
(* its response or runs the action and records it.  What a transaction     *)
(* wrote becomes visible when it commits; PostgreSQL releases the lock     *)
(* when it ends, however it ends.  The lock is a number of 64 bits, which  *)
(* different keys may share.                                               *)
(***************************************************************************)
EXTENDS Naturals

CONSTANTS Keys,        \* (workspace, operation, key) triples
          Callers,     \* (principal, request hash) pairs
          Clients,     \* concurrent HTTP requests
          Locks,       \* advisory lock numbers
          LockOf(_),   \* the number of a key: the head of its hash
          MaxRequests  \* bound: HTTP requests of a behavior

ASSUME LockOfAssumption == \A k \in Keys : LockOf(k) \in Locks
ASSUME ClientsAssumption == "free" \notin Clients
ASSUME MaxRequestsAssumption == MaxRequests \in Nat

VARIABLES
    record,    \* IdempotencyRecord of a key: whose it is, and the response
    effects,   \* how many executions of the action were committed for a key
    holder,    \* who holds an advisory lock
    pc, key, caller,  \* a client's request
    seen,      \* the record it read
    answers,   \* history variable: the responses clients got, and who got them
    requests

clientVars == <<pc, key, caller, seen>>
vars == <<record, effects, holder, clientVars, answers, requests>>

NoRecord == [caller |-> "none", response |-> 0]
Records == {NoRecord} \cup [caller : Callers, response : Nat \ {0}]

TypeOK ==
    /\ record \in [Keys -> Records]
    /\ effects \in [Keys -> Nat]
    /\ holder \in [Locks -> Clients \cup {"free"}]
    /\ pc \in [Clients -> {"idle", "lock", "read", "decide", "record"}]
    /\ key \in [Clients -> Keys \cup {"none"}]
    /\ caller \in [Clients -> Callers \cup {"none"}]
    /\ seen \in [Clients -> Records]
    /\ answers \in SUBSET (Keys \X Callers \X (Nat \ {0}))
    /\ requests \in 0..MaxRequests

Init ==
    /\ record = [k \in Keys |-> NoRecord]
    /\ effects = [k \in Keys |-> 0]
    /\ holder = [l \in Locks |-> "free"]
    /\ pc = [c \in Clients |-> "idle"]
    /\ key = [c \in Clients |-> "none"]
    /\ caller = [c \in Clients |-> "none"]
    /\ seen = [c \in Clients |-> NoRecord]
    /\ answers = {}
    /\ requests = 0

-----------------------------------------------------------------------------
Goto(c, label) == pc' = [pc EXCEPT ![c] = label]

\* A request, be it the first with its key or the repetition of one that is
\* still running, has failed, or was committed without an answer.
Ask(c, k, who) ==
    /\ pc[c] = "idle"
    /\ requests < MaxRequests
    /\ Goto(c, "lock")
    /\ key' = [key EXCEPT ![c] = k]
    /\ caller' = [caller EXCEPT ![c] = who]
    /\ requests' = requests + 1
    /\ UNCHANGED <<record, effects, holder, seen, answers>>

\* Mutant: the lock is taken by everybody.
Lock_Shared(c) ==
    /\ pc[c] = "lock"
    /\ holder' = [holder EXCEPT ![LockOf(key[c])] = c]
    /\ Goto(c, "read")
    /\ UNCHANGED <<record, effects, key, caller, seen, answers, requests>>

\* pg_advisory_xact_lock waits until the lock is free.
Lock(c) ==
    /\ pc[c] = "lock"
    /\ holder[LockOf(key[c])] = "free"
    /\ holder' = [holder EXCEPT ![LockOf(key[c])] = c]
    /\ Goto(c, "read")
    /\ UNCHANGED <<record, effects, key, caller, seen, answers, requests>>

Read(c) ==
    /\ pc[c] = "read"
    /\ seen' = [seen EXCEPT ![c] = record[key[c]]]
    /\ Goto(c, "decide")
    /\ UNCHANGED <<record, effects, holder, key, caller, answers, requests>>

\* Mutant: the lock outlives its transaction.
End_KeepsLock(c) ==
    /\ Goto(c, "idle")
    /\ key' = [key EXCEPT ![c] = "none"]
    /\ caller' = [caller EXCEPT ![c] = "none"]
    /\ seen' = [seen EXCEPT ![c] = NoRecord]
    /\ UNCHANGED <<holder, requests>>

\* The end of the transaction, and of the request.
End(c) ==
    /\ Goto(c, "idle")
    /\ key' = [key EXCEPT ![c] = "none"]
    /\ caller' = [caller EXCEPT ![c] = "none"]
    /\ seen' = [seen EXCEPT ![c] = NoRecord]
    /\ holder' = [l \in Locks |-> IF holder[l] = c THEN "free" ELSE holder[l]]
    /\ UNCHANGED requests

Replayed(c, response) == answers' = answers \cup {<<key[c], caller[c], response>>}

\* Mutant: neither the principal nor the request is compared.
Same_Any(c) == TRUE

Same(c) == seen[c].caller = caller[c]

Replay(c) ==
    /\ pc[c] = "decide" /\ seen[c] # NoRecord /\ Same(c)
    /\ Replayed(c, seen[c].response)
    /\ End(c)
    /\ UNCHANGED <<record, effects>>

Conflict(c) ==
    /\ pc[c] = "decide" /\ seen[c] # NoRecord /\ ~Same(c)
    /\ End(c)
    /\ UNCHANGED <<record, effects, answers>>

\* The action's writes, seen by nobody yet.
Act(c) ==
    /\ pc[c] = "decide" /\ seen[c] = NoRecord
    /\ Goto(c, "record")
    /\ UNCHANGED <<record, effects, holder, key, caller, seen, answers, requests>>

\* The response of an execution, named by its number.
Recorded(c) == [caller |-> caller[c], response |-> effects[key[c]] + 1]

\* The record is inserted and everything commits; the answer may be lost.
\* (workspace, operation, key) is unique: a second insert rolls back.
Commit(c) ==
    /\ pc[c] = "record"
    /\ record[key[c]] = NoRecord
    /\ effects' = [effects EXCEPT ![key[c]] = @ + 1]
    /\ record' = [record EXCEPT ![key[c]] = Recorded(c)]
    /\ Replayed(c, Recorded(c).response) \/ UNCHANGED answers
    /\ End(c)

\* The action throws, the insert is refused, the connection is lost.
Abort(c) ==
    /\ pc[c] # "idle"
    /\ End(c)
    /\ UNCHANGED <<record, effects, answers>>

-----------------------------------------------------------------------------
Step(c) == Read(c) \/ Replay(c) \/ Conflict(c) \/ Act(c) \/ Commit(c) \/ Abort(c)

Next ==
    \E c \in Clients :
        \/ \E k \in Keys, who \in Callers : Ask(c, k, who)
        \/ Lock(c)
        \/ Step(c)

Spec == Init /\ [][Next]_vars

\* A transaction that has its lock goes on or is given up; PostgreSQL grants
\* a lock in the order of the requests for it.
Fairness == \A c \in Clients :
    SF_vars(Lock(c)) /\ WF_vars(pc[c] \in {"read", "decide", "record"} /\ Step(c))

FairSpec == Spec /\ Fairness

-----------------------------------------------------------------------------
\* A key stands for one execution: it takes effect at most once, and all who
\* are answered with a response get that of the caller whose key it is,
\* however often they repeat a request they got no answer to.
OneOutcome ==
    /\ \A k \in Keys : effects[k] <= 1
    /\ \A a \in answers :
         /\ record[a[1]].caller = a[2]
         /\ record[a[1]].response = a[3]

\* A request never runs the action only to find the key recorded at its end:
\* of two at once, the second waits and replays, it does not fail.
NeverTooLate == \A c \in Clients : pc[c] = "record" => record[key[c]] = NoRecord

\* Every request ends, also those that share a lock by a collision.
RequestsEnd == \A c \in Clients : pc[c] = "lock" ~> pc[c] = "idle"

-----------------------------------------------------------------------------
(* The inductive invariant. *)

\* Between its lock and its end a transaction holds the lock of its key.
LockHeld ==
    \A c \in Clients :
        /\ pc[c] # "idle" => key[c] \in Keys /\ caller[c] \in Callers
        /\ pc[c] \in {"read", "decide", "record"} => holder[LockOf(key[c])] = c

\* So what it read is still so, and it acts only where it read nothing.
ReadIsCurrent ==
    \A c \in Clients :
        /\ pc[c] \in {"decide", "record"} => seen[c] = record[key[c]]
        /\ pc[c] = "record" => seen[c] = NoRecord

\* One effect for each record, and none without.
EffectsRecorded == \A k \in Keys : effects[k] = IF record[k] = NoRecord THEN 0 ELSE 1

\* What anybody was answered is on record.
AnswersRecorded ==
    \A a \in answers : record[a[1]] = [caller |-> a[2], response |-> a[3]]

\* The inductive invariant of the transactions: while the lock of a key is
\* held nobody else changes what was read of it (executeIdempotent).
IInv ==
    /\ TypeOK
    /\ LockHeld
    /\ ReadIsCurrent
    /\ EffectsRecorded
    /\ AnswersRecorded
=============================================================================
