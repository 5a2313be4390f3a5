------------------------- MODULE MCProcessingSystem -------------------------
(* Model values for TLC's runs of ProcessingSystem. *)
EXTENDS ProcessingSystem

CONSTANTS d1, w1, c1, p1

\* Every run has been submitted and nothing has happened since: the state
\* the liveness run starts from, to leave requests out of its states.
Submitted ==
    /\ status = [r \in Runs |-> "QUEUED"]
    /\ leased = [r \in Runs |-> FALSE]
    /\ report = [r \in Runs |-> FALSE]
    /\ intents = {<<"VALIDATING", r>> : r \in Runs}
    /\ artifacts = [r \in Runs |-> << >>]
    /\ events = [r \in Runs |-> 0]
    /\ deliveries = [r \in Runs |-> {}]
    /\ endpoint = [e \in Endpoints |-> "ready"]
    /\ wpc = [w \in Workers |-> "idle"]
    /\ wtask = [w \in Workers |-> NoTask]
    /\ wbody = [w \in Workers |-> "none"]
    /\ fresh = [w \in Workers |-> FALSE]
    /\ request = [c \in Clients |-> NoRequest]
    /\ outbox = [i \in Intents |-> IF i \in intents THEN "PENDING" ELSE "NONE"]
    /\ aged = [i \in Intents |-> FALSE]
    /\ job = [i \in Intents |-> "none"]
    /\ rpc = [p \in Relays |-> "release"]
    /\ rseen = [p \in Relays |-> {}]
    /\ rclaimed = [p \in Relays |-> {}]
    /\ rrow = [p \in Relays |-> <<>>]
    /\ scan = {}
    /\ scheduled = TRUE
    /\ faults = 0

SubmittedSpec == Submitted /\ [][SystemNext]_systemVars /\ SystemFairness
=============================================================================
