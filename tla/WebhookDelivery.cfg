CONSTANTS
    d1 = d1
    d2 = d2
    w1 = w1
    w2 = w2
    w3 = w3
    Deliveries = {d1}
    Workers = {w1, w2}
    AttemptLimit = 3
    MaxFaults = 2
SPECIFICATION FairSpec
INVARIANTS IInv RowsNotAhead RetryEnqueued OneAttempt
PROPERTIES EndedIsFinalInLease DeliveriesEnd
