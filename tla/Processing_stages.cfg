CONSTANTS
    d1 = d1
    w1 = w1
    w2 = w2
    w3 = w3
    c1 = c1
    c2 = c2
    e1 = e1
    Docs = {d1}
    MaxRevision = 1
    Workers = {w1, w2, w3}
    Clients = {c1}
    Endpoints = {e1}
    LostAcks = TRUE
SPECIFICATION Spec
SYMMETRY Symmetry
INVARIANTS LeaseExclusive OutputOnce IntentsMatchRuns
