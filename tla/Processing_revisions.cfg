CONSTANTS
    d1 = d1
    w1 = w1
    w2 = w2
    w3 = w3
    c1 = c1
    c2 = c2
    e1 = e1
    Docs = {d1}
    MaxRevision = 2
    Workers = {w1}
    Clients = {c1, c2}
    Endpoints = {}
    LostAcks = FALSE
SPECIFICATION Spec
SYMMETRY Symmetry
INVARIANTS IInv RevisionsContiguous
PROPERTY FollowsTableAsBuilt
