CONSTANTS
    d1 = d1
    w1 = w1
    c1 = c1
    p1 = p1
    Docs = {d1}
    MaxRevision = 1
    Workers = {w1}
    Clients = {c1}
    Endpoints = {}
    LostAcks = FALSE
    Relays = {p1}
    BatchSize = 1
    MaxFaults = 1
    FaultKinds = {"relay", "scan"}
SPECIFICATION SystemSpec
INVARIANT SystemIInv
PROPERTY ImplementsProcessing
