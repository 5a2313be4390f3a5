CONSTANTS
    d1 = d1
    d2 = d2
    c1 = c1
    c2 = c2
    k1 = k1
    k2 = k2
    Docs = {d1, d2}
    Clients = {c1, c2}
    Cleaners = {k1, k2}
SPECIFICATION FairSpec
INVARIANTS IInv ReadyIsStored YoungSourceKept
PROPERTY AbandonedIsCleaned
