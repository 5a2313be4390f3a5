CONSTANTS
    i1 = i1
    i2 = i2
    p1 = p1
    p2 = p2
    w1 = w1
    Rows = {i1, i2}
    Relays = {p1, p2}
    Consumers = {w1}
    BatchSize = 2
    MaxFaults = 1
    MaxRearms = 1
SPECIFICATION FairDelivery
INVARIANTS IInv PublishedIsDelivered
PROPERTY AtLeastOnce
