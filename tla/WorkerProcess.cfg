CONSTANTS
    Rows = {1, 2, 3}
    Poison = {2}
    BatchSize = 2
    ScanLimit = 2
    MaxFaults = 2
SPECIFICATION FairSpec
INVARIANTS IInv QuietAfterStop
PROPERTIES ShutdownEnds BacklogDrains
