CONSTANTS
    MaxVersion = 2
    MaxAttempts = 2
    MaxFaults = 2
SPECIFICATION FairSpec
INVARIANTS IInv NoLostInvalidation
PROPERTIES ViewCatchesUp SignedOutIsCutOff
CHECK_DEADLOCK FALSE
