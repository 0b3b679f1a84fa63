SPECIFICATION FairSpec
CONSTANTS
    a1 = a1
    a2 = a2
    Attempts <- MCAttempts
    Whole = 2
    MaxFaults = 3
INVARIANTS
    TypeOK
    ShownIsSaved
    RejectedNotSaved
PROPERTIES
    StreamEnds
CHECK_DEADLOCK FALSE
