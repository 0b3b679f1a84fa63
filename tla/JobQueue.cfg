SPECIFICATION FairSpec
CONSTANTS
    j1 = j1
    j2 = j2
    j3 = j3
    e1 = e1
    e2 = e2
    c1 = c1
    None = None
    Jobs <- MCJobs
    Workers <- MCWorkers
    Kinds <- MCKinds
    KindOf <- MCKindOf
    Handles <- MCHandles
    MaxFaults = 1
INVARIANTS
    TypeOK
    ClaimedByOne
PROPERTIES
    BoardSpec
    EveryJobClaimed
