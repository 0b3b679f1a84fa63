SPECIFICATION Spec
CONSTANTS
    e1 = e1
    r1 = r1
    r2 = r2
    Null = Null
    Executors <- MCExecutors
    Recs <- MCRecs
    MaxReplicas = 2
    MaxJobs = 3
    MaxFaults = 0
    MaxOwner = 1
    OwnerWaits = FALSE
CHECK_DEADLOCK FALSE
PROPERTY SqueezeFromApprovedState
