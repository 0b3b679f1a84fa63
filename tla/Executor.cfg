SPECIFICATION FairSpec
CONSTANTS
    e1 = e1
    r1 = r1
    r2 = r2
    Null = Null
    Executors <- MCExecutors
    Recs <- MCRecs
    MaxReplicas = 2
    MaxJobs = 3
    MaxFaults = 1
    MaxOwner = 1
    OwnerWaits = TRUE
INVARIANTS
    TypeOK
    OwnerCountRecoverable
    OneExecutionPerPlan
PROPERTIES
    RecordsMatchCluster
    RunSpec
    HandledJobEnds
CHECK_DEADLOCK FALSE
