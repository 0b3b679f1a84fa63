SPECIFICATION Spec
CONSTANTS
    h1 = h1
    h2 = h2
    p1 = p1
    p2 = p2
    p3 = p3
    r1 = r1
    r2 = r2
    r3 = r3
    w1 = w1
    None = None
    Humans <- MCTwoHumans
    Policies <- MCPolicies
    Recs <- MCTwoRecs
    Workloads <- MCWorkloads
    Seed = p1
    MaxVersion = 2
    MaxFaults = 0
CHECK_DEADLOCK FALSE
PROPERTY NoApprovalOfExpired
