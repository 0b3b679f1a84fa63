SPECIFICATION ClusterSpec
CONSTANTS
    None = None
    Clusters <- MCClusters
    Workloads <- MCWorkloads
    Policies <- MCPolicies
    PrefixOf <- MCPrefixOf
    System = {"kube-system"}
INVARIANTS
    TypesOK
    ProposalIsSafe
    HeadroomKept
    NoSpareReplica
    BudgetKept
    BudgetIsOurs
    HpaLeftAlone
CHECK_DEADLOCK FALSE
