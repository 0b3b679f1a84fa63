SPECIFICATION FairSpec
CONSTANTS
    m1 = m1
    m2 = m2
    h1 = h1
    h2 = h2
    d1 = d1
    d2 = d2
    seed = seed
    Migrators <- MCMigrators
    Humans <- MCHumans
    Drafts <- MCDrafts
    Seed = seed
    MaxFaults = 1
INVARIANTS TypeOK AppliedOnce OneActiveOnceIndexed
PROPERTY PlatformStarts
