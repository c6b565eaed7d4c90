CONSTANTS
    s1 = s1
    s2 = s2
    s3 = s3
    s4 = s4
    Submissions = {s1, s2, s3, s4}
    Workers = {w1, w2}
    IdOf <- DistinctIds
    QueueSize = 2
    CacheMax = 1
    RegistrySize = 3
    MaxAttempts = 1
    MaxConcurrent = 4
    MemoryFails = TRUE
    None = None
SPECIFICATION FairSpec
INVARIANTS
    JobsAreConserved
    
PROPERTY JobsSettle
CHECK_DEADLOCK FALSE
