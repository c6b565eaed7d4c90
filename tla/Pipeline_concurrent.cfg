CONSTANTS
    s1 = s1
    s2 = s2
    s3 = s3
    s4 = s4
    Submissions = {s1, s2}
    Workers = {w1}
    IdOf <- DistinctIds
    QueueSize = 2
    CacheMax = 1
    RegistrySize = 4
    MaxAttempts = 1
    MaxConcurrent = 2
    MemoryFails = FALSE
    None = None
SPECIFICATION FairSpec
PROPERTY RequestsAreAnswered
CHECK_DEADLOCK FALSE
