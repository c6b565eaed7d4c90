CONSTANTS
    s1 = s1
    s2 = s2
    s3 = s3
    Submissions = {s1, s2, s3}
    Workers = {1, 2}
    IdOf <- DistinctIds
    QueueSize = 1
    CacheMax = 1
    RegistrySize = 3
    MaxAttempts = 1
    MaxConcurrent = 2
    MemoryFails = TRUE
    None = None
SPECIFICATION StartSpec
INVARIANTS
    WorkersOutlivedByQueues
    QuietStopIsClean
PROPERTY MainReturns
CHECK_DEADLOCK FALSE
