CONSTANTS
    s1 = s1
    s2 = s2
    r1 = r1
    r2 = r2
    Submissions = {s1, s2}
    Streams = {r1, r2}
    IdOf <- CollidingIds
    WantedId <- BothWantFirst
    Capacity = 2
    MaxOutputs = 1
    MemoryFails = TRUE
    NoChannel = NoChannel
SPECIFICATION FairSpec
INVARIANTS
    RefsMatchHolders
    DanglingOnlyAfterLateLock
    RegistryMatchesChannels
    OutputsNotDropped
    ServedToTheEnd
PROPERTIES
    
    ChannelsFreed
CHECK_DEADLOCK FALSE
