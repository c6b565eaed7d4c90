CONSTANTS
    r1 = r1
    r2 = r2
    r3 = r3
    r4 = r4
    r5 = r5
    r6 = r6
    alice = alice
    bob = bob
    carol = carol
    Requests = {r1, r2, r3, r4, r5, r6}
    UserOf <- MCUserOf
    Batches <- MCBatches
    Nobody = Nobody
    Slots = 2
    MaxJobs = 2
    MaxBytes = 4
    LastDay = 1
    MaxInFlight = 2
    MaxFiles = 2
    MaxParts = 4
    MaxFile = 3
    MaxTotal = 3
SPECIFICATION Spec
INVARIANTS
    CapUnlessStraddled
    TableIsExact
    
PROPERTY RefusedForAReason
CHECK_DEADLOCK FALSE
