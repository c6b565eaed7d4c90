CONSTANTS
    l1 = l1
    l2 = l2
    l3 = l3
    l4 = l4
    ann = ann
    ben = ben
    Logins = {l1, l2, l3, l4}
    IdentityOf <- TwiceEach
    Lengths <- MCLengths
    Rooms <- MCRooms
    TokenRoom = 3
    Lifetime = 1
    LastTick = 0
    MaxInserts = 0
    MaxRestarts = 0
    MaxConcurrent = 1
SPECIFICATION Spec
INVARIANT LoginIsOwn
CHECK_DEADLOCK FALSE
