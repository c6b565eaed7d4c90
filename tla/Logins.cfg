CONSTANTS
    l1 = l1
    l2 = l2
    l3 = l3
    l4 = l4
    ann = ann
    ben = ben
    Logins = {l1, l2, l3, l4}
    IdentityOf <- TwiceEach
    Lengths <- MCLengths
    Rooms <- MCRooms
    TokenRoom = 3
    Lifetime = 0
    LastTick = 1
    MaxInserts = 1
    MaxRestarts = 1
    MaxConcurrent = 2
SPECIFICATION Spec
INVARIANTS
    TypeOK
    AnsweredUserExists
    OwnWhenUndisturbed
    TokenGoodForItsLifetime
CHECK_DEADLOCK FALSE
