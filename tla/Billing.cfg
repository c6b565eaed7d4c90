CONSTANTS
    u1 = u1
    u2 = u2
    k1 = k1
    k2 = k2
    c1 = c1
    c2 = c2
    g1 = g1
    g2 = g2
    g3 = g3
    Users = {u1, u2}
    Keys = {k1, k2}
    OwnerOf <- MCOwnerOf
    Checkouts = {c1, c2}
    BuyerOf <- MCBuyerOf
    Handlers = {h1, h2}
    Events <- MCEvents
    Gates = {g1, g2, g3}
    CredOf <- MCCredOf
    None = None
    Periods = {1}
    LastTick = 2
SPECIFICATION Spec
INVARIANT TypeOK

    
    
    
CHECK_DEADLOCK FALSE
SYMMETRY Alike
