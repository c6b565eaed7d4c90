CONSTANTS
    Producers = {p1, p2}
    Consumers = {c1, c2}
    Items = {a, b}
    NoItem = NoItem
    Capacity = 2
    MaxPush = 3
SPECIFICATION FairSpec
INVARIANTS
    NoSlotRace
    PopsWhatWasPushed
    RingInv
PROPERTIES
    ImplementsFifo
    EventuallyDelivered
