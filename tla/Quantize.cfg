CONSTANTS
    Threads = {t1, t2}
    Pictures <- SomePictures
    Palettes = {4}
    BucketSize = 2
    Levels = 4
SPECIFICATION Spec
INVARIANTS
    BoxesSound
    CutFollowsChannel
    UndisturbedAgree
