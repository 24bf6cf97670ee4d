SPECIFICATION Spec
CONSTANTS
    MaxSessions = 3
    Threads = 2
    MagSize = 2
    MaxRocks = 1
    CountRange = 4
CHECK_DEADLOCK FALSE
INVARIANTS
    TypeOK
    ReadAsFound
    FitsUnlessRaced
    BulletsHaveShips
