SPECIFICATION Spec
CONSTANTS
    MaxPlayers = 1
    MaxLaunches = 1
    NumLives = 1
    MagSize = 2
    BulletTicks = 2
    ExplodeTicks = 1
    InvTicks = 1
CHECK_DEADLOCK FALSE
INVARIANTS
    RockDestroyedOnce

