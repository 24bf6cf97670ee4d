SPECIFICATION FairSpec
CONSTANTS
    MaxPlayers = 1
    MaxLaunches = 1
    NumLives = 2
    MagSize = 3
    BulletTicks = 2
    ExplodeTicks = 2
    InvTicks = 1
CHECK_DEADLOCK FALSE
INVARIANTS
    TypeOK
    PointsConserved
    PhaseMatchesShip
    LivesAccount
    BulletsInOrder
PROPERTIES
    OnlyExpiredPopped
    ExplosionEnds
