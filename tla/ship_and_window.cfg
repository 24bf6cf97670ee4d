SPECIFICATION FairSpec
CONSTANTS
    Grain = 2
    Size = 10
    Margin = 2
    ShipRadius = 2
    MaxDelta = 2
    Windows <- MCWindows
    NumLives = 1
    ExplodeTicks = 31
    InvTicks = 181
    BlinkTicks = 13
    Blinks = 14
INVARIANTS
    TypeOK
    InsideUniverse
    ShipInView
    VulnerableIsVisible
PROPERTIES
    FrameShowsShip
    LivesAsPromised

