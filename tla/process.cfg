SPECIFICATION FairSpec
CONSTANTS
    Threads = 4
    MaxSessions = 3
    MaxRetries = 50
INVARIANTS
    TypeOK
    OneClock
    UniverseBeforeSessions
    HandlersGoneFirst
PROPERTIES
    ClockRuns
    ShutdownEnds
