SPECIFICATION FairSpec
CONSTANTS
    MaxSessions = 1
    Threads = 2
    MaxTicks = 2
    MaxRegisters = 2
CHECK_DEADLOCK FALSE
INVARIANTS
    TypeOK
    OneWriteAtATime
    NothingStranded
    ReplyComesFirst
    AliveUntilEnded
    NoNullSession
PROPERTIES
    EveryPathIsFifo
    QueueDrains
