SPECIFICATION FairSpec
CONSTANTS
    MaxSessions = 1
    Threads = 2
    MaxTicks = 2
    MaxRegisters = 1
CHECK_DEADLOCK FALSE
PROPERTY
    TickIsSequential
