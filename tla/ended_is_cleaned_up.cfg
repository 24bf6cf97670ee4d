SPECIFICATION Spec
CONSTANTS
    MaxSessions = 1
    Threads = 1
    MaxTicks = 2
    MaxRegisters = 1
CHECK_DEADLOCK FALSE
INVARIANT
    EndedIsCleanedUp
