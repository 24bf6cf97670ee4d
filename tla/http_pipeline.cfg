SPECIFICATION FairSpec
CONSTANTS
    Limit = 8
    MaxRequests = 10
CHECK_DEADLOCK FALSE
INVARIANTS
    TypeOK
    ReadsWhileRoom
    WritesFront
    AnswersInOrder
PROPERTIES
    EveryRequestAnswered
