SPECIFICATION Spec
CONSTANTS
    Limit = 8
    MaxRequests = 2
CHECK_DEADLOCK FALSE
INVARIANTS
    OwnershipTransferred
