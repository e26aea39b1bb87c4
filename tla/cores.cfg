SPECIFICATION FairSpec
CONSTANTS
    c1 = c1
    c2 = c2
    c3 = c3
    Cores <- MCCores3
    W = 2
    Requests = 2
    Responses = 2
CHECK_DEADLOCK FALSE
INVARIANTS
    CoresTypeOK
    ShutdownAfterTarget
PROPERTIES
    Termination
