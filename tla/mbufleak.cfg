SPECIFICATION Spec
CONSTANTS
    Pool = 8
    RxRing = 2
    TxRing = 3
    SendErrors = FALSE
    PortFreesUnsent = FALSE
CHECK_DEADLOCK FALSE
INVARIANTS
    NeverPanics
