SPECIFICATION Spec
CONSTANTS
    Pool = 20
    RxRing = 4
    TxRing = 6
    SendErrors = TRUE
    PortFreesUnsent = FALSE
CHECK_DEADLOCK FALSE
INVARIANTS
    GeneratorTypeOK
