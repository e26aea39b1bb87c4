SPECIFICATION Spec
CONSTANTS
    Width = 16
    Limit = 20
    Inits = {0, 1, 2, 3, 5, 7, 128, 255}
CHECK_DEADLOCK FALSE
INVARIANTS
    MulCostNonZero
