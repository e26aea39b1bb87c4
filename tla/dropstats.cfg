SPECIFICATION Spec
CONSTANTS
    W = 2
    Requests = 2
    Responses = 2
    Native = FALSE
    NumOps = 1
    InvokeStatuses = {"ok", "pushback"}
    Lossy = FALSE
    MaxGets = 1
    MaxYields = 1
INVARIANTS
    DropMedianIsMiddle
