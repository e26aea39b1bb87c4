SPECIFICATION FairSpec
CONSTANTS
    W = 2
    Requests = 3
    Responses = 3
    Native = FALSE
    NumOps = 1
    InvokeStatuses = {"ok", "pushback"}
    Lossy = FALSE
    MaxGets = 1
    MaxYields = 1
PROPERTIES
    Termination
