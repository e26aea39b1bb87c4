SPECIFICATION Spec
CONSTANTS
    W = 2
    Requests = 3
    Responses = 3
    Native = TRUE
    NumOps = 2
    InvokeStatuses = {"ok", "pushback", "other"}
    Lossy = TRUE
    MaxGets = 1
    MaxYields = 1
INVARIANTS
    TypeOK
    Accounting
    StampsMatchLiveRequests
