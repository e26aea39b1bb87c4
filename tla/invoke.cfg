SPECIFICATION Spec
CONSTANTS
    W = 2
    Requests = 3
    Responses = 3
    Native = FALSE
    NumOps = 1
    InvokeStatuses = {"ok", "pushback", "other"}
    Lossy = TRUE
    MaxGets = 1
    MaxYields = 1
INVARIANTS
    TypeOK
    Accounting
    TaskPlacement
    StampsMatchLiveRequests
PROPERTIES
    FinishedFreezesRecvd
    WindowRefinement
