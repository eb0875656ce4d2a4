CONSTANTS
    Endpoints = {"tcp"}
    MaxConnects = 2
    MaxCandidates = 2
    LookupFails = FALSE
    EndpointFirst = TRUE
SPECIFICATION Spec
INVARIANTS ConnectedIsEstablished
CHECK_DEADLOCK FALSE
