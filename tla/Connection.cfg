CONSTANTS
    Endpoints = {"tcp", "ssl"}
    MaxConnects = 4
    MaxCandidates = 3
    LookupFails = TRUE
    EndpointFirst = FALSE
SPECIFICATION FairSpec
INVARIANTS TypeOK ConnectedHasOneReader DisconnectedIsClosed ConnectingHasWork
PROPERTIES QuietAfterDestroy EstablishedByOwnAttempt AttemptEnds
CHECK_DEADLOCK FALSE
