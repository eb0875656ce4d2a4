SPECIFICATION SessionSpec
CONSTANTS
    Endpoints = {"tcp", "ssl"}
    MaxConnects = 2
    MaxCandidates = 1
    LookupFails = FALSE
    EndpointFirst = TRUE
    WrittenEndpoints <- MCWrittenEndpoints
    Ports = {0, 7}
    ServerHost <- MCServerHost
    MaxBytes = 5
    MaxChunk = 2
INVARIANTS LinesOfStream WorkHasThread OnlyExitStrands EndpointAsMeant
PROPERTIES ExitEnds
CHECK_DEADLOCK FALSE
