CONSTANTS
    Lengths = {0, 1, 2}
    MaxBytes = 5
    MaxSessions = 2
    OneThread = FALSE
SPECIFICATION Spec
INVARIANTS NoJobMeansAllSent
CHECK_DEADLOCK FALSE
