CONSTANTS
    Lengths = {0, 1, 2}
    MaxBytes = 5
    MaxSessions = 2
    OneThread = TRUE
SPECIFICATION Spec
INVARIANTS WritesInBuffer
CHECK_DEADLOCK FALSE
