CONSTANTS
    Lengths = {0, 1, 2}
    MaxBytes = 5
    MaxSessions = 2
    OneThread = TRUE
SPECIFICATION FairSpec
INVARIANTS SentInOrder NoJobMeansAllSent StrayWriteIsFirst
PROPERTIES AllSent
CHECK_DEADLOCK FALSE
