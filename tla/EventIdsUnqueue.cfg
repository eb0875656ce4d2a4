CONSTANTS
    Ids = {a, b}
    Invalid = Invalid
    Ranges <- RangesUpTo2
    UnqueueConsumed = TRUE
    MaxLength = 5
SPECIFICATION Spec

PROPERTIES UnqueueRemovesMatching
