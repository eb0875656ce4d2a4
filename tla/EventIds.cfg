CONSTANTS
    Ids = {a, b}
    Invalid = Invalid
    Ranges <- RangesUpTo2
    UnqueueConsumed = FALSE
    MaxLength = 5
SPECIFICATION Spec
INVARIANTS IndexInBounds
PROPERTIES ApiSpec
