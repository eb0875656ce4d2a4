CONSTANTS
    Enums = {1, 2}
    Values = {0, 1}
    HashOf <- OneBucket
    Priorities = {"first", "normal"}
    MaxHandlers = 3
    Objects = {o1, o2}
    MaxDepth = 2
SPECIFICATION Spec
INVARIANTS FoundUnderItsId CalledInOrder ObjectsAreKeys
PROPERTIES CallsWhoWasThere
SYMMETRY ObjectSymmetry
