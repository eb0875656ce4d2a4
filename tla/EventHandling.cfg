CONSTANTS
    Workers = {w1}
    Events = {e1, e2, e3}
    Ids = {a}
    OriginalId = a
    None = None
    MaxDepth = 4
    MaxActs = 3
    HandlersThrow = TRUE
    SelfAfterwards = TRUE
SPECIFICATION FairSpec
INVARIANTS CurrentIdIsInnermost FinishingFollowsIds AfterwardsBeforeNext NoneLostOrDoubled
PROPERTIES OnlyLateIdsStay HandleEnds
CHECK_DEADLOCK FALSE
