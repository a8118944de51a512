SPECIFICATION FairSpec
CONSTANTS
    TheCase = c1
    Contractors = {k1}
    Updates <- Overrides
    KindOf <- MCKindOf
    Slots <- MCSlots
    AcceptanceSla = 1
    RetryDelay = 1
    MaxRounds = 2
    MaxTime = 2
    MaxEpoch = 4
    OthersUntil = 2
    LostReplies = {FALSE}
    NONE = NONE
PROPERTIES
    UnallocatedCaseIsNoticed
CHECK_DEADLOCK FALSE
