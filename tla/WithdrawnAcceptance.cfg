SPECIFICATION Spec
CONSTANTS
    TheCase = c1
    Contractors = {k1}
    Updates <- Overrides
    KindOf <- MCKindOf
    Slots <- MCSlots
    AcceptanceSla = 1
    RetryDelay = 1
    MaxRounds = 2
    MaxTime = 2
    MaxEpoch = 2
    OthersUntil = 0
    LostReplies = {FALSE}
    NONE = NONE
PROPERTIES
    AcceptedOfferIsNeverWithdrawn
CHECK_DEADLOCK FALSE
