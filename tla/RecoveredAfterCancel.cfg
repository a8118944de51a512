SPECIFICATION Spec
CONSTANTS
    TheCase = c1
    Contractors = {k1}
    Updates <- Recoveries
    KindOf <- MCKindOf
    Slots <- MCSlots
    AcceptanceSla = 1
    RetryDelay = 1
    MaxRounds = 2
    MaxTime = 3
    MaxEpoch = 2
    OthersUntil = 0
    LostReplies = {FALSE}
    NONE = NONE
INVARIANTS
    CancelledCaseIsQuiet
CHECK_DEADLOCK FALSE
