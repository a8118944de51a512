SPECIFICATION Spec
CONSTANTS
    TheCase = c1
    Contractors = {k1}
    Updates <- Visits
    KindOf <- MCKindOf
    Slots <- MCSlots
    AcceptanceSla = 1
    RetryDelay = 1
    MaxRounds = 2
    MaxTime = 3
    MaxEpoch = 2
    OthersUntil = 0
    LostReplies = {FALSE}
    NONE = NONE
INVARIANTS
    MissedVisitIsFlagged
PROPERTIES
    FollowsTheLifecycle
ACTION_CONSTRAINTS
    MovedOrWorked
    ReplacementsInTurn
CHECK_DEADLOCK FALSE
