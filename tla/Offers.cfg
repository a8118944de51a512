SPECIFICATION Spec
CONSTANTS
    TheCase = c1
    Contractors = {k1, k2}
    Updates <- Offers
    KindOf <- MCKindOf
    Slots <- MCSlots
    AcceptanceSla = 1
    RetryDelay = 1
    MaxRounds = 2
    MaxTime = 2
    MaxEpoch = 2
    OthersUntil = 0
    LostReplies = {TRUE, FALSE}
    NONE = NONE
SYMMETRY ContractorSymmetry
INVARIANTS
    TypeOK
    PenaltyOnlyForALapsedOffer
    CancelledCaseIsQuiet
    AnswersAreTrue
PROPERTIES
    AcceptedOfferIsNeverWithdrawn
CHECK_DEADLOCK FALSE
