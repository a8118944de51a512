SPECIFICATION CommandSpec
CONSTANTS
    TheCase = c1
    Contractors = {k1}
    Worker = k1
    Updates <- Report
    KindOf <- MCKindOf
    Opening <- MCOpening
    Visit <- MCVisit
    Cited <- MCCited
    ProofItems = {"before", "after"}
    Types = {"BEFORE", "AFTER"}
    Contents = {"x", "y"}
    Uploads <- MCUploads
    Slots <- MCSlots
    AcceptanceSla = 1
    RetryDelay = 1
    MaxRounds = 2
    MaxTime = 2
    MaxEpoch = 0
    OthersUntil = 0
    LostReplies = {TRUE, FALSE}
    MaxCalls <- Once
    MaxRuns = 1
    MayFail = {}
    Outages = {}
    NONE = NONE
    Blank = Blank
INVARIANTS
    CreditOnlyForFinishedWork
    HalfFinishedWorkIsFlagged
    CompletedOnEvidence
    ReadyProofIsWhatWasClaimed
CHECK_DEADLOCK FALSE
ACTION_CONSTRAINT ReportsAndWaits
