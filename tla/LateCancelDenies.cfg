SPECIFICATION CommandSpec
CONSTANTS
    TheCase = c1
    Contractors = {k1}
    Worker = k1
    Updates <- Mixed
    KindOf <- MCKindOf
    Opening <- MCOpening
    Visit <- MCVisit
    Cited <- NothingCited
    ProofItems = {}
    Types = {}
    Contents = {}
    Uploads = {}
    Slots <- MCSlots
    AcceptanceSla = 1
    RetryDelay = 1
    MaxRounds = 2
    MaxTime = 2
    MaxEpoch = 0
    OthersUntil = 0
    LostReplies = {FALSE}
    MaxCalls <- ReportTwice
    MaxRuns = 1
    MayFail = {}
    Outages = {}
    NONE = NONE
    Blank = Blank
PROPERTIES
    RetryIsNotDenied
CHECK_DEADLOCK FALSE
ACTION_CONSTRAINT ReportsFollowWork
