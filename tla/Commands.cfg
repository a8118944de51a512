SPECIFICATION CommandSpec
CONSTANTS
    TheCase = c1
    Contractors = {k1}
    Worker = k1
    Updates <- Commands
    KindOf <- MCKindOf
    Opening <- MCOpening
    Visit <- MCVisit
    Cited <- NothingCited
    ProofItems = {}
    Types = {}
    Contents = {}
    Uploads = {}
    Slots <- MCSlots
    AcceptanceSla = 1
    RetryDelay = 1
    MaxRounds = 2
    MaxTime = 2
    MaxEpoch = 0
    OthersUntil = 0
    LostReplies = {FALSE}
    MaxCalls <- Twice
    MaxRuns = 2
    MayFail = {"start"}
    Outages = {"case", "assignment", "appointment"}
    NONE = NONE
    Blank = Blank
INVARIANTS
    OneCompletion
PROPERTIES
    EffectIsNotDenied
CHECK_DEADLOCK FALSE
ACTION_CONSTRAINT OneRepeatOrRival
