SPECIFICATION FairSpec
CONSTANTS
    Residents = {r1, r2}
    Taken = {r2}
    Forms = {"desk", "visit", "report"}
    FormKind <- MCFormKind
    Payloads = {p1, p2}
    MaxKeys = 3
    NONE = NONE
INVARIANTS
    SuccessIsForWhatWasAsked
    RetryAppliesOnce
PROPERTIES
    ResidentIsProvisioned
ACTION_CONSTRAINT OneForm
CHECK_DEADLOCK FALSE
