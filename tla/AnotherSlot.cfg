SPECIFICATION Spec
CONSTANTS
    Residents = {r1}
    Taken = {}
    Forms = {"visit"}
    FormKind <- MCFormKind
    Payloads = {p1, p2}
    MaxKeys = 2
    NONE = NONE
INVARIANTS
    AnotherSlotMayBePicked
CHECK_DEADLOCK FALSE
