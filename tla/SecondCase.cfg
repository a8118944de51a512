SPECIFICATION Spec
CONSTANTS
    Residents = {r1}
    Taken = {}
    Forms = {"desk"}
    FormKind <- MCFormKind
    Payloads = {p1, p2}
    MaxKeys = 2
    NONE = NONE
INVARIANTS
    OneCasePerReport
CHECK_DEADLOCK FALSE
