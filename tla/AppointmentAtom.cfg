SPECIFICATION AppointmentSpec
CONSTANTS
    Cases = {c1, c2}
    Contractors = {k1, k2}
    AttemptIds = {a1, a2}
    ClaimIds = {s1, s2, s3}
    OpIds = {op1}
    Slots <- MCSlots
    NONE = NONE
SYMMETRY MCSymmetry
INVARIANTS
    LiveVisitOwnsItsSlot
    NoDoubleBooking
PROPERTIES
    SlotAndVisitAreGivenUpTogether
    RecordedOutcomesAreFinal
CHECK_DEADLOCK FALSE
