SPECIFICATION RankingSpec
CONSTANTS
    k1 = k1
    k2 = k2
    Cases = {c1, c2}
    Contractors = {k1, k2}
    AttemptIds = {a1, a2, a3}
    OpIds = {op1, op2}
    NONE = NONE
    c1 = c1
    RankedCase = c1
    Score <- MCScore
    Position <- MCPosition
SYMMETRY MCSymmetry
INVARIANTS
    AssignmentTypeOK
    AtMostOnePendingAttempt
    AtMostOneAcceptance
    WorkFollowsAnAcceptance
    RankingMissesNoOffer
PROPERTIES
    WorkIsNeverUndone
    AcceptedIsNotReopened
ACTION_CONSTRAINT RanksBeforeWork
CHECK_DEADLOCK FALSE
