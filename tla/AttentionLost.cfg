SPECIFICATION Spec
CONSTANTS
    c1 = c1
    c2 = c2
    Contractors = {c1, c2}
    Residents = {owner, other}
    Officers = {officer}
    Owner = owner
    Nobody = nobody
    MaxAttempts = 2
    MaxVisits = 1
    MaxWrites = 2
INVARIANTS
    NoAttentionIsLost
SYMMETRY Symmetry
ACTION_CONSTRAINT Bounded
CHECK_DEADLOCK FALSE
