SPECIFICATION FairSpec
CONSTANTS
    Effects = {"mail", "score"}
    Emails = {"mail"}
    Repairs <- AllRepairs
    RepairOf <- MCRepairOf
INVARIANTS
    TypeOK
PROPERTIES
    KeepsThePromise
    LateDispatchIsAcknowledged
    DoubtIsFlagged
    ScoreIsSettled
ACTION_CONSTRAINT OneAtATime
CHECK_DEADLOCK FALSE
