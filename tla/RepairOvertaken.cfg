SPECIFICATION FairSpec
CONSTANTS
    Effects = {"mail"}
    Emails = {"mail"}
    Repairs <- MailRetry
    RepairOf <- MCRepairOf
PROPERTIES
    RepairIsCarriedOut
CHECK_DEADLOCK FALSE
