SPECIFICATION Spec
CONSTANTS
    Messages = {m1, m2}
    Workers = {w1, w2}
    NoOne = none
    MaxDeliveries = 2
    MaxData = 1
    MaxQuery = 1
    EarlyRedelivery = FALSE
    Crashes = TRUE
    OpErrors = TRUE
    LossyClose = FALSE
CHECK_DEADLOCK FALSE
CONSTRAINT EditsInCalm
SYMMETRY Symmetry
INVARIANTS
    Lineage
    EventBlobsExist
    AnnouncedOnce
    CalmLosesNothing
PROPERTY ImplementsHistory
