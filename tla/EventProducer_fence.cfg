SPECIFICATION Spec
CONSTANTS
    Messages = {m1, m2}
    Workers = {w1, w2}
    NoOne = none
    MaxDeliveries = 2
    MaxData = 1
    MaxQuery = 0
    EarlyRedelivery = TRUE
    Crashes = FALSE
    OpErrors = FALSE
    LossyClose = FALSE
CHECK_DEADLOCK FALSE
INVARIANT Lineage
