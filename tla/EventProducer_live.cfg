SPECIFICATION FairSpec
CONSTANTS
    Messages = {m1, m2}
    Workers = {w1, w2}
    NoOne = none
    MaxDeliveries = 2
    MaxData = 0
    MaxQuery = 0
    EarlyRedelivery = TRUE
    Crashes = TRUE
    OpErrors = FALSE
    LossyClose = FALSE
CHECK_DEADLOCK FALSE
PROPERTY MessagesSettle
