SPECIFICATION FairSpec
CONSTANTS
    Events = {e1}
    Emails = {}
    Webhooks = {h1}
    MaxFanOuts = 2
    MaxDeliveries = 2
    MaxFailures = 1
    Crashes = TRUE
    OpErrors = FALSE
CHECK_DEADLOCK FALSE
PROPERTY ActiveSubscribersAreServed
