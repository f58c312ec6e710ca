SPECIFICATION Spec
CONSTANTS
    Events = {e1, e2}
    Emails = {a1}
    Webhooks = {h1}
    MaxFanOuts = 2
    MaxDeliveries = 2
    MaxFailures = 2
    Crashes = TRUE
    OpErrors = TRUE
CHECK_DEADLOCK FALSE
CONSTRAINT OneEventOrOneFanOut
SYMMETRY Symmetry
INVARIANTS
    DisabledByFailuresOnly
    FanOutIsComplete
    EmailSentOnce
    AckedJobsAreHandled
