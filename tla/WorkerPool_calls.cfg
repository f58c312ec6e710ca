SPECIFICATION FairSpec
CONSTANTS
    Workers = {w1, w2, w3}
    NumJobs = 4
INVARIANTS
    ReturnsAllErrors
    NoSendOnClosedChannel
PROPERTIES
    ImplementsOutcomes
    Termination
