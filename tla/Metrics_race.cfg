SPECIFICATION MetricsSpec
CONSTANTS
    Jobs = {1, 2}
    Workers = {"w1", "w2", "w3"}
    JobOf <- SomeJobs
    Lanes = {"a", "b"}
    Runs = {1, 2, 3}
    LaneOf <- SomeLanes
    Start <- SomeStarts
    Tests = {"t", "u"}
    Results <- SomeResults
    Labels <- SomeLabels
    MovedTo <- SomeMoves
    KnownKeys = {"new", "f"}
    None = none
CHECK_DEADLOCK FALSE
INVARIANT ConflictsAreUpstream
