SPECIFICATION SiteDataSpec
CONSTANTS
    Null = null
    Queries <- SmallQueries
    Nesting <- SmallNesting
    Stored <- SmallStored
    Rows <- SmallRows
    ListRows <- SomeRows
    PageSize = 2
    MaxChanges = 2
    Jobs = {1, 2}
    Workers = {"w1", "w2", "w3"}
    JobOf <- SomeJobs
    Lanes = {"a", "b"}
    Runs = {1, 2, 3}
    LaneOf <- SomeLanes
    Start <- SomeStarts
    Tests = {"t", "u"}
    Results <- SomeResults
    Labels <- SomeLabels
    MovedTo <- SomeMoves
    KnownKeys = {"new", "f"}
    None = none
    Browsers = {"a", "b", "m"}
    Versions = {1, 2}
    ReleaseDates = {1, 2}
    StatFeatures = {"f", "g"}
    Ignored = {}
    AvailabilityTables <- SomeTables
    NoBrowser = "none"
    MaxIngestions = 3
    RowCount = 5
    BatchSize = 2
    Writers = {"w1", "w2"}
    Keys = {"f", "old", "new"}
    EnumFiles <- SomeFiles
    Reported <- SomeReports
    Exporters = {"e"}
    Renames <- SomeRenames
    Handlers = {"h1", "h2"}
    Params = {"f"}
    AskedOperations = {"getFeatureMetadata", "listGlobalSavedSearches"}
    DefaultTTL = 1
    AggregatedTTL = 2
    MaxHandling = 1
    MaxTime = 3
    MaxAnswers = 2
    MaxKept = 3
    Stamps = {1, 2, 3, 4}
    MaxAttempts = 6
    BatchSearches = {"s1", "s2"}
    Batches = {"b"}
    MaxRevision = 2
    MaxTries = 3
CHECK_DEADLOCK FALSE
CONSTRAINT TwoAtATime
INVARIANTS
    SearchFindsWhatQuerySays
    PagesShowWhatStays
    MetricsAreCurrent
    StatsAgree
    BulkWritesAreComplete
    UsageIsCurrent
    AnswersAreRecent
    LatestAttemptsAreKept
    BatchReachesEverySearch
