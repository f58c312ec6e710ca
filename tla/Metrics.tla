------------------------------- MODULE Metrics -------------------------------
(***************************************************************************)
(* The WPT job: the runs of each browser and channel are scored by feature *)
(* and stored, a pool of workers taking the lanes of a job in turn, and    *)
(* jobs overlapping.  The labels that say which features a test belongs to *)
(* are downloaded once for a job and cached.  The worker that caches them  *)
(* goes on to rewrite moved features in the very object it has cached,     *)
(* test by test, while others copy it.                                     *)
(***************************************************************************)
EXTENDS Naturals, FiniteSets, Functions, FiniteSetsExt

CONSTANTS
    Jobs, Workers, JobOf,  \* the workers of each job
    Lanes,                 \* a browser and a channel
    Runs, LaneOf, Start,   \* the runs of wpt.fyi, and when each started
    Tests, Results,        \* the tests, and what each run says of each of them
    Labels,                \* upstream: the feature keys of each test
    MovedTo,               \* the moved features of the catalogue
    KnownKeys,             \* the features of the catalogue
    None

ASSUME JobAssumption == JobOf \in [Workers -> Jobs]
ASSUME RunAssumption == LaneOf \in [Runs -> Lanes] /\ Start \in [Runs -> Nat]
ASSUME ResultsAssumption ==
    \A r \in Runs, t \in Tests :
        Results[r][t] = None
            \/ Results[r][t] \in [status : {"", "O", "F", "C"}, pass : Nat, total : Nat]
ASSUME TestsAssumption == IsFiniteSet(Tests) /\ DOMAIN Labels = Tests
ASSUME NobodyAssumption == None \notin Runs
\* The target of a moved feature is a row of the features, not another moved key.
ASSUME MovesAssumption == \A k \in DOMAIN MovedTo : MovedTo[k] \notin DOMAIN MovedTo

VARIABLES
    todo,      \* the lanes a job has not begun
    cache,     \* the labels a job has cached
    worker,    \* what each worker is doing
    runs,      \* the tables: runs, metrics of a feature in a run, and the run
    metrics,   \* whose metrics are the latest of a feature in a lane
    latest,
    conflicts  \* (history) labels in which a worker found a conflict

metricsVars == <<todo, cache, worker, runs, metrics, latest, conflicts>>
tables == <<runs, metrics, latest>>

Idle ==
    [at |-> "idle", left |-> {}, run |-> None, labels |-> None, shared |-> FALSE,
     inventory |-> {}, tests |-> {}, scores |-> <<>>, noSubtests |-> {}]

MetricsInit ==
    /\ todo = [j \in Jobs |-> Lanes]
    /\ cache = [j \in Jobs |-> None]
    /\ worker = [w \in Workers |-> Idle]
    /\ runs = {}
    /\ metrics = <<>>
    /\ latest = <<>>
    /\ conflicts = {}

Becomes(w, state) == worker' = [worker EXCEPT ![w] = state]

RunsOf(lane) == {r \in Runs : LaneOf[r] = lane}

TakeLane(w) ==
    /\ worker[w].at = "idle"
    /\ \E lane \in todo[JobOf[w]] :
          /\ todo' = [todo EXCEPT ![JobOf[w]] = @ \ {lane}]
          /\ Becomes(w, [Idle EXCEPT !.at = "next", !.left = RunsOf(lane)])
    /\ UNCHANGED <<cache, tables, conflicts>>

\* The runs of a lane are processed in the order they are listed in.
NextRun(w) ==
    /\ worker[w].at = "next"
    /\ \/ \E r \in worker[w].left :
             Becomes(w, [Idle EXCEPT !.at = "labels", !.run = r, !.left = worker[w].left \ {r}])
       \/ worker[w].left = {} /\ Becomes(w, Idle)
    /\ UNCHANGED <<todo, cache, tables, conflicts>>

\* Any failure ends the lane.
RunFails(w) ==
    /\ worker[w].at \in {"labels", "download", "score", "insert", "upsert"}
    /\ Becomes(w, Idle)
    /\ UNCHANGED <<todo, cache, tables, conflicts>>

KeysIn(labels) == UNION {labels[t] : t \in Tests}

Migrates(w, labels, shared) ==
    Becomes(w, [worker[w] EXCEPT !.at = "migrate", !.labels = labels, !.shared = shared,
                              !.inventory = KeysIn(labels), !.tests = Tests])

\* A copy of what the cache holds at this moment; or nothing yet.
GetCachedLabels(w) ==
    LET cached == cache[JobOf[w]] IN
    /\ worker[w].at = "labels"
    /\ \/ cached # None /\ Migrates(w, cached, FALSE)
       \/ cached = None /\ Becomes(w, [worker[w] EXCEPT !.at = "download"])
    /\ UNCHANGED <<todo, cache, tables, conflicts>>

\* The object is cached and given to the worker: both hold the same one.
DownloadLabels(w) ==
    LET states == [v \in Workers |-> IF JobOf[v] = JobOf[w]
                                     THEN [worker[v] EXCEPT !.shared = FALSE] ELSE worker[v]]
    IN
    /\ worker[w].at = "download"
    /\ cache' = [cache EXCEPT ![JobOf[w]] = Labels]
    /\ worker' = [states EXCEPT ![w].at = "migrate", ![w].labels = Labels, ![w].shared = TRUE,
                                ![w].inventory = KeysIn(Labels), ![w].tests = Tests]
    /\ UNCHANGED <<todo, tables, conflicts>>

Migrated(keys) ==
    {IF k \in DOMAIN MovedTo THEN MovedTo[k] ELSE k : k \in keys}

\* migrateWebFeaturesToMovedFeatures: one test, in no particular order.
MigrateTest(w, t) ==
    LET state == worker[w]
        moved == state.labels[t] \cap DOMAIN MovedTo
        rewritten == [state.labels EXCEPT ![t] = Migrated(@)]
    IN
    /\ state.at = "migrate" /\ t \in state.tests
    /\ IF \E k \in moved : MovedTo[k] \in state.inventory
       THEN /\ conflicts' = conflicts \cup {w}
            /\ Becomes(w, Idle)
            /\ UNCHANGED cache
       ELSE /\ Becomes(w, [state EXCEPT !.labels = rewritten, !.tests = @ \ {t}])
            /\ cache' = IF state.shared THEN [cache EXCEPT ![JobOf[w]] = rewritten] ELSE cache
            /\ UNCHANGED conflicts
    /\ UNCHANGED <<todo, tables>>

MigrationEnds(w) ==
    /\ worker[w].at = "migrate" /\ worker[w].tests = {}
    /\ Becomes(w, [worker[w] EXCEPT !.at = "score", !.tests = Tests])
    /\ UNCHANGED <<todo, cache, tables, conflicts>>

\* Reading a map while another goroutine writes it may end the process.
JobDies(j) ==
    /\ \E w, v \in Workers :
          /\ JobOf[w] = j /\ JobOf[v] = j /\ w # v
          /\ worker[w].at = "migrate" /\ worker[w].shared /\ worker[v].at = "labels"
    /\ worker' = [w \in Workers |-> IF JobOf[w] = j THEN Idle ELSE worker[w]]
    /\ todo' = [todo EXCEPT ![j] = {}]
    /\ UNCHANGED <<cache, tables, conflicts>>

NoScore == [tests |-> 0, testPass |-> 0, subtests |-> 0, subtestPass |-> 0]

ScoreFor(scores, f) == IF f \in DOMAIN scores THEN scores[f] ELSE NoScore

IsMissing(result) == result.status = "" /\ result.total = 0

IsPassing(result) ==
    /\ result.status \in {"", "O"}
    /\ result.pass = result.total
    /\ ~IsMissing(result)

One(condition) == IF condition THEN 1 ELSE 0

\* A test with no subtests counts as one.
Subtests(result) == IF result.total = 0 THEN 1 ELSE result.total
SubtestPass(result) ==
    IF result.total = 0 /\ result.status = "O" THEN 1 ELSE result.pass

\* scoreTest and scoreSubtests.  A crash takes the subtests from the feature
\* for good, whatever has been counted and whatever is to come.
Scored(score, result, noSubtests) ==
    LET counted == [score EXCEPT !.tests = @ + 1, !.testPass = @ + One(IsPassing(result))]
    IN
    IF IsMissing(result) THEN counted
    ELSE IF result.status = "C"
    THEN [counted EXCEPT !.subtests = None, !.subtestPass = None]
    ELSE IF noSubtests THEN counted
    ELSE [counted EXCEPT !.subtests = @ + Subtests(result),
                         !.subtestPass = @ + SubtestPass(result)]

\* Score: one test, in no particular order.
ScoreTest(w, t) ==
    LET state == worker[w]
        result == Results[state.run][t]
        features == IF result = None THEN {} ELSE state.labels[t]
    IN
    /\ state.at = "score" /\ t \in state.tests
    /\ Becomes(w, [state EXCEPT
            !.tests = @ \ {t},
            !.scores = [f \in DOMAIN @ \cup features |->
                IF f \in features
                THEN Scored(ScoreFor(@, f), result, f \in state.noSubtests)
                ELSE @[f]],
            !.noSubtests = IF features # {} /\ ~IsMissing(result) /\ result.status = "C"
                           THEN @ \cup features ELSE @])
    /\ UNCHANGED <<todo, cache, tables, conflicts>>

ScoreEnds(w) ==
    /\ worker[w].at = "score" /\ worker[w].tests = {}
    /\ Becomes(w, [worker[w] EXCEPT !.at = "insert"])
    /\ UNCHANGED <<todo, cache, tables, conflicts>>

\* A run that is stored already is kept.
InsertWPTRun(w) ==
    /\ worker[w].at = "insert"
    /\ runs' = runs \cup {worker[w].run}
    /\ Becomes(w, [worker[w] EXCEPT !.at = "upsert"])
    /\ UNCHANGED <<todo, cache, metrics, latest, conflicts>>

\* Variant: the run that is stored last is the latest.
IsLatestStored(r, f) == TRUE

\* shouldUpsertLatestMetric
IsLatest(r, f) ==
    \/ <<f, LaneOf[r]>> \notin DOMAIN latest
    \/ Start[r] > Start[latest[<<f, LaneOf[r]>>]]

\* What is scored and is no feature of the catalogue is left out.
InCatalog(scores) == DOMAIN scores \cap KnownKeys

StoredScores(r, scores) ==
    [m \in DOMAIN metrics \cup {<<r, f>> : f \in InCatalog(scores)} |->
        IF m[1] = r /\ m[2] \in InCatalog(scores) THEN scores[m[2]] ELSE metrics[m]]

\* UpsertWPTRunFeatureMetrics: one transaction.  Every score has its tests, so that nothing is left to merge.
UpsertMetrics(w) ==
    LET r == worker[w].run
        scores == worker[w].scores
        newest == {f \in InCatalog(scores) : IsLatest(r, f)}
        lane == LaneOf[r]
    IN
    /\ worker[w].at = "upsert"
    /\ metrics' = StoredScores(r, scores)
    /\ latest' = [l \in DOMAIN latest \cup {<<f, lane>> : f \in newest} |->
                     IF l[2] = lane /\ l[1] \in newest THEN r ELSE latest[l]]
    /\ Becomes(w, [Idle EXCEPT !.at = "next", !.left = worker[w].left])
    /\ UNCHANGED <<todo, cache, runs, conflicts>>

MetricsNext ==
    \/ \E w \in Workers :
          \/ TakeLane(w) \/ NextRun(w) \/ RunFails(w)
          \/ GetCachedLabels(w) \/ DownloadLabels(w)
          \/ \E t \in Tests : MigrateTest(w, t) \/ ScoreTest(w, t)
          \/ MigrationEnds(w) \/ ScoreEnds(w)
          \/ InsertWPTRun(w) \/ UpsertMetrics(w)
    \/ \E j \in Jobs : JobDies(j)

MetricsSpec == MetricsInit /\ [][MetricsNext]_metricsVars
-----------------------------------------------------------------------------
TestsOf(r, f) == {t \in Tests : Results[r][t] # None /\ f \in Migrated(Labels[t])}

SumOver(S, of) == FoldSet(LAMBDA t, n : n + of[t], 0, S)

\* The score of a feature, from these tests of a run at once.
ScoreOf(r, tests) ==
    LET told == {t \in tests : ~IsMissing(Results[r][t])}
        crashed == \E t \in tests : Results[r][t].status = "C"
        subtests == [t \in told |-> Subtests(Results[r][t])]
        passes == [t \in told |-> SubtestPass(Results[r][t])]
    IN
    [tests |-> Cardinality(tests),
     testPass |-> Cardinality({t \in tests : IsPassing(Results[r][t])}),
     subtests |-> IF crashed THEN None ELSE SumOver(told, subtests),
     subtestPass |-> IF crashed THEN None ELSE SumOver(told, passes)]

WholeScore(r, f) == ScoreOf(r, TestsOf(r, f))

\* Whatever the order of the tests, the runs and the jobs: the metrics stored
\* are the ones of all the tests of the run, labelled as the catalogue has it,
\* and the latest of a feature in a lane are those of the newest run stored.
MetricsAreCurrent ==
    /\ \A m \in DOMAIN metrics :
          m[1] \in runs /\ metrics[m] = WholeScore(m[1], m[2])
    /\ \A m \in DOMAIN metrics :
          LET l == <<m[2], LaneOf[m[1]]>> IN
          /\ l \in DOMAIN latest
          /\ <<latest[l], m[2]>> \in DOMAIN metrics
          /\ LaneOf[latest[l]] = LaneOf[m[1]]
          /\ Start[m[1]] <= Start[latest[l]]

\* A conflict means that upstream uses the old key and the new one.
UsesBothKeys == \E k \in DOMAIN MovedTo : {k, MovedTo[k]} \subseteq KeysIn(Labels)

ConflictsAreUpstream == conflicts # {} => UsesBothKeys
=============================================================================
