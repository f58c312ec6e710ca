# Verification of webstatus.dev

TLA+ models of webstatus.dev, checked with TLC and proved with TLAPS. They follow
the two streams of the program: data that jobs ingest and the site searches, counts
and shows; and what changes in that data, which is turned into events, fanned out to
subscribers and delivered. Users own the saved searches, channels and subscriptions
between the two.

    module                    models
    EventProducer             runs of one saved search: lock, commit, announcement
    SavedSearchHistory        what those runs promise (abstract)
    Differ                    what one run reports, over several runs
    Report                    what the four readers of a run's summary are told
    Batch                     the refresh of all searches, cut short and retried
    Delivery                  dispatcher, email and webhook workers, channel health
    Attempts                  the log of a channel's deliveries
    SavedSearches             searches, roles, bookmarks, references and expansion
    Subscriptions             channels and subscriptions, on top of SavedSearches
    Answers                   what each request is answered when it fails
    Catalog                   ingestion of web-features, moves, splits, system searches
    Usage                     Chromium usage: buckets, mapping, exports of days
    Metrics                   WPT runs: labels, scores, the latest metrics
    SupportStats              releases, availabilities and what is counted of them
    FeatureSearch             the filter that a query becomes, against what it says
    Pages                     every list that is read page by page
    Responses                 the cache of the backend's answers
    BulkWrite                 the concurrent bulk write of the database client
    WorkerPool                lib/workerpool
    JobOutcomes               what a caller of the pool relies on (abstract)
    *MC                       sets, bounds and symmetries for TLC
    *Proofs                   theorems and their proofs, by the streams they are about
    Induction                 induction with sets, recursion and iteration, finite sums

PROJECT.json lists, per definition, the source lines it stands for, the runs, one
change per property that makes the property fail, the hazards and the findings.
Operators whose comment starts with `Variant:` are those changes; no action of a
specification uses them.

## 1. The system

### Components and their state

| component | state | operations | hard |
|---|---|---|---|
| event producer (`workers/event_producer/pkg/producer`) | `SavedSearchState` row (lock, expiry, blob path), `SavedSearchNotificationEvents`, blobs | `ProcessSearch` | lock expiry, redelivery, crash between steps |
| differ (`.../differ`, `lib/blobtypes/featurelistdiff`) | the last state blob | `FeatureDiffer.Run` | moves, splits and deletions seen after the fetch; failing and edited queries |
| summaries (`lib/workertypes`, RSS, mail, Slack) | none | summarize, filter, render | four readers with a filter each |
| batch fan-out (`batch_handler.go`) | none | `ProcessBatchUpdate` | partial publication, retry, edits meanwhile |
| Pub/Sub client (`lib/gcppubsub`) | queue of each subscription | `Subscribe`, `Publish` | at-least-once delivery, dead letters |
| dispatcher (`workers/push_delivery`) | none | `ProcessEvent` | partial fan-out, restart |
| email worker, Chime; webhook worker, Slack | identifiers Chime has seen | `ProcessMessage`, `SendWebhook` | lost answers, duplicates |
| channel health, attempts | failure count, disabled flag, log of attempts | record success, record failure | interleaved outcomes, login in between, pruning |
| channels, subscriptions | `NotificationChannels`, `SavedSearchSubscriptions` | create, update, delete, `SyncUserProfileInfo` | limits, idempotence, aborted transactions, cascades |
| saved searches, roles, bookmarks | their tables | create, edit, delete, bookmark | references between searches, validation outside the transaction |
| feature ingestion (`web_feature_consumer`, `lib/gcpspanner`) | features, moved and split features, system-managed searches | synchronize | moves while users subscribe, failures between transactions |
| WPT ingestion (`wpt_consumer`) | runs, metrics, latest metrics, cached labels | download, migrate, score, store | overlapping jobs, order of runs, shared cache |
| browser support | releases, availabilities, support events | ingest, precalculate, count | snapshot against what changes meanwhile |
| Chromium usage (`uma_export`, `chromium_histogram_enums`) | buckets, mapping, daily and latest metrics, capstones | copy, export | renames, days out of order |
| search of features | none | parse, expand, join filters | precedence, negation, unknown values |
| lists | the cursor of a page | list | rows that come and go between pages |
| response cache | entries with a time to live | get, cache | stale entries |
| worker pool, bulk writes | goroutines, channels | `Pool.Start`, `runConcurrentBatch` | channel hand-over, closing, cancellation |
| frontend, clients, infrastructure | - | - | - |

### How they interact

    web-features, WPT, BCD, UMA --> ingestion jobs --> tables <-- search, lists, counts
                                    (pool, bulk write)   |             |
                                                         |       response cache
    batch --> ingestion-jobs topic --> event producer <--'
    edit of a query ---^                 | row, events, blobs
                                    notification topic --> RSS feed
                                         |
                                     dispatcher <-- subscriptions, channels <-- users
                            email jobs <--'  '--> webhook jobs
                                 |                  |
                            email worker      webhook worker
                                 |                  |
                               Chime          Slack webhook
                                 '-> channel health, attempts <-'

Everything in the picture is a Pub/Sub message, a Spanner transaction or a read.
Pub/Sub delivers at least once. A handler that answers "transient" or dies gets the
message again, up to `max_delivery_attempts`, and every other answer, all errors
included, acknowledges it (`lib/gcppubsub/client.go`). The only shared row with
a protocol of its own is the one with the worker lock; its commit is protected by a
fencing check. Users and jobs change queries, features and channels at any
time, between any two reads of a run. Most jobs write in several transactions,
calculated from earlier reads.

### What makes each component correct

* Event producer: the events of a search form a chain, each computed against its
  predecessor, whatever expires or is redelivered; only committed events are
  announced, once; no event names a missing blob; contention alone loses no refresh;
  every message is settled. Batches reach every search, with its query of then.
* Differ: a diff accounts for the whole difference between the recorded state and
  what it was compared with, once per feature; it agrees with the state recorded
  along with it; silence means that nothing has changed; a recovered query does
  not report what matched all along.
* Summaries: who chose a trigger hears of every change that matches it, whichever
  reader is asked and whether or not the feature still matches the search.
* Dispatcher and workers: every subscriber found has a job before the event is
  acknowledged; a job's mail arrives once; a job leaves its queue only when it has
  arrived or failed for good; subscribers that stay active are served.
* Channel health: a channel is disabled exactly at the limit of consecutive
  permanent failures; the log keeps the latest attempts.
* Accounts: a search has one owner, who finds it; limits hold under concurrent
  requests; subscriptions do not dangle and are not doubled; references can be
  expanded exactly when the searches they reach exist within the depth, and an edit
  does not break the searches that refer to it.
* Ingestion: after a job that ends well the API answers what the release says; the hook for
  moves loses no subscription, and no metrics without the target having a row that was moved; the latest metrics are of the latest run or
  day; support events are those of a snapshot, and the counts agree with them.
* Reading: a search finds what its query says; a list read to its end shows every row
  that was there all along; an answer is no older than the cache allows.
* Pool and bulk write: all jobs are processed, all errors returned, all rows written,
  no send on a closed channel, and the pool's call returns.

## 2. The models

### EventProducer, SavedSearchHistory and Batch

All rows, events and blobs are keyed by (saved search, frequency), so one pair is
modelled; pairs do not interact. A snapshot of features is the pair (version of the
query, version of the data): what the properties need is which snapshot a run saw,
and the differ's decision (`ShouldWrite`) compares both. `Differ` opens that box.

`msg` is the subscription, `row` the `SavedSearchState` row, `log` the events in
commit order, `states` and `diffs` the blobs, `topic` the announcements. A run is a
worker `w` with its program counter; each action is one call of `ProcessSearch`
(`AcquireLock`, `LoadPrevious`, `Compare`, `StoreState`, `StoreDiff`,
`PublishEvent`, `PublishNotification`, `ReleaseLock`) or the answer of the handler
(`Ack`, `Nack`). A Spanner transaction is one action: the fencing check, the row and
the event of `PublishEvent` commit together. `CallFails` lets any call fail and goes
where the code goes (`AfterFailure`). `Crash` ends a run anywhere; `LeaseLapses`
makes Pub/Sub deliver a message whose run still lives; `ExpireLock` passes the
lock's two minutes. The environment changes data, edits the query (with or without
the message it should publish) and publishes refresh commands, which carry the
query as it was then. `EarlyRedelivery`, `Crashes`, `OpErrors` and `LossyClose`
switch kinds of failure on, so that a property can be stated with the failures it
tolerates.

`SavedSearchHistory` is what the rest of the system sees: an append-only chain and
announcements of its entries. `ImplementsHistory` maps `history` to `log` and
`announced` to the triggers on the topic.

`Batch` has the searches that `EventProducer` fixes one of: users write and delete
searches, the batch lists them with their queries and publishes one command each, in
any order; a publication that fails ends the loop and the message comes back. An edit
publishes a message of its own for the "immediate" frequency only
(`gcppubsubadapters/backend.go:49`), and only logs if that fails; the other
frequencies depend on the batches.

### Differ and Report

One search over several runs. The database is a function from features to what
`GetFeature` answers (regular with a value, moved, split, gone); a query is the set
of values it matches and may fail with a user error. `FetchCurrent` and
`FetchPrevious` are the two fetches of `executePlan` with the plan between them,
`CalculateDiff` the comparison, `Investigate` one look-up of a removed feature,
`ReconcileHistory` both of its phases, `Decide` the decision and the recorded blob.
Ingestion and users act between any two of them. Which of several removed features
claims an added one depends on the order of a Go map: `Claims` has every outcome.

`Report` extends it without state: a value has a name, a baseline status and a state
per browser (`Details`), `CompareFeature` is the comparison field by field, `Highlights` the
summary with its limit, `FilterHighlights` and `MatchesTrigger` the choice by triggers,
and `ShouldNotify`, `RSSItem`, `EmailDigest` and `SlackPayload` the four readers, each
with the sorting and grouping of its own code. A line is (section, feature).

### Delivery and Attempts

One saved search with its subscribers. `note` is the queue of events, `job` the
queues of the workers; a job is identified by its message, which is new in every
fan-out. `todo` is the rest of the dispatcher's two loops (email jobs first), `due`
remembers whom the fan-out found; a publication that fails is counted and takes its
subscriber off `due`. A delivery is `Receive`, `RenderFails`, `SendEmail` or
`SendWebhook`, `Record`, `Settle`: a mail that cannot be rendered is recorded and acknowledged
without a call of Chime (`sender.go:63-79`); the send and the recording are separate calls
between which the process can die, a login can happen or the channel can be
deleted. Chime accepts an identifier once; any answer can be lost (`transient`).
`Recorded` is the transaction on the channel's health. The order of the code is
kept: the outcome is recorded before the message is settled, on each delivery anew.

`Attempts` is the log of one channel: stamps in any order, several alike, and the
pruning that counts before it inserts.

### SavedSearches, Subscriptions and Answers

A session sends one request at a time for any user. Requests that write a query are
three steps, since their references are validated before the transaction and the row
is read back after it; subscribing takes attempts that Spanner may abort, one by one, each
after what the aborted one did to the request. All other requests are one transaction.
`reply` is the status code the client sees, through the errors of the database client,
the adapter and the handler (`Answers`). A query is whether it has terms of its own and the set
of searches it refers to, by `saved:` or `hotlist:`. `Expansion` is the recursive
expansion with the path it came, as a function over depth; `AncestorDistance` the
search for referrers that bounds an edit from above. `Away` is the reference
definition: plain distance in the graph of references. Channels are email, webhook
or RSS; `PingUser` is the login with its addresses.

### Catalog

`catalog`, `moved`, `split` and `managed` are tables; `named` is the query of each
system-managed search, `followers` their subscriptions, `histories` the rows of metrics
under their primary key, a feature and a measure (the rest of the key), with the
feature each was measured for. Copies are inserted or updated under the key with the
target: they overwrite the target's own row of the measure, and of two features moved onto one
the row that comes last in the order of a map is left. The job is `UpsertFeatures`, the hook that prepares moves
(`PreDeleteHook`: lists that are read in one transaction and rewritten in others),
the copies of histories, the rewriting of searches, the deletion of children and
parents, `SyncSystemManagedSavedQuery`, and the tables of moved and split features.
Any call fails (`JobFails`), copies and deletions of metrics anywhere among their rows, and the
next job has another release. Users subscribe,
change options and unsubscribe meanwhile, and metrics are stored (`StoreMetrics`).

### Metrics, SupportStats and Usage

`Metrics` has the workers of several jobs on lanes (browser and channel): the labels
from the cache or downloaded, by reference for the one that downloads; the migration
of moved features test by test in that object; scoring; and the transactions that
store a run, its metrics and the latest metrics. `SupportStats` has
the ingestion of releases and of the versions that have a feature first, the
precalculation as a snapshot and batches written from it, and the three statistics as
operators over the tables. `Usage` has the copy of the histogram with every
transaction of its own, the exporters with days in any order, and renames of
features at any time. Both jobs take any error of a look-up for a bucket or a feature that is not
known, and go on without it (`LookUpBuckets`, `LookUpFeatures`; the ingestion of WPT runs tells the two
apart, `wpt_run_feature_metric.go:202`). `UsageIsCurrent` therefore speaks of the buckets whose look-up did not fail, and of
copies of the histogram in which none did. Buckets that Chromium stops using do not return
(`BucketsStayGone`).

### FeatureSearch and Pages

`FeatureSearch` has no protocol: a behaviour chooses a query, and the invariant
compares two readings of it. `Where` is the code's: the tree the visitor builds, with
negation pushed as far as the visitor pushes it, and the filters and joiners that are
concatenated from it, read with the precedence of SQL. `Says` is the reference: what the
grammar's documentation says. Of a tree the model keeps the root, which is what the visitor
looks at, and the text; a text is the sequence of its alternatives, each the set of the rows
that its conditions are all true of. A comparison with a missing column is true of no row,
which is all that is left of SQL's third truth value, since nothing negates a condition once it is written.
Queries are nested by parentheses and references, and `ParseTree`, `Says`, `Void` and `Plain` follow the nesting.

`Plain` says which queries are read as they are meant. The hardest part is what stands next to an
OR: a reference to a search that asks for nothing finds everything on its own and is dropped there, and so is one to a
search that only refers to such a one (`Void`).

`Pages` has the lists as records: their order (with ties, in either direction, nulls
first or last), and whether a token holds the last row, an offset, or a count. Rows come and go
between pages; a row that changes its place goes and comes.

### Responses, BulkWrite, WorkerPool and JobOutcomes

`Responses`: a handler looks up, reads the database and caches as three steps, on a
clock that ticks; `truth` is what the database answered, and from when. The operations, their statuses, and which of two
times to live they use are those of the handlers. There is no limit
to how long a handler takes in the code: `MaxHandling` is an assumption, and the
property says what follows from it.

`BulkWrite`: the caller, the buffered channel of rows, the writers, the unbuffered channel of errors, cancellation.
`WorkerPool`: sender, workers, waiter and caller of `Pool.Start`; channels are unbuffered, so a
send and its receipt are one step. `JobOutcomes` is the caller's view; the errors
gathered map to the errors returned only once the call has returned.

## 3. The runs

Each run answers one question, in about three minutes at most with two workers.

| run | question | bounds |
|---|---|---|
| `EventProducer_leases` | Is the history one chain that refines `SavedSearchHistory`, under contention, crashes, failing calls, lock expiry and takeover? Does contention alone lose a refresh? | 2 messages, 2 runs, 2 deliveries, 1 change, 1 edit |
| `EventProducer_live` | Is every message settled when runs crash and messages are delivered early? | 2 messages, 2 runs, no failing call |
| `EventProducer_fence` | violation: early redelivery passes the fencing check | 2 messages, 2 runs |
| `Report` | Do diffs account for every change, does silence mean none, and do the four readers tell the same, for every set of triggers? | 3 features, 3 values, 2 browsers, 2 queries, 3 changes, 2 highlights in a summary |
| `Differ_recovery` | violation: an edit before a recovery reports all matches | 1 feature, 3 changes |
| `Delivery_safety` | Is a fan-out complete, each job mailed once and settled when it has arrived or failed for good, and a channel disabled exactly at the limit? | 2 events, 1 address, 1 webhook, 2 fan-outs, 2 deliveries |
| `Delivery_live` | Is an active subscriber served? | 1 event, 1 webhook, 2 fan-outs, 2 deliveries |
| `WorkerPool_calls` | Errors complete, no panic, no deadlock, refinement, termination | 3 workers, 4 jobs |
| `Accounts` | Do owners, limits, references, uniqueness and cascades survive concurrent requests? | 2 users, 3 searches, 2 hotlists, 2 sessions, 2 channels, 2 subscriptions, depth 2; a user has at most 2 searches and 1 of each other thing |
| `Catalog` | Does a job that ends well leave what the release says, whatever the failed ones before it left, and what does the deletion of a moved feature take? | every release over 3 keys in which at most one key is gone without a trace, 3 jobs, 2 channels, 2 subscriptions, 1 measure |
| `SiteData` | Search, lists, metrics, statistics, bulk writes, usage, cached answers, attempts and batches: nine parts that share no modelled state, of which one moves in a behaviour | below |
| `Metrics_race` | violation: the shared labels make a worker fail with a conflict upstream does not have | as in `SiteData` |

Why the bounds are enough to be interesting:

* Two messages and two runs are what every race of the lock needs: one run is
  stopped after its comparison, the other takes the lock over, commits and releases.
  With two deliveries a message is both redelivered and dead-lettered. One change of
  the data makes the second of two runs see another snapshot than the first; a change that nobody
  reports is then visible. `EditsInCalm` keeps the edit of the query to behaviours without
  crashes and failures, where it matters for `CalmLosesNothing` (`calm` is a history variable that a crash or a failed call of a run clears); the others have the change of the data.
* Three features are the least for two removed ones that went to one place, or one
  that was split into two; three steps of the environment are needed for a feature to
  be recorded, relocated and its target to appear between two runs. The three values
  are a promotion with its release and a later change of phone and name, so that
  a feature leaves the first query because of what subscribers asked for; two
  highlights make summaries overflow.
* Two events give a channel two jobs in flight, with a limit of two failures. The
  constraint `OneEventOrOneFanOut` explores either one event whose fan-out is repeated, of whose
  jobs the workers take one, or two events fanned out once, to the webhook. Jobs
  interact only through the channel's health, which the second case covers.
* Four jobs for three workers make one worker take a second job while others report.
* In `Accounts`, three searches make a chain and a cycle beyond the depth of two. Two sessions
  are the two sides of every race; users, searches, channels and sessions are interchangeable.
  With three searches and a limit of two, a user meets the limit and two can still own a chain.
  `OnePartInUse` explores references among searches while requests of one user are in flight, or bookmarks between users,
  or channels and subscriptions to one search: these parts meet only in the deletion of a search,
  which all three have. The view leaves out the last answer.
* In `Catalog`, three keys are enough to move two features onto one, onto one that exists, onto a
  new one, and to split one; three jobs make one that succeeds, one that fails anywhere and one
  that succeeds. `FollowersOrHistories` keeps subscriptions and metrics to behaviours of their own, since no step relates
  them. Rows of different measures are copied and deleted independently, so one is enough.
* `SiteData`: queries of up to three terms, with references and parentheses, over rows
  with and without each column, before, in and after the range that is asked for;
  lists of six rows with ties, pages of two, two rows coming or going; three runs of
  two lanes, two tests, two workers of one job and one of another, of which `TwoAtATime`
  keeps two busy (one of them the first worker); two releases of web-features and
  three browsers, one of them a phone's; five rows, batches of two and two writers, so
  that the channel fills; two revisions of a histogram with a bucket removed, renamed and added;
  one exporter, which takes days in any order (two were explored to depth 29 without a
  violation); two handlers and answers of both times to live, as short as 1 and 2 ticks; six
  attempts of which three are kept; one batch message, delivered three times, over two searches.

Deadlock is checked for `WorkerPool`, where the caller must return. The other models
may stop: their bounds on changes, edits and messages are used up, and all queues
are settled.

### Fairness

`EventProducer` and `Delivery` assume weak fairness of each run's next step (a live
process does not stop between two statements), of the delivery of each pending
message (Pub/Sub), and of the expiry of the lock (time passes). Crashes, lapses,
edits, logins and changes are never forced, and no choice between success and
failure of a call is fair: a call may fail every time. That is why "settled" includes the
dead-letter queue. `WorkerPool` assumes only that the scheduler runs some goroutine
that can run. The other modules state safety only.

### Assumptions of the bounds on time

`MaxHandling` in `Responses` is the longest a handler may take between reading the
database and leaving its answer in the cache; nothing in the code limits it, and
`AnswersAreRecent` counts it on top of the time to live (`CACHE_TTL` is one hour and
`AGGREGATED_FEATURE_STATS_TTL` one day in production). The cache's keys begin with the
revision of the backend, so one deployment is modelled.

## 4. Findings

1. **Fencing by trigger** (`EventProducer_fence`). The lock's owner is the
   identifier of the message, not of the run, so the two runs of a message that
   Pub/Sub delivers twice pass the fencing check alike. In the run the first one is
   stopped between its comparison and its commit until its lock has expired and its
   message's lease has lapsed. Another trigger's run takes the expired lock over, compares
   with the same state, commits and releases the lock; the message is delivered again and its
   second run takes the free lock; then the stopped run passes the check and commits a
   comparison against a state that is no longer the last one.
2. **Recovery with an edit spams** (`Differ_recovery`). The plan tests for an edited
   query before a recovered one; the flush then compares with the empty snapshot
   recorded while the query failed, and reports all matches as added. The test for
   recovery without an edit asserts that none is.
3. **The local cache shares what it caches** (`Metrics_race`). `Get` copies, `Cache` does
   not, and the caller that has just cached the labels migrates them in place. Another
   worker copies them half-migrated and reports a conflict that upstream does not have.

Expectations that the code does not meet are stated in the modules without a run of their own. TLC refutes
each with the constants given or with those of the module's run:

| property | refuted with | why |
|---|---|---|
| `NoSilentLoss` (EventProducer) | 2 messages, 2 runs, one failing call or one crash | every failure after the lock is taken is acknowledged (`producer.go:136`), although the workers' guide (`.agent/skills/webstatus-workers/SKILL.md:55`) has transient errors given back; after a crash, a trigger that has committed takes over the lock of a run that has seen more, and cannot commit again |
| `CommittedEventsAreAnnounced` (EventProducer, `FairSpec`) | 1 message, 1 run, `OpErrors` | publication after the commit fails; a retry finds the event and stops |
| `DiffMatchesEvent` | 2 messages, 2 runs, `Crashes` | a redelivered trigger writes another diff over the one of its event |
| `QueryChangesFollowEdits` | 3 messages, 1 edit | a refresh command carries the query it was listed with |
| `EventBlobsExist` | `LossyClose` | the error of closing a writer is not returned |
| `TransientFailuresDoNotDisable` (Delivery) | 1 address | logging in re-enables a channel without resetting its count, and the next transient failure disables it (`notification_channel_state.go:151`, against the comment at 126) |
| `RemovedAddressStaysDisabled` | 1 address | the outcome of a mail in flight re-enables the channel |
| `DeliveriesAreLogged` | 1 address, 2 deliveries | the duplicate's answer is recorded as a failure |
| `CyclesAreIntercepted` (SavedSearches) | 1 search, or 2 sessions | an edit that refers to the search itself is accepted, and edits side by side close a cycle, although the search grammar's guide (`.agent/skills/webstatus-search-grammar/SKILL.md:54`) has cycles intercepted |
| `ReconciliationKeepsFollowers` (Catalog) | the run's | of two features moved onto a new one only the first hands on its search (`web_features.go:394-502`, against the comment at 509, which has redundant subscriptions go); the other's search is left without a feature, and the reconciliation deletes it with its subscriptions |
| `GroupsAreIdentical`, `MessagesHaveContent` (Report) | the run's | desktop and mobile are told as one although they came from different releases; an empty list of triggers gets a message without content |
| `NegationExcludes`, `ExcludedAreHidden` (FeatureSearch) | the run's | negation stops at the first level and is ignored for references; filters are joined without parentheses |
| `MappingFollowsLabels`, `RenamedFeaturesStayMapped` (Usage) | the run's | the bucket of a mapped feature is never updated, and a renamed one loses its bucket at the next copy |

Smaller things the models show, which no property excludes:

* Accounts. `CreateSavedSearchSubscription` writes the RSS channel's identifier into the request
  inside the closure that Spanner may run again; the second attempt checks it as the caller's own
  channel, which does not exist, and the request ends with 500 (`RSSChannelIsFoundOrCreated`
  speaks of requests without an aborted attempt). A missing search or channel when
  subscribing, and a missing channel when updating one, are internal errors; a webhook turned into
  an RSS channel is stored, but its answer is a failure; email channels count against the limit without being
  limited by it; deleting a search leaves the references to it.
* Reports. Added features never carry a promotion, an event that is only a change of the
  query notifies nobody, a summary that is cut may lose what a subscriber asked for, and Slack leaves out
  browsers that lose their entry.
* Catalog. A subscription made between the listing of a moved feature's subscriptions and the
  deletion of its search is lost; one that is deleted in that window fails the job; the
  moved features are all rewritten by every job, since the keys of the rows read and the rows wanted differ. A move overwrites
  the target's own metrics of the same run, and those of one of two features moved onto one are lost; metrics stored for a moved
  feature between the reading of the copies and the deletion are lost, too.
* Search. `A OR B C` means `A OR B OR C`; `-available_date` finds what is available at all; negated terms
  never find rows without the column.
* Usage and support. A capstone is written although buckets were skipped: one that is known and whose look-up failed is missing
  from that day for good, since a day with a capstone is not exported again (`daily_chromium_histogram_metrics.go:63`). A feature whose
  look-up failed loses the mapping it had until the next copy (`chromium_histogram_enum_consumer.go:121`). A second histogram would
  delete the first one's values; events of a browser that loses all its availabilities stay; a release that changes its date
  after the precalculation is refused.
* Bulk writes. If all writers fail before the caller listens, it blocks for ever; a cancelled
  write may return no error; writers that fail later stay blocked on the channel of errors.
* Deliveries. A mail that cannot be rendered counts as a failure of the channel's delivery, and the job is acknowledged without
  another try.
* Attempts and answers. An attempt recorded late may outlive a newer one that was pruned before; a slow handler may
  put an older answer over a newer one; each page of a list is cached for a time of its own.

## 5. The proofs

The theorems hold for all values of the constants: any number of messages, runs, features,
channels, users, searches, workers, jobs, rows and requests, without the bounds of the runs. Every
safety property of a passing run is one of them.

| module | about | theorems | assumptions |
|---|---|---|---|
| `EventProducerProofs` | `EventProducer` | `Typing`, `AnnouncedOnceHolds`, `PathIsLastCommitHolds` | none |
| | | `LineageHolds`, `HistoryRefined` | `~EarlyRedelivery` |
| | | `EventBlobsExistHolds` | `~LossyClose` |
| | | `CalmLosesNothingHolds` | `~EarlyRedelivery`, `~LossyClose` |
| `ReportProofs` | `Differ` | `Typing`, `DiffExplainsChangeHolds`, `OneStoryPerFeatureHolds`, `VerdictsAreRecordedHolds`, `SilenceMeansNoChangeHolds` | none |
| | `Report` | `ReadersAgreeHolds`, `ChangesReachSubscribersHolds`, `DigestTellsBrowsersApartHolds` | none |
| `DeliveryProofs` | `Delivery` | `Typing`, `DisabledByFailuresOnlyHolds`, `EmailSentOnceHolds`, `AckedJobsAreHandledHolds`, `FanOutIsCompleteHolds` | none |
| `WorkerPoolProofs` | `WorkerPool` | `PoolTyping`, `ReturnsAllErrorsHolds`, `NoSendOnClosedChannelHolds`, `OutcomesRefined` | none |
| `AccountsProofs` | `SavedSearches`, `Subscriptions` | `SubscribersTyped`, `OwnersFind`, `LimitsAreKept`, `SubscriptionsSound`, `RSSFound`, `ExpansionReaches` | none |
| | | `EditsKeep` | `MaxDepth = 2` |
| `CatalogProofs` | `Catalog` | `SyncedCatalogComplete`, `NothingLostInMoves` | none |
| | `SupportStats` | `StatsAlwaysAgree` | none |
| | `Metrics` | `MetricsStayCurrent` | none |
| `SiteDataProofs` | `Attempts`, `Responses`, `BulkWrite`, `Batch`, `Usage`, `Pages` | `LatestAttemptsAreKeptHolds`, `AnswersAreRecentHolds`, `BulkWritesComplete`, `BatchReaches`, `UsageStaysCurrent`, `PagesShow` | none |
| | `FeatureSearch` | `SearchesFind` | none |

`Induction` has lemmas only: induction over the natural numbers and over finite sets, with a set in
place of a predicate; that a function of sets defined by iteration exists, and one defined by
recursion over a rank (`Recursion`: the fixed point of a step that looks only at lower ranks); and sums over finite
sets, as folds. It rests on the library's theorem that the strict subsets of finite sets are
well-founded.

The assumptions on failures are not conveniences: without each of them the property is false,
and section 4 says which failure breaks it. `MaxDepth = 2` is the constant of the code
(`spanneradapters/backend.go:1417`); with 3 TLC refutes `EditsKeepOthersExpandable`, since the search for
referrers then does not notice an edit that closes a cycle of two.
`Typing`, `PoolTyping` and `PathIsLastCommitHolds` are proved and have no run of their own.

All proofs also use the named assumptions on constants in the modules, which TLC evaluates in the
runs. Those that say more than a type:

* `Report` leaves out values that differ only in a browser that appears as unavailable, which the
  comparison ignores, so that two different values are a change.
* `Catalog`: a key is a feature, moved, or split, in one release, and a move or a part of a split
  goes to a feature. A split has at least one part (the schema of web-features asks for two).
* `Metrics`: a moved feature's target has not been moved itself (`SyncMovedWebFeatures` looks it up among
  the features, `moved_web_features.go:97-104`). Through a chain of moves, a worker that copies labels
  migrated already would migrate them again.
* `Usage`: a key that was given up is taken into use at most once, there is a first revision of the
  histogram, and buckets do not return.
* `FeatureSearch`: a query is a sequence of criteria; the query in parentheses or behind a reference is nested
  less deep than the one it is in, which is what the refusal of cycles gives (`SavedSearches`); a row has a key,
  and its dates are numbers where they are known.
* The sets that are counted are finite: addresses, rows of lists, tests, features of the statistics.

**The chain of events.** `Lineage` alone is not inductive: it does not say why a run
that passes the fencing check read the last event. `ChainInv` adds it: as long as the
lock is held by the trigger of a run that has read, and that run has not given its
message back, no one else can have committed since (`Fenced`, `Fresh`); states are stamped by one
counter and the log is ordered by it (`Stamped`, `Increasing`), so that the latest event by timestamp is the last by commit. A run whose lock was
taken over fails the check, and to get the lock back its trigger must be delivered
again, which without early redelivery means that the run has ended (`Leased`: a run
that is not idle holds its message). That step is exactly what finding 1 breaks. The
refinement follows: a commit extends the history, an announcement announces, and
every other step stutters.

**No refresh lost to contention.** A run whose lock was taken over computes, fails the fencing check and is
acknowledged; the change it was sent for must be in what another run commits. `CalmInv` says which: the run that owns the
lock answers for every message that has had the lock before (`Answerable`) - what it computes was fetched after it took the
lock, hence after each of them was sent (`Sent`) - and hands the duty on by committing, by finding nothing new, or
to the run that takes the lock from it. A free lock means that all is covered (`Owned`), and when every message
is acknowledged no run is left to hold it. The owner never fails the check itself, since a message that may still be
committed has no event (`Uncommitted`).

**Reconciliation.** `Reconciliation` is the heart of the proofs about `Differ`. Every look-up
ends in one of four fates (`FateInv`, from `WorldInv`: a relocated feature went
somewhere), so the removed features are divided without loss; an added feature is
taken off only when some relocation names it, and then that relocation matches
(`ClaimsAre`, `RelocationsHave`), whichever claimant the map's order gives. `TargetInv`
says what the recorded state is compared with in each mode of the plan, and `ErrorInv` that a failed
query recorded nothing; together they make silence mean what it should.

**Reports.** The proofs about `Report` extend that invariant: at the decision, the fate of a removed
feature is what the second look found (so that its change is the one the summary has), and the
target covers every feature that was compared. The readers are related highlight by highlight:
each category has a section in every reader, and a highlight that matches a trigger has
content in each.

**Accounts.** What the properties say of the tables is inductive once three things are known of the requests
on their way: one that creates a search has a user and a query (`Creating`), one that subscribes holds
what its last attempt left, and what is counted against a limit is finite (`CountsAreFinite`). The limits then
follow because the count and the insertion are one transaction. A new RSS channel has an identifier no subscription
has, so that a request for it is refused for a reason of its own only.

**Expansion.** `Expansion`, with the path it came, finds a search exactly if nothing that is reached
within the depth is missing and what is left at the depth refers to nothing. The path makes no
difference to what is reached, since whatever comes back to it is reached sooner without; that is induction over the
distance. For edits, `AncestorDistance` bounds from above how far the edited search is from those that refer to it; with the
depth of what it will reach the sum is within the limit. `EditsInv` keeps the validation's
answer while the edit is fresh (nobody has written a query since), and is what finding cycles side by side breaks.

**The catalogue.** Searches are numbered by the job that made them, so that no two features share one. What
the hook has planned is still what the tables call for when the job carries it out (`PlanOK`), because users
change subscriptions only. A subscription to a feature that is moved is planned for, has its double at the target, or its user has been at
work since it was listed (`MovesInv`); that is what the deletion of its search needs. A row of metrics of a moved feature that was there when the
copies were read is in the plan under its target (`Brought`), and after the copy the target's row is one of those moved onto it, until one of them is stored anew.

**Statistics.** Every event is of a date on which its browser released (`EventsReleased`), and when a calculation that nothing has outdated
is written, the events are its rows (`CalculationIsKept`). A feature is counted at the first release that has it, so that
the sets that are summed up are disjoint and their union is what the browser supports by then.

**Metrics.** Labels are, test by test, upstream's or migrated, whoever migrates the object in the cache; since targets are not moved,
migrating twice is migrating once. What a worker has scored is `ScoreOf` the tests it has taken: a test more
adds to each of its sums, and a crash voids them for good. The latest of a lane only moves on to runs that started later.

**Usage.** `UsageInv` relates each feature's bucket to the revision of the file that was copied last and to the renames since;
a day's rows are those of the buckets known when it was exported and found. A failed look-up takes the bucket off what the export answers
for, and the mapping off what it is compared with until the next copy.

**Lists.** The orders are total on rows that differ, so the row a cursor names divides the others; a page takes the first ones after it. For an
offset, a row that comes or goes moves the front by one at most, which is what the property allows for.

**Searching.** The functions over queries are defined by recursion over the nesting, and are proved to exist and to be the only
fixed points of their bodies. By induction over the nesting (`AllRead`), a query whose text is empty is one that is void, and the text of any
other that is `Plain` for a row is true of it exactly if the query says so. Within a query the argument goes from criterion to criterion
(`UpToReads`): the last alternative of the text so far is true of the row exactly if the criteria from the last OR on are met, an earlier one
exactly if the criteria between two ORs are, and the keyword that the parser would use next is the operator that was written last.
That each criterion contributes at most one alternative is where a negated range, which becomes an OR, needs to be on its own.
Features that are excluded stay out as long as the text is one alternative (`OneAlternative`), since the filter that excludes them is joined to the first one only.

**Delivery and the pool.** A job's identifier is in Chime's memory exactly if its mail is in
the inbox; an acknowledgement follows an answer of the current delivery, or a mail that could not be rendered, only; what a
fan-out has not published is still in `todo`, or counted as failed. A batch is the same with searches: what it has listed
is published, or still to be, or the message comes back. The pool's invariant divides the jobs into
those not sent, those in a worker's hands and those with an outcome, and the failed ones into
reported and about to be reported.

**Bulk writes, answers, attempts.** Every row taken is in the hands of one writer, in the table, or
was lost by a writer that has failed or seen the cancellation; a writer that is done without either
has nothing in its hands. An answer in the cache was true at a time that lies no further back than what is
left of its time to live allows, `MaxHandling` added; a handler carries an answer that was true since it began.
In the log of attempts each row has the place it was recorded at, and places are given in turn, so that
a new attempt is a row of its own and what is older than a pruned one came after it.

Only model-checked: `MessagesSettle`, `ActiveSubscribersAreServed` and `Termination`, which are liveness under
fairness and out of the prover's reach.

## 6. Not modelled

* The text of queries (the ANTLR grammar) and the columns of search results
  (`feature_base_query.go`): data conversion. Blob and event formats, of which there is one version each.
* Wording and layout of mails, Slack messages and feeds; HTTP routing, authentication, CORS; the frontend;
  the clients of GitHub, Chime and WPT beyond what their answers are.
* Of ingestion: specifications, groups, snapshots, discouraged details, developer signals and vendor positions, each one file
  that is converted and stored by the synchronizer that `Catalog` models for features; the filter of the BCD consumer; the order of the
  features of hotlists.
* Clocks of hosts that disagree, and the wait for a lease extension.
* Tools for development (`util/cmd/load_fake_data`) and the infrastructure, except its dead-letter policies and
  times to live, which are constants.

## 7. Plan

Done: the pipeline from a trigger to the reader of a notification, the accounts, ingestion of features, metrics,
support and usage, searching, listing and caching, and the proof of every safety property that a run checks.

Next, in this order:

1. A relation between the diffs of consecutive runs in `Differ`, for edited queries.
2. `Batch` composed with `EventProducer` through `SavedSearchHistory`: every change is announced in
   the end when batches keep coming.
3. Clocks that disagree in `EventProducer`.
