------------------------------- MODULE Catalog -------------------------------
(***************************************************************************)
(* The catalogue of web features and the job that brings it in line with a *)
(* release of web-features.  A release lists its features; a feature of an *)
(* earlier release may have been moved onto another, or split into others. *)
(*                                                                         *)
(* Every feature has a search of its own, that the system manages and that *)
(* users subscribe to.  The job writes in many transactions: it lists what *)
(* depends on a moved feature in one, rewrites it in others and deletes    *)
(* what is left, while users go on subscribing.  Any call may fail, which  *)
(* ends the job; a later job starts over, maybe with another release.      *)
(***************************************************************************)
EXTENDS Naturals, FiniteSets

CONSTANTS
    Keys,              \* keys of features, which stand for their identifiers
    Releases,          \* releases of web-features, as the parser returns them
    FollowerChannels,  \* notification channels
    FollowerIds,       \* bound: identifiers of subscriptions
    Settings,          \* frequency and triggers of a subscription
    Measures,          \* what a row of metrics is about besides its feature: the
                       \* rest of its primary key (a run, a browser, a bucket)
    MaxSyncs           \* bound: jobs

\* What web-features guarantees: a redirect leads to a feature of the release, a
\* split to one at least.
ASSUME ReleasesAssumption ==
    \A r \in Releases :
        /\ r.features \subseteq Keys
        /\ DOMAIN r.moved \cup DOMAIN r.split \subseteq Keys \ r.features
        /\ DOMAIN r.moved \cap DOMAIN r.split = {}
        /\ \A k \in DOMAIN r.moved : r.moved[k] \in r.features
        /\ \A k \in DOMAIN r.split : r.split[k] # {} /\ r.split[k] \subseteq r.features

VARIABLES
    catalog,    \* WebFeatures: the keys stored
    named,      \* SavedSearches of scope SYSTEM_MANAGED: the feature each asks for
    managed,    \* SystemManagedSavedSearches: the search of each feature
    followers,  \* the subscriptions to those searches
    histories,  \* the rows of metrics, histograms and signals: by feature and
                \* measure, the feature the row was measured for
    moved,      \* MovedWebFeatures
    split,      \* SplitWebFeatures: <<original, target>>
    job,        \* the job in progress, or the last one
    touched     \* (history) channels whose user changed a subscription, and
                \* measures stored, since the job listed what it moves

searchTables == <<named, managed>>
redirectTables == <<moved, split>>
catalogVars == <<catalog, named, managed, followers, histories, moved, split,
                 job, touched>>

NoMoves == [k \in {} |-> k]
NoRelease == [features |-> {}, moved |-> NoMoves, split |-> NoMoves]
NoPlan == [copied |-> NoMoves, rehomed |-> NoMoves, renamed |-> NoMoves,
           adopted |-> NoMoves]

CatalogInit ==
    /\ catalog = {}
    /\ named = NoMoves
    /\ managed = NoMoves
    /\ followers = NoMoves
    /\ histories = NoMoves
    /\ moved = {}
    /\ split = {}
    /\ job = [at |-> "idle", n |-> 0, release |-> NoRelease, plan |-> NoPlan,
              done |-> FALSE]
    /\ touched = {}

Only(f, S) == [k \in DOMAIN f \cap S |-> f[k]]
Over(f, g) == [k \in DOMAIN f \cup DOMAIN g |-> IF k \in DOMAIN f THEN f[k] ELSE g[k]]

\* Subscriptions go with their search.
WithoutSearches(S) ==
    Only(followers, {d \in DOMAIN followers : followers[d].search \notin S})

Goto(step) == job' = [job EXCEPT !.at = step]
-----------------------------------------------------------------------------
(* The users, and the workflows that store metrics *)

FollowersOf(s) == {d \in DOMAIN followers : followers[d].search = s}
ChannelsFollowing(s) == {followers[d].channel : d \in FollowersOf(s)}

\* A subscription is created once per channel and search.
Follow(c, s, o) ==
    /\ c \notin ChannelsFollowing(s)
    /\ \E d \in FollowerIds \ DOMAIN followers :
          followers' = Over([e \in {d} |-> [channel |-> c, search |-> s, settings |-> o]],
                            followers)
    /\ touched' = touched \cup {c}

Adjust(d, o) ==
    /\ followers' = [followers EXCEPT ![d].settings = o]
    /\ touched' = touched \cup {followers[d].channel}

Unfollow(d) ==
    /\ followers' = Only(followers, FollowerIds \ {d})
    /\ touched' = touched \cup {followers[d].channel}

UserActs ==
    /\ \/ \E c \in FollowerChannels, s \in DOMAIN named, o \in Settings : Follow(c, s, o)
       \/ \E d \in DOMAIN followers : Unfollow(d) \/ \E o \in Settings : Adjust(d, o)
    /\ UNCHANGED <<catalog, searchTables, histories, redirectTables, job>>

\* The metrics of a feature that is stored are inserted or updated.
StoreMetrics(k, m) ==
    /\ k \in catalog
    /\ histories' = Over([row \in {<<k, m>>} |-> k], histories)
    /\ touched' = touched \cup {m}
    /\ UNCHANGED <<catalog, searchTables, followers, redirectTables, job>>
-----------------------------------------------------------------------------
(* The job: the features *)

Gone == catalog \ job.release.features

\* The moved features that are still stored.
Sources == DOMAIN job.release.moved \cap catalog
Target(k) == job.release.moved[k]

\* New features are inserted without a search, and features that the release
\* no longer has are still there.
UpsertFeatures(r) ==
    /\ job.at = "idle" /\ job.n < MaxSyncs
    /\ catalog' = catalog \cup r.features
    /\ job' = [at |-> IF catalog \subseteq r.features THEN "reconcile" ELSE "plan",
               n |-> job.n + 1, release |-> r, plan |-> NoPlan, done |-> FALSE]
    /\ touched' = {}
    /\ UNCHANGED <<searchTables, followers, histories, redirectTables>>

\* The features moved onto t that have metrics of a measure, and these metrics.
Moving(t, m) == {k \in Sources : Target(k) = t /\ <<k, m>> \in DOMAIN histories}
Carried(t, m) == {histories[<<k, m>>] : k \in Moving(t, m)}

\* The rows to be written in the name of the targets, those of the source that
\* comes last if several have one: the order is the random one of a map.
Copies ==
    LET rows == {row \in job.release.features \X Measures :
                    Moving(row[1], row[2]) # {}}
    IN {copied \in [rows -> Keys] : \A row \in rows : copied[row] \in Carried(row[1], row[2])}

Listed == {k \in Sources : k \in DOMAIN managed}
OntoKnown == {k \in Listed : Target(k) \in DOMAIN managed}
OntoNew == Listed \ OntoKnown
FeatureOf(s) == CHOOSE k \in DOMAIN managed : managed[k] = s

\* Subscriptions of features moved onto one that has a search, but for those of
\* the channels that are subscribed to it: as rows to be written.
Rehomed ==
    LET new(d) == managed[Target(FeatureOf(followers[d].search))] IN
    [d \in {d \in UNION {FollowersOf(managed[k]) : k \in OntoKnown} :
               followers[d].channel \notin ChannelsFollowing(new(d))} |->
        [followers[d] EXCEPT !.search = new(d)]]

\* The search of a feature moved onto one without a search is to be that one's.
Renamed == [s \in {managed[k] : k \in OntoNew} |-> Target(FeatureOf(s))]

\* Of two features moved onto one, the last in the random order of a map.
Adoptions ==
    {heirs \in [{Renamed[s] : s \in DOMAIN Renamed} -> DOMAIN Renamed] :
        \A t \in DOMAIN heirs : Renamed[heirs[t]] = t}

\* The hook before the deletion reads what the transactions then write.
PreDeleteHook ==
    /\ job.at = "plan"
    /\ \E copied \in Copies, adopted \in Adoptions :
          job' = [job EXCEPT
                    !.at = "copy",
                    !.plan = [copied |-> copied, rehomed |-> Rehomed,
                              renamed |-> Renamed, adopted |-> adopted]]
    /\ touched' = {}
    /\ UNCHANGED <<catalog, searchTables, followers, histories, redirectTables>>

\* Variant: a row is inserted where the target has none.
CopyHistoriesInsertOnly ==
    /\ job.at = "copy"
    /\ histories' = Over(histories, job.plan.copied)
    /\ Goto("searches")
    /\ UNCHANGED <<catalog, searchTables, followers, redirectTables, touched>>

\* Rows are inserted or updated under the primary key with the target: a row of
\* its own for the same measure is overwritten.
CopyHistories ==
    /\ job.at = "copy"
    /\ histories' = Over(job.plan.copied, histories)
    /\ Goto("searches")
    /\ UNCHANGED <<catalog, searchTables, followers, redirectTables, touched>>

\* The rows are written as they were read; one that is gone fails the job.
RewriteSearches ==
    /\ job.at = "searches"
    /\ DOMAIN job.plan.rehomed \subseteq DOMAIN followers
    /\ followers' = Over(job.plan.rehomed, followers)
    /\ named' = Over(job.plan.renamed, named)
    /\ Goto("associate")
    /\ UNCHANGED <<catalog, managed, histories, redirectTables, touched>>

\* The search that changes features is detached from the old one, or else it
\* would be deleted with it.
Detached(m) == {k \in DOMAIN m : m[k] \in DOMAIN job.plan.renamed}

Associate ==
    /\ job.at = "associate"
    /\ managed' = Over(job.plan.adopted,
                        Only(managed, DOMAIN managed \ Detached(managed)))
    /\ Goto("children")
    /\ UNCHANGED <<catalog, named, followers, histories, redirectTables, touched>>

RowsOf(S) == {row \in DOMAIN histories : row[1] \in S}

\* Metrics, events and searches of the features to be deleted.
DeleteChildren ==
    LET searches == {managed[k] : k \in DOMAIN managed \cap Gone} IN
    /\ job.at = "children"
    /\ histories' = Only(histories, DOMAIN histories \ RowsOf(Gone))
    /\ managed' = Only(managed, DOMAIN managed \ Gone)
    /\ named' = Only(named, DOMAIN named \ searches)
    /\ followers' = WithoutSearches(searches)
    /\ Goto("parents")
    /\ UNCHANGED <<catalog, redirectTables, touched>>

\* Whatever refers to the features is deleted with them.
DeleteParents ==
    /\ job.at = "parents"
    /\ catalog' = catalog \ Gone
    /\ managed' = Only(managed, catalog')
    /\ histories' = Only(histories, DOMAIN histories \ RowsOf(Gone))
    /\ moved' = {row \in moved : row.to \notin Gone}
    /\ split' = {row \in split : row[2] \notin Gone}
    /\ Goto("reconcile")
    /\ UNCHANGED <<named, followers, touched>>
-----------------------------------------------------------------------------
(* The job: the searches and the redirects *)

\* Every feature gets a search that asks for it, and a search no feature has is
\* deleted.
NewSearch(k) == [feature |-> k, n |-> job.n]

SyncSystemManagedSavedQuery ==
    LET missing == catalog \ DOMAIN managed
        orphans == DOMAIN named \ {managed[k] : k \in DOMAIN managed}
        created == [k \in missing |-> NewSearch(k)]
    IN
    /\ job.at = "reconcile"
    /\ managed' = Over(created, managed)
    /\ named' = [s \in {managed'[k] : k \in DOMAIN managed'} |->
                    CHOOSE k \in DOMAIN managed' : managed'[k] = s]
    /\ followers' = WithoutSearches(orphans)
    /\ Goto("moved")
    /\ UNCHANGED <<catalog, histories, redirectTables, touched>>

\* Rows are told apart by their identifiers: every one is new, and every one
\* that was there is deleted, in a transaction of its own.
MovedRow(k) == [original |-> k, to |-> Target(k), n |-> job.n]

InsertMoved ==
    /\ job.at = "moved"
    /\ moved' = moved \cup {MovedRow(k) : k \in DOMAIN job.release.moved}
    /\ Goto("dropMoved")
    /\ UNCHANGED <<catalog, searchTables, followers, histories, split, touched>>

\* Variant: rows are told apart by the feature that was moved.
DropMovedByKey ==
    /\ job.at = "dropMoved"
    /\ moved' = {row \in moved : row.original \in DOMAIN job.release.moved}
    /\ Goto("split")
    /\ UNCHANGED <<catalog, searchTables, followers, histories, split, touched>>

DropMoved ==
    /\ job.at = "dropMoved"
    /\ moved' = {row \in moved : row.n = job.n}
    /\ Goto("split")
    /\ UNCHANGED <<catalog, searchTables, followers, histories, split, touched>>

\* Rows are told apart by what they say.
SplitRows ==
    UNION {{k} \X job.release.split[k] : k \in DOMAIN job.release.split}

InsertSplit ==
    /\ job.at = "split"
    /\ split' = split \cup SplitRows
    /\ Goto("dropSplit")
    /\ UNCHANGED <<catalog, searchTables, followers, histories, moved, touched>>

DropSplit ==
    /\ job.at = "dropSplit"
    /\ split' = split \cap SplitRows
    /\ job' = [job EXCEPT !.at = "idle", !.plan = NoPlan, !.done = TRUE]
    /\ touched' = {}
    /\ UNCHANGED <<catalog, searchTables, followers, histories, moved>>

\* The metrics are in several tables, and large tables are written in batches: a
\* copy or a deletion that fails may have come to any of the rows.
PartlyCopied ==
    /\ job.at = "copy"
    /\ \E written \in SUBSET DOMAIN job.plan.copied :
          histories' = Over(Only(job.plan.copied, written), histories)

PartlyDeleted ==
    /\ job.at = "children"
    /\ \E deleted \in SUBSET RowsOf(Gone) :
          histories' = Only(histories, DOMAIN histories \ deleted)

\* A call fails, or the process dies.
JobFails ==
    /\ job.at # "idle"
    /\ PartlyCopied \/ PartlyDeleted \/ UNCHANGED histories
    /\ job' = [job EXCEPT !.at = "idle", !.plan = NoPlan]
    /\ touched' = {}
    /\ UNCHANGED <<catalog, searchTables, followers, redirectTables>>

JobSteps ==
    \/ \E r \in Releases : UpsertFeatures(r)
    \/ PreDeleteHook
    \/ CopyHistories
    \/ RewriteSearches
    \/ Associate
    \/ DeleteChildren
    \/ DeleteParents
    \/ SyncSystemManagedSavedQuery
    \/ InsertMoved
    \/ DropMoved
    \/ InsertSplit
    \/ DropSplit
    \/ JobFails

CatalogNext ==
    \/ UserActs
    \/ \E k \in Keys, m \in Measures : StoreMetrics(k, m)
    \/ JobSteps

CatalogSpec == CatalogInit /\ [][CatalogNext]_catalogVars
-----------------------------------------------------------------------------
(* What the API answers *)

Regular(k) == [is |-> "regular", features |-> {k}]
Moved(k) == [is |-> "moved", features |-> {k}]
Split(S) == [is |-> "split", features |-> S]
Unknown == [is |-> "unknown", features |-> {}]

\* The first row of several is as good as any.
Redirects(k) == {row.to : row \in {row \in moved : row.original = k}}
Parts(k) == {row[2] : row \in {row \in split : row[1] = k}}

GetFeature(k) ==
    CASE k \in catalog -> {Regular(k)}
      [] k \notin catalog /\ Redirects(k) # {} -> {Moved(t) : t \in Redirects(k)}
      [] k \notin catalog /\ Redirects(k) = {} /\ Parts(k) # {} -> {Split(Parts(k))}
      [] OTHER -> {Unknown}

\* What the release says of a key.
Published(r, k) ==
    CASE k \in r.features -> Regular(k)
      [] k \in DOMAIN r.moved -> Moved(r.moved[k])
      [] k \in DOMAIN r.split -> Split(r.split[k])
      [] OTHER -> Unknown
-----------------------------------------------------------------------------
(* Safety *)

\* Whatever the jobs before it left behind, after a job that ends well the API
\* answers what the release says, every feature has one search, which asks for
\* it, and no other search is left.
SyncedCatalogIsComplete ==
    job.at = "idle" /\ job.done =>
        /\ \A k \in Keys : GetFeature(k) = {Published(job.release, k)}
        /\ DOMAIN managed = catalog
        /\ DOMAIN named = {managed[k] : k \in catalog}
        /\ \A k \in catalog : named[managed[k]] = k

\* A subscription to a feature that was moved is deleted only if one is found under
\* the feature it was moved onto, or the user of its channel has changed a
\* subscription since the job listed them.
SubscriptionsMoveAlong(k) ==
    k \in DOMAIN managed =>
        \A d \in FollowersOf(managed[k]) \ DOMAIN followers' :
            \/ followers[d].channel \in touched'
            \/ \E e \in DOMAIN followers' :
                  /\ followers'[e].channel = followers[d].channel
                  /\ Target(k) \in DOMAIN managed
                  /\ followers'[e].search = managed[Target(k)]

\* A row of its metrics is deleted only if the feature it was moved onto has a row of
\* the same measure that came with a move, whatever it had before and however far an
\* earlier job got: that row, or the one of another feature moved onto it, which
\* overwrites the first.  This leaves out measures stored since the job read what
\* it copies.
MetricsMoveAlong(k) ==
    \A m \in Measures \ touched :
        <<k, m>> \in DOMAIN histories \ DOMAIN histories' =>
            /\ <<Target(k), m>> \in DOMAIN histories'
            /\ histories'[<<Target(k), m>>] \in Carried(Target(k), m)

\* The deletion of features takes nothing of those that were moved, subscriptions
\* or metrics, but what has moved along with them.
NothingIsLostInMoves ==
    [][\A k \in Sources : job.at = "children" =>
          SubscriptionsMoveAlong(k) /\ MetricsMoveAlong(k)]_catalogVars

\* Expectation that the code does not meet: the reconciliation deletes nobody's
\* subscription.  Of two features moved onto a new one, only one hands on its
\* search; the other's is left without a feature.
ReconciliationKeepsFollowers ==
    [][job.at = "reconcile" =>
          \A d \in DOMAIN followers \ DOMAIN followers' : followers[d].channel \in touched'
       ]_catalogVars
=============================================================================
