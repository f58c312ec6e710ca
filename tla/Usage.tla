--------------------------------- MODULE Usage ---------------------------------
(***************************************************************************)
(* How much Chromium users use a feature.  One job copies the buckets of a *)
(* histogram, their labels and which feature each stands for.  Another     *)
(* stores what a day's export says of each bucket, makes the newest day    *)
(* the latest of every mapped feature, and marks the day as done.  A third *)
(* one, the ingestion of features, renames features in between.            *)
(***************************************************************************)
EXTENDS Naturals, FiniteSets, Functions, FiniteSetsExt

CONSTANTS
    Keys,       \* feature keys; a label is written as the key it is derived from
    EnumFiles,  \* the histogram as Chromium has it, one revision after another:
                \* the label of each bucket that is in use
    Reported,   \* the buckets in the export of each day
    Exporters,  \* jobs that export, one in each region
    Renames     \* features that are renamed: old and new key

Days == DOMAIN Reported

ASSUME RevisionsAssumption ==
    /\ 1 \in DOMAIN EnumFiles /\ DOMAIN EnumFiles = 1 .. Cardinality(DOMAIN EnumFiles)
    /\ \A i \in DOMAIN EnumFiles : EnumFiles[i] \in Injection(DOMAIN EnumFiles[i], Keys)
ASSUME BucketsStayGone ==
    \A i, j, k \in DOMAIN EnumFiles :
        i < j /\ j < k => DOMAIN EnumFiles[i] \cap DOMAIN EnumFiles[k] \subseteq DOMAIN EnumFiles[j]
ASSUME DaysAssumption == Days \subseteq Nat
\* A key that is given up is taken into use once at most.
ASSUME RenamesAssumption ==
    /\ Renames \subseteq Keys \X Keys
    /\ \A r, q, p \in Renames : r[2] = p[1] /\ q[2] = p[1] => r = q

VARIABLES
    features,   \* WebFeatures, by key
    redirects,  \* MovedWebFeatures: old and new key
    values,     \* ChromiumHistogramEnumValues: the label of each bucket
    mapping,    \* WebFeatureChromiumHistogramEnumValues: the bucket of a feature
    daily,      \* DailyChromiumHistogramMetrics: buckets and days
    latestDay,  \* LatestDailyChromiumHistogramMetrics: a day, by feature and bucket
    capstones,  \* DailyChromiumHistogramEnumCapstones: days that are done
    revision,   \* of the histogram, upstream
    enums,      \* the job that copies the histogram
    exporter,   \* what each exporter is doing
    mapped,     \* (history) the mapping follows what the last job read
    settled,    \* (history) nothing has changed since the latest rows were read for
    known       \* (history) the buckets of each day that is done that were known before
                \* its export started, but for those whose look-up failed

usageVars == <<features, redirects, values, mapping, daily, latestDay, capstones,
               revision, enums, exporter, mapped, settled, known>>
days == <<capstones, exporter, known>>

NoEntries == [x \in {} |-> x]
IdleEnums == [at |-> "idle", file |-> NoEntries, keys |-> {}, pairs |-> {}, drop |-> {},
              fresh |-> FALSE]
IdleExporter ==
    [at |-> "idle", day |-> 0, rows |-> {}, desired |-> NoEntries, drop |-> {},
     known |-> {}, fresh |-> FALSE]

UsageInit ==
    /\ features = Keys \ {r[2] : r \in Renames}
    /\ redirects = {}
    /\ values = NoEntries /\ mapping = NoEntries
    /\ daily = {} /\ latestDay = NoEntries /\ capstones = {}
    /\ revision = 1
    /\ enums = IdleEnums
    /\ exporter = [e \in Exporters |-> IdleExporter]
    /\ mapped = FALSE /\ settled = FALSE
    /\ known = [d \in Days |-> {}]

\* What is read is no longer all there is.
Stale(jobs) == [e \in Exporters |-> [jobs[e] EXCEPT !.fresh = FALSE]]
-----------------------------------------------------------------------------
(* Upstream, and the ingestion of features *)

Revise ==
    /\ revision + 1 \in DOMAIN EnumFiles
    /\ revision' = revision + 1
    /\ UNCHANGED <<features, redirects, values, mapping, daily, latestDay, days,
                   enums, mapped, settled>>

\* A feature is renamed, all the steps of the ingestion at once: its rows go over
\* to the new key, and the redirect is stored when the old key is gone.
RenameFeature(old, new) ==
    /\ old \in features
    /\ features' = (features \ {old}) \cup {new}
    /\ mapping' = [k \in (DOMAIN mapping \ {old})
                         \cup {n \in {new} : old \in DOMAIN mapping} |->
                      IF k = new /\ old \in DOMAIN mapping THEN mapping[old] ELSE mapping[k]]
    /\ LET theirs == {x \in DOMAIN latestDay : x[1] = old}
           moved == {<<new, x[2]>> : x \in theirs}
       IN latestDay' = [x \in (DOMAIN latestDay \ theirs) \cup moved |->
                           latestDay[IF x \in moved THEN <<old, x[2]>> ELSE x]]
    /\ redirects' = redirects \cup {<<old, new>>}
    /\ mapped' = FALSE /\ settled' = FALSE
    /\ exporter' = Stale(exporter)
    /\ enums' = [enums EXCEPT !.fresh = FALSE]
    /\ UNCHANGED <<values, daily, capstones, revision, known>>
-----------------------------------------------------------------------------
(* The job that copies the histogram *)

EnumsUnchanged == UNCHANGED <<features, redirects, revision, capstones>>

\* What has been parsed is compared with the features of this moment, ...
FetchAllFeatureKeys ==
    /\ enums.at = "idle"
    /\ enums' = [IdleEnums EXCEPT !.at = "moved", !.file = EnumFiles[revision],
                                  !.keys = features, !.fresh = TRUE]
    /\ UNCHANGED <<values, mapping, daily, latestDay, exporter, mapped, settled, known>>
    /\ EnumsUnchanged

\* ... and then with the redirects: both keys of one must not be in use.
Matched == {b \in DOMAIN enums.file : enums.file[b] \in enums.keys}
Redirected(k) ==
    IF \E r \in redirects : r[1] = k THEN (CHOOSE r \in redirects : r[1] = k)[2] ELSE k
InUse == {enums.file[b] : b \in Matched}

MigrateMovedFeatures ==
    /\ enums.at = "moved"
    /\ IF \E r \in redirects : {r[1], r[2]} \subseteq InUse
       THEN enums' = IdleEnums
       ELSE enums' = [enums EXCEPT !.at = "values",
                                   !.pairs = {<<Redirected(enums.file[b]), b>> : b \in Matched}]
    /\ UNCHANGED <<values, mapping, daily, latestDay, exporter, mapped, settled, known>>
    /\ EnumsUnchanged

UpsertValues ==
    /\ enums.at = "values"
    /\ values' = [b \in DOMAIN values \cup DOMAIN enums.file |->
                     IF b \in DOMAIN enums.file THEN enums.file[b] ELSE values[b]]
    /\ enums' = [enums EXCEPT !.at = "drop"]
    /\ UNCHANGED <<mapping, daily, latestDay, exporter, mapped, settled, known>>
    /\ EnumsUnchanged

\* With a bucket all that refers to it goes.
DropValues ==
    LET kept == DOMAIN enums.file IN
    /\ enums.at = "drop"
    /\ values' = Restrict(values, kept)
    /\ mapping' = Restrict(mapping, {k \in DOMAIN mapping : mapping[k] \in kept})
    /\ daily' = {x \in daily : x[1] \in kept}
    /\ latestDay' = Restrict(latestDay, {x \in DOMAIN latestDay : x[2] \in kept})
    /\ known' = [d \in Days |-> known[d] \cap kept]
    /\ IF DOMAIN values \subseteq kept
       THEN UNCHANGED <<settled, exporter>>
       ELSE /\ settled' = FALSE
            /\ exporter' = [e \in Exporters |->
                               [exporter[e] EXCEPT !.known = @ \cap kept, !.fresh = FALSE]]
    /\ enums' = [enums EXCEPT !.at = "features"]
    /\ UNCHANGED mapped
    /\ EnumsUnchanged

\* A feature is skipped whenever its look-up fails, because there is no such
\* feature any more or for any other reason, and the job goes on without it.
LookUpFeatures ==
    LET there == {p \in enums.pairs : p[1] \in features} IN
    /\ enums.at = "features"
    /\ \E found \in SUBSET there :
          /\ enums' = [enums EXCEPT !.at = "insert", !.pairs = found,
                                    !.fresh = @ /\ found = there]
          /\ mapped' = (mapped /\ found = there)
    /\ UNCHANGED <<values, mapping, daily, latestDay, exporter, settled, known>>
    /\ EnumsUnchanged

\* The bucket of a feature that has one is not compared.
Inserted == {p \in enums.pairs : p[1] \notin DOMAIN mapping}

InsertMapping ==
    /\ enums.at = "insert"
    /\ IF \A p \in Inserted :
             p[1] \in features /\ \A q \in Inserted : p[1] = q[1] => p = q
       THEN /\ mapping' = [k \in DOMAIN mapping \cup {p[1] : p \in Inserted} |->
                              IF k \in DOMAIN mapping THEN mapping[k]
                              ELSE (CHOOSE p \in Inserted : p[1] = k)[2]]
            /\ enums' = [enums EXCEPT !.at = "delete",
                                      !.drop = DOMAIN mapping \ {p[1] : p \in enums.pairs}]
       ELSE UNCHANGED mapping /\ enums' = IdleEnums
    /\ settled' = FALSE
    /\ exporter' = Stale(exporter)
    /\ UNCHANGED <<values, daily, latestDay, mapped, known>>
    /\ EnumsUnchanged

DeleteMapping ==
    /\ enums.at = "delete"
    /\ mapping' = Restrict(mapping, DOMAIN mapping \ enums.drop)
    /\ mapped' = enums.fresh
    /\ settled' = FALSE
    /\ exporter' = Stale(exporter)
    /\ enums' = IdleEnums
    /\ UNCHANGED <<values, daily, latestDay, known>>
    /\ EnumsUnchanged

EnumsFail ==
    /\ enums.at # "idle"
    /\ enums' = IdleEnums
    /\ mapped' = FALSE
    /\ UNCHANGED <<values, mapping, daily, latestDay, exporter, settled, known>>
    /\ EnumsUnchanged
-----------------------------------------------------------------------------
(* The job that exports a day *)

ExportUnchanged == UNCHANGED <<features, redirects, values, mapping, revision, enums, mapped>>

Step(e, state) == exporter' = [exporter EXCEPT ![e] = state]

\* A day that is done is not exported again.
StartDay(e, d) ==
    /\ exporter[e].at = "idle"
    /\ d \notin capstones /\ Reported[d] # {}
    /\ Step(e, [IdleExporter EXCEPT !.at = "look up", !.day = d,
                                     !.known = Reported[d] \cap DOMAIN values])
    /\ UNCHANGED <<daily, latestDay, capstones, settled, known>>
    /\ ExportUnchanged

\* A bucket is skipped whenever its look-up fails, because it is not known, as
\* drafts are not, or for any other reason, and the export goes on without it.
LookUpBuckets(e) ==
    LET job == exporter[e]
        there == Reported[job.day] \cap DOMAIN values
    IN
    /\ job.at = "look up"
    /\ \E found \in SUBSET there :
          Step(e, [job EXCEPT !.at = "store", !.rows = found,
                              !.known = @ \ (there \ found)])
    /\ UNCHANGED <<daily, latestDay, capstones, settled, known>>
    /\ ExportUnchanged

\* In batches: some may be stored when one fails.
StoreMetrics(e) ==
    LET job == exporter[e]
        fit == job.rows \cap DOMAIN values
    IN
    /\ job.at = "store"
    /\ \E part \in SUBSET fit :
          /\ daily' = daily \cup (part \X {job.day})
          /\ exporter' = [(IF daily' = daily THEN exporter ELSE Stale(exporter))
                             EXCEPT ![e] = IF part = job.rows
                                           THEN [job EXCEPT !.at = "newest"] ELSE IdleExporter]
    /\ settled' = (settled /\ daily' = daily)
    /\ UNCHANGED <<latestDay, capstones, known>>
    /\ ExportUnchanged

\* Variant: the day that has just been stored is the newest.
NewestIsStored(b, day) == day

Newest(b, day) == Max({x[2] : x \in {y \in daily : y[1] = b}})

Desired(day) ==
    [x \in {<<k, mapping[k]>> : k \in {m \in DOMAIN mapping : \E y \in daily : y[1] = mapping[m]}}
        |-> Newest(x[2], day)]

\* One read-only transaction.
ReadNewest(e) ==
    LET job == exporter[e] IN
    /\ job.at = "newest"
    /\ Step(e, [job EXCEPT !.at = "upsert", !.desired = Desired(job.day), !.fresh = TRUE])
    /\ UNCHANGED <<daily, latestDay, capstones, settled, known>>
    /\ ExportUnchanged

\* All or nothing: the features and the metrics that rows refer to must exist.
UpsertLatest(e) ==
    LET job == exporter[e]
        desired == job.desired
    IN
    /\ job.at = "upsert"
    /\ IF \A x \in DOMAIN desired : x[1] \in features /\ <<x[2], desired[x]>> \in daily
       THEN /\ latestDay' = [x \in DOMAIN latestDay \cup DOMAIN desired |->
                             IF x \in DOMAIN desired THEN desired[x] ELSE latestDay[x]]
            /\ exporter' = [[f \in Exporters |-> IF f = e THEN job
                                ELSE [exporter[f] EXCEPT !.fresh = FALSE]]
                               EXCEPT ![e].at = "delete",
                                      ![e].drop = DOMAIN latestDay \ DOMAIN desired]
       ELSE UNCHANGED latestDay /\ Step(e, IdleExporter)
    /\ settled' = FALSE
    /\ UNCHANGED <<daily, capstones, known>>
    /\ ExportUnchanged

DeleteLatest(e) ==
    LET job == exporter[e] IN
    /\ job.at = "delete"
    /\ latestDay' = Restrict(latestDay, DOMAIN latestDay \ job.drop)
    /\ exporter' = [Stale(exporter) EXCEPT ![e] = [job EXCEPT !.at = "capstone"]]
    /\ settled' = job.fresh
    /\ UNCHANGED <<daily, capstones, known>>
    /\ ExportUnchanged

SaveCapstone(e) ==
    LET job == exporter[e] IN
    /\ job.at = "capstone"
    /\ capstones' = capstones \cup {job.day}
    /\ known' = [known EXCEPT ![job.day] = @ \cup job.known]
    /\ Step(e, IdleExporter)
    /\ UNCHANGED <<daily, latestDay, settled>>
    /\ ExportUnchanged

ExportFails(e) ==
    /\ exporter[e].at # "idle"
    /\ Step(e, IdleExporter)
    /\ UNCHANGED <<daily, latestDay, capstones, settled, known>>
    /\ ExportUnchanged

UsageNext ==
    \/ Revise
    \/ \E r \in Renames : RenameFeature(r[1], r[2])
    \/ FetchAllFeatureKeys \/ MigrateMovedFeatures \/ UpsertValues \/ DropValues
    \/ LookUpFeatures \/ InsertMapping \/ DeleteMapping \/ EnumsFail
    \/ \E e \in Exporters :
          \/ \E d \in Days : StartDay(e, d)
          \/ LookUpBuckets(e) \/ StoreMetrics(e) \/ ReadNewest(e)
          \/ UpsertLatest(e) \/ DeleteLatest(e) \/ SaveCapstone(e) \/ ExportFails(e)

UsageSpec == UsageInit /\ [][UsageNext]_usageVars
-----------------------------------------------------------------------------
\* A day that is done has the metrics of every bucket of its export that was
\* known from the start and whose look-up did not fail; when the latest rows have
\* been written undisturbed, each mapped feature has the newest day there is,
\* whatever order the days were exported in; and after a copy of the histogram in
\* which no look-up failed and that no rename disturbed, the features that are
\* mapped are the ones that have a bucket.  Each is mapped to a bucket that exists.
UsageIsCurrent ==
    /\ \A d \in capstones : (Reported[d] \cap known[d]) \X {d} \subseteq daily
    /\ settled => latestDay = [x \in DOMAIN latestDay |-> Newest(x[2], 0)]
                  /\ DOMAIN latestDay = {<<k, mapping[k]>> : k \in {m \in DOMAIN mapping :
                                          \E y \in daily : y[1] = mapping[m]}}
    /\ mapped /\ enums.at = "idle" =>
          DOMAIN mapping = features \cap {values[b] : b \in DOMAIN values}
    /\ \A k \in DOMAIN mapping : k \in features /\ mapping[k] \in DOMAIN values

\* Expectation that the code does not meet: a feature is mapped to the bucket
\* with its label.
MappingFollowsLabels ==
    mapped /\ enums.at = "idle" => \A k \in DOMAIN mapping : values[mapping[k]] = k

\* Expectation that the code does not meet: a feature that was renamed keeps its
\* bucket for as long as that has the old label.
RenamedFeaturesStayMapped ==
    [][\A r \in redirects :
          (r[2] \in DOMAIN mapping /\ \E b \in DOMAIN values' : values'[b] = r[1])
              => r[2] \in DOMAIN mapping']_usageVars
=============================================================================
