----------------------------- MODULE SupportStats -----------------------------
(***************************************************************************)
(* Which browsers support which features at which date.  Releases and the  *)
(* versions that first have a feature are ingested; a job calculates from  *)
(* a snapshot of them, for every browser and every release of any browser, *)
(* whether each feature is supported by then, and writes that in batches.  *)
(* The statistics are queries of what the job has written, or of what has  *)
(* been ingested.                                                          *)
(***************************************************************************)
EXTENDS Integers, FiniteSets, Functions, FiniteSetsExt

CONSTANTS
    Browsers, Versions, ReleaseDates,
    StatFeatures, Ignored,  \* features, and those that are excluded or discouraged
    AvailabilityTables,     \* what web-features says: the version that has each
                            \* feature first, for some features and browsers
    NoBrowser,
    MaxIngestions           \* bound: releases and tables ingested

ASSUME DatesAssumption == ReleaseDates \subseteq Int
ASSUME TablesAssumption ==
    \A table \in AvailabilityTables :
        /\ DOMAIN table \subseteq StatFeatures \X Browsers
        /\ \A x \in DOMAIN table : table[x] \in Versions
ASSUME StatFeaturesAssumption == IsFiniteSet(StatFeatures)

VARIABLES
    released,   \* BrowserReleases: the date of a browser's version
    available,  \* BrowserFeatureAvailabilities
    events,     \* BrowserFeatureSupportEvents: whether the browser supports the
                \* feature, by browser, release (its browser and date) and feature
    calculation,
    ingested    \* (history) how many releases and tables have been ingested

statsVars == <<released, available, events, calculation, ingested>>

NoRows == [x \in {} |-> x]

StatsInit ==
    /\ released = NoRows
    /\ available = NoRows
    /\ events = NoRows
    /\ calculation = [at |-> "idle", rows |-> NoRows, current |-> FALSE]
    /\ ingested = 0

ReleasesBy(b) == {x \in DOMAIN released : x[1] = b}
ReleasedOn(b, d) == \E x \in ReleasesBy(b) : released[x] = d

Put(row, value, table) ==
    [x \in DOMAIN table \cup {row} |-> IF x = row THEN value ELSE table[x]]

Ingests ==
    /\ ingested < MaxIngestions
    /\ ingested' = ingested + 1
    /\ calculation' = [calculation EXCEPT !.current = FALSE]

\* The events of a release refer to its browser and date, one release each: the
\* date does not change while there are events.
InsertBrowserRelease(b, v, d) ==
    /\ Ingests
    /\ \A x \in ReleasesBy(b) : released[x] = d => x = <<b, v>>
    /\ <<b, v>> \in DOMAIN released /\ released[<<b, v>>] # d =>
          \A e \in DOMAIN events : ~(e[2] = b /\ e[3] = released[<<b, v>>])
    /\ released' = Put(<<b, v>>, d, released)
    /\ UNCHANGED <<available, events>>

SyncBrowserFeatureAvailabilities(table) ==
    /\ Ingests
    /\ available' = table
    /\ UNCHANGED <<released, events>>

\* A version without a release is as good as none.
SupportedBy(f, b, d) ==
    /\ <<f, b>> \in DOMAIN available
    /\ <<b, available[<<f, b>>]>> \in DOMAIN released
    /\ released[<<b, available[<<f, b>>]>>] <= d

\* Browsers that have no feature get no events.
Covered == {x[2] : x \in DOMAIN available}

\* Variant: a feature is supported after the day of the release that has it.
CalculatedAfter ==
    [e \in {<<b, x[1], released[x], f>> :
               b \in Covered, x \in DOMAIN released, f \in StatFeatures} |->
        SupportedBy(e[4], e[1], e[3] - 1)]

Calculated ==
    [e \in {<<b, x[1], released[x], f>> :
               b \in Covered, x \in DOMAIN released, f \in StatFeatures} |->
        SupportedBy(e[4], e[1], e[3])]

\* The snapshot is one read-only transaction.
StartPrecalculation ==
    /\ calculation.at = "idle"
    /\ calculation' = [at |-> "writing", rows |-> Calculated, current |-> TRUE]
    /\ UNCHANGED <<released, available, events, ingested>>

\* Rows are inserted or updated, none is deleted; some, if a batch fails, as it
\* does when a release is no longer on the date of the snapshot.
WriteEvents ==
    LET rows == calculation.rows
        fit == {e \in DOMAIN rows : ReleasedOn(e[2], e[3])}
    IN
    /\ calculation.at = "writing"
    /\ \E part \in SUBSET {e[1] : e \in fit} :
          LET written == {e \in fit : e[1] \in part} IN
          /\ events' = [e \in DOMAIN events \cup written |->
                           IF e \in written THEN rows[e] ELSE events[e]]
          /\ calculation' = [at |-> "idle", rows |-> NoRows,
                             current |-> calculation.current /\ written = DOMAIN rows]
    /\ UNCHANGED <<released, available, ingested>>

StatsNext ==
    \/ \E b \in Browsers, v \in Versions, d \in ReleaseDates : InsertBrowserRelease(b, v, d)
    \/ \E table \in AvailabilityTables : SyncBrowserFeatureAvailabilities(table)
    \/ StartPrecalculation
    \/ WriteEvents

StatsSpec == StatsInit /\ [][StatsNext]_statsVars
-----------------------------------------------------------------------------
(* The statistics *)

\* An event of the browser for the feature at that date, whatever release.
HasEvent(f, b, d, supported) ==
    \E r \in Browsers :
        <<b, r, d, f>> \in DOMAIN events /\ events[<<b, r, d, f>>] = supported

\* With a mobile browser, either may be the one that lacks the feature; both
\* must have an event.
Unsupported(browser, mobile, d) ==
    {f \in StatFeatures :
        IF mobile = NoBrowser THEN HasEvent(f, browser, d, FALSE)
        ELSE \E p, q \in BOOLEAN :
                /\ HasEvent(f, browser, d, p) /\ HasEvent(f, mobile, d, q)
                /\ ~(p /\ q)}

SupportedByOthers(others, d) ==
    {f \in StatFeatures : others # {} /\ \A o \in others : HasEvent(f, o, d, TRUE)}

ListMissingOneImplementationFeatures(browser, mobile, others, d) ==
    (Unsupported(browser, mobile, d) \cap SupportedByOthers(others, d)) \ Ignored

\* The dates a count is given for: releases of any of the browsers.
EventDates(browser, mobile, others) ==
    {d \in ReleaseDates : \E b \in {browser, mobile} \cup others : ReleasedOn(b, d)}

\* The features are counted for all dates at once, and a date with none counts 0.
ListMissingOneImplCounts(browser, mobile, others) ==
    LET found == {x \in (StatFeatures \ Ignored) \X ReleaseDates :
                     /\ x[1] \in Unsupported(browser, mobile, x[2])
                     /\ x[1] \in SupportedByOthers(others, x[2])}
    IN [d \in EventDates(browser, mobile, others) |->
           Cardinality({x \in found : x[2] = d})]

\* A feature counts at the date of its release in the browser; with a mobile
\* browser, if that has it at all.
CountedOn(browser, mobile, dates) ==
    Cardinality(
        {f \in StatFeatures \ Ignored :
            /\ <<f, browser>> \in DOMAIN available
            /\ <<browser, available[<<f, browser>>]>> \in DOMAIN released
            /\ released[<<browser, available[<<f, browser>>]>>] \in dates
            /\ mobile # NoBrowser => <<f, mobile>> \in DOMAIN available})

\* What comes before the start, and then what each date adds.
ListBrowserFeatureCountMetric(browser, mobile, start, d) ==
    LET before == {x \in ReleaseDates : x < start}
        dates == {x \in ReleaseDates : start <= x /\ x <= d /\ ReleasedOn(browser, x)}
        added == [x \in dates |-> CountedOn(browser, mobile, {x})]
    IN CountedOn(browser, mobile, before) + FoldSet(LAMBDA x, n : n + added[x], 0, dates)
-----------------------------------------------------------------------------
\* What has been ingested says this.
Missing(browser, mobile, others, d) ==
    {f \in StatFeatures \ Ignored :
        /\ ~SupportedBy(f, browser, d) \/ (mobile # NoBrowser /\ ~SupportedBy(f, mobile, d))
        /\ \A o \in others : SupportedBy(f, o, d)}

\* Once a calculation has written all it has, and until more is ingested, the
\* features only one browser lacks are the ones that are missing from it by what
\* has been ingested, and are as many as the series of counts says for that date,
\* if all the browsers asked for have features at all; and a browser has as many
\* features at a date as have been released by then, wherever the series starts.
StatsAgree ==
    /\ calculation.at = "idle" /\ calculation.current =>
          \A browser \in Covered, mobile \in Covered \cup {NoBrowser} :
              \A others \in (SUBSET (Covered \ {browser, mobile})) \ {{}} :
                  LET counts == ListMissingOneImplCounts(browser, mobile, others) IN
                  \A d \in ReleaseDates :
                      (\E b \in {browser, mobile} \cup others : ReleasedOn(b, d)) =>
                          LET missing == Missing(browser, mobile, others, d) IN
                          /\ ListMissingOneImplementationFeatures(browser, mobile, others, d)
                                = missing
                          /\ counts[d] = Cardinality(missing)
    /\ \A browser \in {x[1] : x \in DOMAIN released}, start, d \in ReleaseDates :
          start <= d =>
              ListBrowserFeatureCountMetric(browser, NoBrowser, start, d)
                 = Cardinality({f \in StatFeatures \ Ignored : SupportedBy(f, browser, d)})

\* Expectation that the code does not meet: the count for a browser and its
\* mobile version is the number of features that both support by then.
MobileCountsAgree ==
    \A browser, mobile \in Browsers, d \in ReleaseDates :
        ListBrowserFeatureCountMetric(browser, mobile, d, d)
           = Cardinality({f \in StatFeatures \ Ignored :
                            SupportedBy(f, browser, d) /\ SupportedBy(f, mobile, d)})
=============================================================================
