----------------------------- MODULE SiteDataMC -----------------------------
(***************************************************************************)
(* The data of the site, for TLC: the search of features, lists read page  *)
(* by page, the metrics of WPT runs, the statistics of browser support,     *)
(* bulk writes, usage, cached answers, attempts to deliver and batches.  The *)
(* parts share no state that is modelled, so that one of them moves in a    *)
(* behaviour.                                                               *)
(***************************************************************************)
EXTENDS FeatureSearchMC, Pages, MetricsMC, SupportStats, BulkWrite, Usage,
        Responses, Attempts, Batch

VARIABLE part

SiteDataInit ==
    /\ part \in {"search", "pages", "metrics", "stats", "bulk", "usage", "responses",
                "attempts", "batch"}
    /\ SearchInit
    /\ PagesInit /\ (part # "pages" => stored = {})
    /\ MetricsInit
    /\ StatsInit
    /\ BulkInit
    /\ UsageInit
    /\ ResponsesInit /\ (part # "responses" => \A r \in Requests : truth[r][1].status = 200)
    /\ AttemptsInit
    /\ BatchInit

SiteDataNext ==
    /\ UNCHANGED part
    /\ \/ /\ part = "search" /\ SearchNext
          /\ UNCHANGED <<pagesVars, metricsVars, statsVars, bulkVars,
                         usageVars, responsesVars, attemptsVars, batchVars>>
       \/ /\ part = "pages" /\ PagesNext
          /\ UNCHANGED <<query, metricsVars, statsVars, bulkVars,
                         usageVars, responsesVars, attemptsVars, batchVars>>
       \/ /\ part = "metrics" /\ MetricsNext
          /\ UNCHANGED <<query, pagesVars, statsVars, bulkVars,
                         usageVars, responsesVars, attemptsVars, batchVars>>
       \/ /\ part = "stats" /\ StatsNext
          /\ UNCHANGED <<query, pagesVars, metricsVars, bulkVars,
                         usageVars, responsesVars, attemptsVars, batchVars>>
       \/ /\ part = "bulk" /\ BulkNext
          /\ UNCHANGED <<query, pagesVars, metricsVars, statsVars,
                         usageVars, responsesVars, attemptsVars, batchVars>>
       \/ /\ part = "usage" /\ UsageNext
          /\ UNCHANGED <<query, pagesVars, metricsVars, statsVars,
                         bulkVars, responsesVars, attemptsVars, batchVars>>
       \/ /\ part = "responses" /\ ResponsesNext
          /\ UNCHANGED <<query, pagesVars, metricsVars, statsVars,
                         bulkVars, usageVars, attemptsVars, batchVars>>
       \/ /\ part = "attempts" /\ AttemptsNext
          /\ UNCHANGED <<query, pagesVars, metricsVars, statsVars,
                         bulkVars, usageVars, responsesVars, batchVars>>
       \/ /\ part = "batch" /\ BatchNext
          /\ UNCHANGED <<query, pagesVars, metricsVars, statsVars,
                         bulkVars, usageVars, responsesVars, attemptsVars>>

siteVars ==
    <<part, query, pagesVars, metricsVars, statsVars, bulkVars, usageVars,
      responsesVars, attemptsVars, batchVars>>

SiteDataSpec == SiteDataInit /\ [][SiteDataNext]_siteVars

\* Three days, two rows each.
SomeRows == (1 .. 3) \X (1 .. 2)

\* Two releases of web-features.
SomeTables ==
    {(<<"f", "a">> :> 1) @@ (<<"f", "b">> :> 2) @@ (<<"g", "a">> :> 1) @@ (<<"g", "m">> :> 1),
     (<<"f", "a">> :> 2) @@ (<<"f", "b">> :> 1) @@ (<<"f", "m">> :> 1)
         @@ (<<"g", "b">> :> 2) @@ (<<"g", "m">> :> 2)}

\* Chromium stops using a bucket, renames another with its feature and has a new
\* one for the first.
SomeFiles ==
    <<(1 :> "f") @@ (2 :> "old"), (2 :> "new") @@ (3 :> "f")>>
SomeReports == (1 :> {2}) @@ (2 :> {2, 3})
SomeRenames == {<<"old", "new">>}

\* Bound: two of the workers are busy at a time, one of them the first.
TwoAtATime ==
    LET busy == {w \in Workers : worker[w].at # "idle"} IN
    Cardinality(busy) <= 1 \/ (Cardinality(busy) = 2 /\ "w1" \in busy)
=============================================================================
