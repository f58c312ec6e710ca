---------------------------- MODULE CatalogProofs ----------------------------
(***************************************************************************)
(* The catalogue, for any keys, releases, subscriptions and jobs.  First   *)
(* the inductive invariant: searches are numbered by the job that made     *)
(* them, so that no two features share one; what the hook has planned is   *)
(* still what the tables call for when the job carries it out; and a       *)
(* subscription to a feature that is moved is planned for, doubled at the  *)
(* target, or its user has been at work since.  Then the statistics of     *)
(* browser support and the metrics of WPT runs: sums over sets are folds,  *)
(* about which Induction has what is needed.                               *)
(***************************************************************************)
EXTENDS Catalog, SupportStats, Metrics, Induction, TLAPS

IsTable(f) == f = [x \in DOMAIN f |-> f[x]]

Deleting == {"plan", "copy", "searches", "associate", "children", "parents"}
Redirecting == {"moved", "dropMoved", "split", "dropSplit"}

IsPlan(p) ==
    p = [copied |-> p.copied, rehomed |-> p.rehomed, renamed |-> p.renamed,
         adopted |-> p.adopted]
IsJob(j) ==
    j = [at |-> j.at, n |-> j.n, release |-> j.release, plan |-> j.plan, done |-> j.done]

JobOK ==
    /\ IsJob(job) /\ IsPlan(job.plan)
    /\ job.at \in {"idle", "reconcile"} \cup Deleting \cup Redirecting
    /\ job.n \in Nat
    /\ job.at # "idle" => job.release \in Releases /\ ~job.done
    /\ job.at \in Deleting => job.release.features \subseteq catalog
    /\ job.at \in {"reconcile"} \cup Redirecting => catalog = job.release.features
    /\ job.at = "idle" /\ job.done =>
          job.release \in Releases /\ catalog = job.release.features

\* The number of the job that made a search or a row.
MadeBefore(x) ==
    /\ x.n \in Nat /\ x.n <= job.n
    /\ job.at \in {"reconcile"} \cup Deleting => x.n < job.n

SearchesOK ==
    /\ DOMAIN managed \subseteq catalog
    /\ \A k \in DOMAIN managed : MadeBefore(managed[k])
    /\ \A j, k \in DOMAIN managed : managed[j] = managed[k] => j = k

Planned == job.plan.renamed = Renamed /\ job.plan.adopted \in Adoptions
PlanOK == job.at \in {"copy", "searches", "associate"} => Planned

Synced ==
    /\ DOMAIN managed = catalog
    /\ DOMAIN named = {managed[k] : k \in catalog}
    /\ \A k \in catalog : named[managed[k]] = k
SyncedOK == job.at \in Redirecting \/ (job.at = "idle" /\ job.done) => Synced

MovedRows == {MovedRow(k) : k \in DOMAIN job.release.moved}
MovedOK ==
    /\ \A row \in moved : row.n \in Nat /\ row.n <= job.n
    /\ job.at \in {"reconcile", "moved"} \cup Deleting => \A row \in moved : row.n < job.n
    /\ job.at = "dropMoved" => {row \in moved : row.n = job.n} = MovedRows
    /\ job.at \in {"split", "dropSplit"} \/ (job.at = "idle" /\ job.done) => moved = MovedRows

SplitOK ==
    /\ job.at = "dropSplit" => SplitRows \subseteq split
    /\ job.at = "idle" /\ job.done => split = SplitRows

RowsInv == JobOK /\ SearchesOK /\ PlanOK /\ SyncedOK /\ MovedOK /\ SplitOK

\* The rows give a target metrics that a feature moved onto it has.
Brought(rows, t, m) == <<t, m>> \in DOMAIN rows /\ rows[<<t, m>>] \in Carried(t, m)
AllBrought(rows) ==
    \A k \in Sources, m \in Measures \ touched :
        <<k, m>> \in DOMAIN histories => Brought(rows, Target(k), m)

HistoriesOK ==
    /\ job.at = "copy" =>
          /\ DOMAIN job.plan.copied \subseteq job.release.features \X Measures
          /\ AllBrought(job.plan.copied)
    /\ job.at \in {"searches", "associate", "children"} => AllBrought(histories)

IsFollower(f) == f = [channel |-> f.channel, search |-> f.search, settings |-> f.settings]
Doubled(k, d) ==
    \E e \in FollowersOf(managed[Target(k)]) : followers[e].channel = followers[d].channel
Touched(d) == followers[d].channel \in touched

FollowersTyped ==
    /\ IsTable(followers) /\ DOMAIN followers \subseteq FollowerIds
    /\ \A d \in DOMAIN followers : IsFollower(followers[d])

FollowersOK ==
    /\ FollowersTyped
    /\ job.at \in {"copy", "searches"} =>
          /\ \A d \in DOMAIN job.plan.rehomed :
                /\ IsFollower(job.plan.rehomed[d])
                /\ \E j \in OntoKnown : job.plan.rehomed[d].search = managed[Target(j)]
                /\ d \in DOMAIN followers =>
                      Touched(d) \/ \E j \in OntoKnown : followers[d].search = managed[j]
          /\ \A k \in OntoKnown : \A d \in FollowersOf(managed[k]) :
                d \in DOMAIN job.plan.rehomed \/ Touched(d) \/ Doubled(k, d)
    /\ job.at = "associate" =>
          \A k \in OntoKnown : \A d \in FollowersOf(managed[k]) : Touched(d) \/ Doubled(k, d)
    /\ job.at = "children" =>
          \A k \in Listed :
             /\ Target(k) \in DOMAIN managed
             /\ \A d \in FollowersOf(managed[k]) : Touched(d) \/ Doubled(k, d)

MovesInv == HistoriesOK /\ FollowersOK
-----------------------------------------------------------------------------
(* The tables of searches and redirects *)

LEMMA OnlyIs ==
    ASSUME NEW f, NEW S
    PROVE  /\ DOMAIN Only(f, S) = DOMAIN f \cap S
           /\ \A k \in DOMAIN Only(f, S) : Only(f, S)[k] = f[k]
BY DEF Only

LEMMA GotoSteps ==
    ASSUME JobOK, NEW s, Goto(s)
    PROVE  /\ IsJob(job') /\ IsPlan(job'.plan) /\ job'.at = s
           /\ job'.n = job.n /\ job'.release = job.release
           /\ job'.plan = job.plan /\ job'.done = job.done
BY DEF JobOK, IsJob, IsPlan, Goto

\* What is moved where changes with the tables it is read from only.
LEMMA SameMoves ==
    ASSUME UNCHANGED <<catalog, managed>>, job'.release = job.release
    PROVE  /\ Sources' = Sources /\ Gone' = Gone /\ \A k : Target(k)' = Target(k)
           /\ Listed' = Listed /\ OntoKnown' = OntoKnown /\ OntoNew' = OntoNew
           /\ Renamed' = Renamed /\ Adoptions' = Adoptions
<1>1. /\ Sources' = Sources /\ Gone' = Gone /\ \A k : Target(k)' = Target(k)
    BY DEF Sources, Gone, Target
<1>2. Listed' = Listed /\ OntoKnown' = OntoKnown /\ OntoNew' = OntoNew
    BY <1>1 DEF Listed, OntoKnown, OntoNew
<1>3. Renamed' = Renamed
    BY <1>1, <1>2 DEF Renamed, FeatureOf
<1> QED
    BY <1>1, <1>2, <1>3 DEF Adoptions

\* A moved feature is none of the release, and the one it is moved onto is.
LEMMA TargetsStay ==
    ASSUME JobOK, job.at # "idle", NEW k \in Sources
    PROVE  /\ k \in DOMAIN job.release.moved /\ k \in catalog /\ k \in Gone
           /\ Target(k) \in job.release.features
           /\ Target(k) \notin Sources /\ Target(k) \notin Gone
BY ReleasesAssumption DEF JobOK, Sources, Target, Gone

LEMMA RowsInitially == CatalogInit => RowsInv
<1> SUFFICES ASSUME CatalogInit
             PROVE  RowsInv
    OBVIOUS
<1> USE DEF CatalogInit
<1>1. JobOK
    BY DEF JobOK, IsJob, IsPlan, NoPlan, Deleting, Redirecting
<1>2. SearchesOK
    BY DEF SearchesOK, NoMoves
<1>3. PlanOK /\ SyncedOK /\ MovedOK /\ SplitOK
    BY DEF PlanOK, SyncedOK, MovedOK, SplitOK, Deleting, Redirecting
<1> QED
    BY <1>1, <1>2, <1>3 DEF RowsInv

LEMMA UserRows ==
    ASSUME RowsInv, UserActs \/ \E k \in Keys, m \in Measures : StoreMetrics(k, m)
    PROVE  RowsInv'
<1>1. UNCHANGED <<catalog, named, managed, moved, split, job>>
    BY DEF UserActs, StoreMetrics, searchTables, redirectTables
<1>2. JobOK' /\ SearchesOK' /\ SyncedOK' /\ MovedOK' /\ SplitOK'
    BY <1>1 DEF RowsInv, JobOK, SearchesOK, MadeBefore, SyncedOK, Synced, MovedOK, MovedRows,
                MovedRow, Target, SplitOK, SplitRows
<1>3. PlanOK'
    BY <1>1, SameMoves DEF RowsInv, PlanOK, Planned
<1> QED
    BY <1>2, <1>3 DEF RowsInv

LEMMA UpsertRows ==
    ASSUME RowsInv, NEW r \in Releases, UpsertFeatures(r)
    PROVE  RowsInv'
<1>1. /\ job.at = "idle" /\ catalog' = catalog \cup r.features
      /\ job' = [at |-> IF catalog \subseteq r.features THEN "reconcile" ELSE "plan",
                 n |-> job.n + 1, release |-> r, plan |-> NoPlan, done |-> FALSE]
      /\ UNCHANGED <<named, managed, moved, split>>
    BY DEF UpsertFeatures, searchTables, redirectTables
<1>2. /\ job'.at \in {"reconcile", "plan"} /\ job'.n = job.n + 1 /\ job'.release = r
      /\ ~job'.done /\ job'.plan = NoPlan
      /\ job'.at = "reconcile" => catalog \subseteq r.features
    BY <1>1
<1>3. JobOK'
    BY <1>1, <1>2 DEF RowsInv, JobOK, IsJob, IsPlan, NoPlan, Deleting, Redirecting
<1>4. SearchesOK'
    BY <1>1, <1>2 DEF RowsInv, JobOK, SearchesOK, MadeBefore
<1>5. MovedOK'
    BY <1>1, <1>2 DEF RowsInv, JobOK, MovedOK
<1>6. PlanOK' /\ SyncedOK' /\ SplitOK'
    BY <1>2 DEF PlanOK, SyncedOK, SplitOK, Redirecting
<1> QED
    BY <1>3, <1>4, <1>5, <1>6 DEF RowsInv

\* A step on the way to the deletion that leaves alone what these tables say.
LEMMA OnTheWay ==
    ASSUME RowsInv, job.at \in Deleting, JobOK', job'.at \in Deleting,
           job'.n = job.n, UNCHANGED moved
    PROVE  SyncedOK' /\ MovedOK' /\ SplitOK'
BY DEF RowsInv, JobOK, SyncedOK, MovedOK, SplitOK, Deleting, Redirecting

LEMMA PlanRows == ASSUME RowsInv, PreDeleteHook PROVE RowsInv'
<1>1. /\ job.at = "plan" /\ UNCHANGED <<catalog, named, managed, moved, split>>
    BY DEF PreDeleteHook, searchTables, redirectTables
<1>2. PICK copied \in Copies, adopted \in Adoptions :
          job' = [job EXCEPT !.at = "copy",
                             !.plan = [copied |-> copied, rehomed |-> Rehomed,
                                       renamed |-> Renamed, adopted |-> adopted]]
    BY DEF PreDeleteHook
<1>3. /\ IsJob(job') /\ job'.at = "copy" /\ job'.n = job.n /\ job'.release = job.release
      /\ job'.plan = [copied |-> copied, rehomed |-> Rehomed, renamed |-> Renamed,
                      adopted |-> adopted]
      /\ job'.done = job.done
    BY <1>2 DEF RowsInv, JobOK, IsJob
<1>4. IsPlan(job'.plan) /\ job'.plan.renamed = Renamed /\ job'.plan.adopted = adopted
    BY <1>3 DEF IsPlan
<1>5. JobOK'
    BY <1>1, <1>3, <1>4 DEF RowsInv, JobOK, Deleting, Redirecting
<1>6. SearchesOK'
    BY <1>1, <1>3 DEF RowsInv, SearchesOK, MadeBefore, Deleting
<1>7. PlanOK'
    BY <1>1, <1>3, <1>4, SameMoves DEF PlanOK, Planned
<1> QED
    BY <1>1, <1>3, <1>5, <1>6, <1>7, OnTheWay DEF RowsInv, Deleting

LEMMA CopyRows == ASSUME RowsInv, CopyHistories PROVE RowsInv'
<1>1. /\ job.at = "copy" /\ Goto("searches")
      /\ UNCHANGED <<catalog, named, managed, moved, split>>
    BY DEF CopyHistories, searchTables, redirectTables
<1>2. /\ IsJob(job') /\ IsPlan(job'.plan) /\ job'.at = "searches" /\ job'.n = job.n
      /\ job'.release = job.release /\ job'.plan = job.plan /\ job'.done = job.done
    BY <1>1, GotoSteps DEF RowsInv
<1>3. JobOK'
    BY <1>1, <1>2 DEF RowsInv, JobOK, Deleting, Redirecting
<1>4. SearchesOK'
    BY <1>1, <1>2 DEF RowsInv, SearchesOK, MadeBefore, Deleting
<1>5. PlanOK'
    BY <1>1, <1>2, SameMoves DEF RowsInv, PlanOK, Planned
<1> QED
    BY <1>1, <1>2, <1>3, <1>4, <1>5, OnTheWay DEF RowsInv, Deleting

LEMMA RewriteRows == ASSUME RowsInv, RewriteSearches PROVE RowsInv'
<1>1. /\ job.at = "searches" /\ Goto("associate")
      /\ UNCHANGED <<catalog, managed, moved, split>>
    BY DEF RewriteSearches, redirectTables
<1>2. /\ IsJob(job') /\ IsPlan(job'.plan) /\ job'.at = "associate" /\ job'.n = job.n
      /\ job'.release = job.release /\ job'.plan = job.plan /\ job'.done = job.done
    BY <1>1, GotoSteps DEF RowsInv
<1>3. JobOK'
    BY <1>1, <1>2 DEF RowsInv, JobOK, Deleting, Redirecting
<1>4. SearchesOK'
    BY <1>1, <1>2 DEF RowsInv, SearchesOK, MadeBefore, Deleting
<1>5. PlanOK'
    BY <1>1, <1>2, SameMoves DEF RowsInv, PlanOK, Planned
<1> QED
    BY <1>1, <1>2, <1>3, <1>4, <1>5, OnTheWay DEF RowsInv, Deleting

\* What the association gives to whom: a search that is renamed to the feature it
\* is renamed to, and every other search to the one that has it.
LEMMA Associated ==
    ASSUME RowsInv, job.at = "associate",
           managed' = Over(job.plan.adopted, Only(managed, DOMAIN managed \ Detached(managed)))
    PROVE  /\ DOMAIN managed' = DOMAIN job.plan.adopted \cup (DOMAIN managed \ Detached(managed))
           /\ Detached(managed) = OntoNew
           /\ \A t \in DOMAIN job.plan.adopted :
                 /\ managed'[t] = job.plan.adopted[t]
                 /\ job.plan.adopted[t] \in DOMAIN Renamed
                 /\ Renamed[job.plan.adopted[t]] = t
                 /\ \E k \in OntoNew : t = Target(k) /\ t \notin DOMAIN managed
           /\ \A k \in DOMAIN managed \ (Detached(managed) \cup DOMAIN job.plan.adopted) :
                 managed'[k] = managed[k]
<1> DEFINE heirs == job.plan.adopted
           rest == DOMAIN managed \ Detached(managed)
<1>1. job.plan.renamed = Renamed /\ heirs \in Adoptions
    BY DEF RowsInv, PlanOK, Planned
<1>2. DOMAIN Only(managed, rest) = rest /\ \A k \in rest : Only(managed, rest)[k] = managed[k]
    BY DEF Only
<1>3. DOMAIN managed' = DOMAIN heirs \cup rest
    BY <1>2 DEF Over
<1>4. \A t \in DOMAIN heirs : managed'[t] = heirs[t]
    BY <1>2 DEF Over
<1>5. \A k \in rest \ DOMAIN heirs : managed'[k] = managed[k]
    BY <1>2 DEF Over
<1>6. DOMAIN Renamed = {managed[k] : k \in OntoNew} /\ OntoNew \subseteq DOMAIN managed
    BY DEF Renamed, OntoNew, Listed
<1>7. Detached(managed) = OntoNew
    BY <1>1, <1>6 DEF Detached, RowsInv, SearchesOK
<1>8. \A k \in OntoNew : FeatureOf(managed[k]) = k
    BY <1>6 DEF FeatureOf, RowsInv, SearchesOK
<1>9. \A s \in DOMAIN Renamed : \E k \in OntoNew : Renamed[s] = Target(k)
    BY <1>6, <1>8 DEF Renamed
<1>10. /\ DOMAIN heirs = {Renamed[s] : s \in DOMAIN Renamed}
       /\ \A t \in DOMAIN heirs : heirs[t] \in DOMAIN Renamed /\ Renamed[heirs[t]] = t
    BY <1>1 DEF Adoptions
<1>11. \A k \in OntoNew : Target(k) \notin DOMAIN managed
    BY DEF OntoNew, OntoKnown
<1>12. \A t \in DOMAIN heirs : \E k \in OntoNew : t = Target(k) /\ t \notin DOMAIN managed
    BY <1>9, <1>10, <1>11
<1> QED
    BY <1>3, <1>4, <1>5, <1>7, <1>10, <1>12

LEMMA AssociateRows == ASSUME RowsInv, Associate PROVE RowsInv'
<1>1. /\ job.at = "associate" /\ Goto("children")
      /\ managed' = Over(job.plan.adopted, Only(managed, DOMAIN managed \ Detached(managed)))
      /\ UNCHANGED <<catalog, named, moved, split>>
    BY DEF Associate, redirectTables
<1>2. /\ IsJob(job') /\ IsPlan(job'.plan) /\ job'.at = "children" /\ job'.n = job.n
      /\ job'.release = job.release /\ job'.plan = job.plan /\ job'.done = job.done
    BY <1>1, GotoSteps DEF RowsInv
<1>3. JobOK'
    BY <1>1, <1>2 DEF RowsInv, JobOK, Deleting, Redirecting
<1> DEFINE heirs == job.plan.adopted
           rest == DOMAIN managed \ Detached(managed)
<1>4. /\ DOMAIN managed' = DOMAIN heirs \cup rest
      /\ \A t \in DOMAIN heirs :
            /\ managed'[t] = heirs[t] /\ heirs[t] \in DOMAIN Renamed /\ Renamed[heirs[t]] = t
            /\ \E k \in OntoNew : t = Target(k) /\ t \notin DOMAIN managed
      /\ \A k \in rest \ DOMAIN heirs : managed'[k] = managed[k]
    BY <1>1, Associated
<1>5. job.plan.renamed = Renamed
    BY <1>1 DEF RowsInv, PlanOK, Planned
<1>6. DOMAIN Renamed = {managed[k] : k \in OntoNew} /\ OntoNew \subseteq DOMAIN managed
      /\ OntoNew \subseteq Sources
    BY DEF Renamed, OntoNew, Listed
<1>7. DOMAIN heirs \subseteq catalog
    BY <1>1, <1>4, <1>6, TargetsStay DEF RowsInv, JobOK, Deleting
<1>8. \A k \in DOMAIN managed' : \E j \in DOMAIN managed : managed'[k] = managed[j]
    BY <1>4, <1>6
<1>9. \A k \in rest : managed[k] \notin DOMAIN Renamed
    BY <1>5 DEF Detached
<1>10. \A j, k \in DOMAIN managed' : managed'[j] = managed'[k] => j = k
    <2> TAKE j, k \in DOMAIN managed'
    <2> HAVE managed'[j] = managed'[k]
    <2>1. CASE j \in DOMAIN heirs /\ k \in DOMAIN heirs
        BY <1>4, <2>1
    <2>2. CASE j \in DOMAIN heirs /\ k \notin DOMAIN heirs
        BY <1>4, <1>9, <2>2
    <2>3. CASE j \notin DOMAIN heirs /\ k \in DOMAIN heirs
        BY <1>4, <1>9, <2>3
    <2>4. CASE j \notin DOMAIN heirs /\ k \notin DOMAIN heirs
        BY <1>4, <2>4 DEF RowsInv, SearchesOK
    <2> QED
        BY <2>1, <2>2, <2>3, <2>4
<1>11. DOMAIN managed' \subseteq catalog'
    BY <1>1, <1>4, <1>7 DEF RowsInv, SearchesOK
<1>12. \A k \in DOMAIN managed' : MadeBefore(managed[k])'
    BY <1>1, <1>2, <1>8 DEF RowsInv, SearchesOK, MadeBefore, Deleting
<1>13. SearchesOK'
    BY <1>10, <1>11, <1>12 DEF SearchesOK
<1>14. PlanOK'
    BY <1>2 DEF PlanOK
<1> QED
    BY <1>1, <1>2, <1>3, <1>13, <1>14, OnTheWay DEF RowsInv, Deleting

LEMMA FewerSearches ==
    ASSUME RowsInv, NEW S, managed' = Only(managed, S), DOMAIN managed \cap S \subseteq catalog',
           job.at \in Deleting, job'.n = job.n
    PROVE  SearchesOK'
<1>1. DOMAIN managed' = DOMAIN managed \cap S
    BY OnlyIs
<1>2. \A k \in DOMAIN managed' : managed'[k] = managed[k]
    BY OnlyIs
<1>3. ASSUME NEW k \in DOMAIN managed'
      PROVE  MadeBefore(managed[k])'
    <2>1. k \in DOMAIN managed /\ managed'[k] = managed[k]
        BY <1>1, <1>2
    <2>2. managed[k].n \in Nat /\ managed[k].n <= job.n /\ managed[k].n < job.n
        BY <2>1 DEF RowsInv, SearchesOK, MadeBefore
    <2> QED
        BY <2>1, <2>2 DEF MadeBefore
<1>4. \A j, k \in DOMAIN managed' : managed'[j] = managed'[k] => j = k
    BY <1>1, <1>2 DEF RowsInv, SearchesOK
<1> QED
    BY <1>1, <1>3, <1>4 DEF SearchesOK

LEMMA ChildrenRows == ASSUME RowsInv, DeleteChildren PROVE RowsInv'
<1>1. /\ job.at = "children" /\ Goto("parents")
      /\ managed' = Only(managed, DOMAIN managed \ Gone)
      /\ UNCHANGED <<catalog, moved, split>>
    BY DEF DeleteChildren, redirectTables
<1>2. /\ IsJob(job') /\ IsPlan(job'.plan) /\ job'.at = "parents" /\ job'.n = job.n
      /\ job'.release = job.release /\ job'.plan = job.plan /\ job'.done = job.done
    BY <1>1, GotoSteps DEF RowsInv
<1>3. JobOK'
    BY <1>1, <1>2 DEF RowsInv, JobOK, Deleting, Redirecting
<1>4. DOMAIN managed \cap (DOMAIN managed \ Gone) \subseteq catalog'
    BY <1>1 DEF RowsInv, SearchesOK
<1>5. SearchesOK'
    BY <1>1, <1>2, <1>4, FewerSearches DEF Deleting
<1>6. PlanOK'
    BY <1>2 DEF PlanOK
<1> QED
    BY <1>1, <1>2, <1>3, <1>5, <1>6, OnTheWay DEF RowsInv, Deleting

LEMMA ParentsRows == ASSUME RowsInv, DeleteParents PROVE RowsInv'
<1>1. /\ job.at = "parents" /\ Goto("reconcile")
      /\ catalog' = catalog \ Gone /\ managed' = Only(managed, catalog')
      /\ moved' \subseteq moved
    BY DEF DeleteParents
<1>2. /\ IsJob(job') /\ IsPlan(job'.plan) /\ job'.at = "reconcile" /\ job'.n = job.n
      /\ job'.release = job.release /\ job'.plan = job.plan /\ job'.done = job.done
    BY <1>1, GotoSteps DEF RowsInv
<1>3. catalog' = job.release.features
    BY <1>1 DEF RowsInv, JobOK, Deleting, Gone
<1>4. JobOK'
    BY <1>1, <1>2, <1>3 DEF RowsInv, JobOK, Deleting, Redirecting
<1>5. PICK kept : kept = catalog'
    OBVIOUS
<1>6. SearchesOK'
    BY <1>1, <1>2, <1>5, FewerSearches DEF Deleting
<1>7. MovedOK'
    BY <1>1, <1>2 DEF RowsInv, MovedOK, Deleting
<1>8. PlanOK' /\ SyncedOK' /\ SplitOK'
    BY <1>2 DEF PlanOK, SyncedOK, SplitOK, Redirecting
<1> QED
    BY <1>4, <1>6, <1>7, <1>8 DEF RowsInv

\* After the reconciliation every feature has a search of its own, the new ones
\* with the number of this job, which no other search has.
LEMMA SyncRows == ASSUME RowsInv, SyncSystemManagedSavedQuery PROVE RowsInv'
<1> DEFINE missing == catalog \ DOMAIN managed
           created == [k \in missing |-> NewSearch(k)]
<1>1. /\ job.at = "reconcile" /\ Goto("moved")
      /\ managed' = Over(created, managed)
      /\ named' = [s \in {managed'[k] : k \in DOMAIN managed'} |->
                      CHOOSE k \in DOMAIN managed' : managed'[k] = s]
      /\ UNCHANGED <<catalog, moved, split>>
    BY DEF SyncSystemManagedSavedQuery, redirectTables
<1>2. /\ IsJob(job') /\ IsPlan(job'.plan) /\ job'.at = "moved" /\ job'.n = job.n
      /\ job'.release = job.release /\ job'.plan = job.plan /\ job'.done = job.done
    BY <1>1, GotoSteps DEF RowsInv
<1>3. JobOK'
    BY <1>1, <1>2 DEF RowsInv, JobOK, Deleting, Redirecting
<1>4. DOMAIN managed' = catalog
    BY <1>1 DEF Over, RowsInv, SearchesOK
<1>5. \A k \in missing : managed'[k] = NewSearch(k)
    BY <1>1 DEF Over
<1>6. \A k \in DOMAIN managed : managed'[k] = managed[k]
    BY <1>1 DEF Over
<1>7. \A k \in missing : NewSearch(k).n = job.n /\ NewSearch(k).feature = k
    BY DEF NewSearch
<1>8. \A k \in DOMAIN managed : managed[k].n \in Nat /\ managed[k].n < job.n
    BY <1>1 DEF RowsInv, SearchesOK, MadeBefore
<1>9. \A k \in catalog : managed'[k].n \in Nat /\ managed'[k].n <= job.n
    BY <1>5, <1>6, <1>7, <1>8 DEF RowsInv, JobOK
<1>10. \A j, k \in catalog : managed'[j] = managed'[k] => j = k
    <2> TAKE j, k \in catalog
    <2> HAVE managed'[j] = managed'[k]
    <2>1. CASE j \in missing /\ k \in missing
        BY <1>5, <1>7, <2>1
    <2>2. CASE j \in missing /\ k \notin missing
        BY <1>5, <1>6, <1>7, <1>8, <2>2
    <2>3. CASE j \notin missing /\ k \in missing
        BY <1>5, <1>6, <1>7, <1>8, <2>3
    <2>4. CASE j \notin missing /\ k \notin missing
        BY <1>6, <2>4 DEF RowsInv, SearchesOK
    <2> QED
        BY <2>1, <2>2, <2>3, <2>4
<1>11. SearchesOK'
    BY <1>1, <1>2, <1>4, <1>9, <1>10 DEF SearchesOK, MadeBefore, Deleting
<1>12. Synced'
    <2>1. DOMAIN named' = {managed'[k] : k \in catalog}
        BY <1>1, <1>4
    <2>2. ASSUME NEW k \in catalog
          PROVE  named'[managed'[k]] = k
        <3>1. named'[managed'[k]] = CHOOSE j \in catalog : managed'[j] = managed'[k]
            BY <1>1, <1>4
        <3> QED
            BY <1>10, <3>1
    <2> QED
        BY <1>1, <1>4, <2>1, <2>2 DEF Synced
<1>13. PlanOK' /\ SyncedOK' /\ SplitOK'
    BY <1>2, <1>12 DEF PlanOK, SyncedOK, SplitOK
<1>14. MovedOK'
    BY <1>1, <1>2 DEF RowsInv, MovedOK, Deleting
<1> QED
    BY <1>3, <1>11, <1>13, <1>14 DEF RowsInv

\* A step of the redirects' tables leaves the searches as they were reconciled.
LEMMA RedirectingKeeps ==
    ASSUME RowsInv, job.at \in Redirecting, UNCHANGED <<catalog, named, managed>>,
           job'.n = job.n, job'.at \in {"idle"} \cup Redirecting
    PROVE  SearchesOK' /\ PlanOK' /\ SyncedOK'
<1>1. SearchesOK'
    BY DEF RowsInv, SearchesOK, MadeBefore, Redirecting, Deleting
<1>2. SyncedOK'
    BY DEF RowsInv, SyncedOK, Synced
<1>3. PlanOK'
    BY DEF PlanOK, Redirecting
<1> QED
    BY <1>1, <1>2, <1>3

LEMMA InsertMovedRows == ASSUME RowsInv, InsertMoved PROVE RowsInv'
<1>1. /\ job.at = "moved" /\ Goto("dropMoved") /\ moved' = moved \cup MovedRows
      /\ UNCHANGED <<catalog, named, managed, split>>
    BY DEF InsertMoved, MovedRows, searchTables
<1>2. /\ IsJob(job') /\ IsPlan(job'.plan) /\ job'.at = "dropMoved" /\ job'.n = job.n
      /\ job'.release = job.release /\ job'.plan = job.plan /\ job'.done = job.done
    BY <1>1, GotoSteps DEF RowsInv
<1>3. JobOK'
    BY <1>1, <1>2 DEF RowsInv, JobOK, Deleting, Redirecting
<1>4. \A row \in MovedRows : row.n = job.n
    BY DEF MovedRows, MovedRow
<1>5. MovedRows' = MovedRows
    BY <1>2 DEF MovedRows, MovedRow, Target
<1>6. \A row \in moved : row.n \in Nat /\ row.n < job.n
    BY <1>1 DEF RowsInv, MovedOK
<1>7. MovedOK'
    <2>1. \A row \in moved' : row.n \in Nat /\ row.n <= job.n
        BY <1>1, <1>4, <1>6 DEF RowsInv, JobOK
    <2>2. {row \in moved' : row.n = job.n} = MovedRows
        BY <1>1, <1>4, <1>6 DEF RowsInv, JobOK
    <2> QED
        BY <1>2, <1>5, <2>1, <2>2 DEF MovedOK, Deleting
<1>8. SplitOK'
    BY <1>2 DEF SplitOK
<1> QED
    BY <1>1, <1>2, <1>3, <1>7, <1>8, RedirectingKeeps DEF RowsInv, Redirecting

LEMMA DropMovedRows == ASSUME RowsInv, DropMoved PROVE RowsInv'
<1>1. /\ job.at = "dropMoved" /\ Goto("split") /\ moved' = {row \in moved : row.n = job.n}
      /\ UNCHANGED <<catalog, named, managed, split>>
    BY DEF DropMoved, searchTables
<1>2. /\ IsJob(job') /\ IsPlan(job'.plan) /\ job'.at = "split" /\ job'.n = job.n
      /\ job'.release = job.release /\ job'.plan = job.plan /\ job'.done = job.done
    BY <1>1, GotoSteps DEF RowsInv
<1>3. JobOK'
    BY <1>1, <1>2 DEF RowsInv, JobOK, Deleting, Redirecting
<1>4. MovedRows' = MovedRows /\ moved' = MovedRows
    BY <1>1, <1>2 DEF RowsInv, MovedOK, MovedRows, MovedRow, Target
<1>5. \A row \in moved' : row.n \in Nat /\ row.n <= job.n
    BY <1>1 DEF RowsInv, MovedOK
<1>6. MovedOK'
    BY <1>2, <1>4, <1>5 DEF MovedOK, Deleting
<1>7. SplitOK'
    BY <1>2 DEF SplitOK
<1> QED
    BY <1>1, <1>2, <1>3, <1>6, <1>7, RedirectingKeeps DEF RowsInv, Redirecting

LEMMA InsertSplitRows == ASSUME RowsInv, InsertSplit PROVE RowsInv'
<1>1. /\ job.at = "split" /\ Goto("dropSplit") /\ split' = split \cup SplitRows
      /\ UNCHANGED <<catalog, named, managed, moved>>
    BY DEF InsertSplit, searchTables
<1>2. /\ IsJob(job') /\ IsPlan(job'.plan) /\ job'.at = "dropSplit" /\ job'.n = job.n
      /\ job'.release = job.release /\ job'.plan = job.plan /\ job'.done = job.done
    BY <1>1, GotoSteps DEF RowsInv
<1>3. JobOK'
    BY <1>1, <1>2 DEF RowsInv, JobOK, Deleting, Redirecting
<1>4. MovedRows' = MovedRows /\ SplitRows' = SplitRows
    BY <1>2 DEF MovedRows, MovedRow, Target, SplitRows
<1>5. MovedOK'
    BY <1>1, <1>2, <1>4 DEF RowsInv, MovedOK, Deleting
<1>6. SplitOK'
    BY <1>1, <1>2, <1>4 DEF SplitOK
<1> QED
    BY <1>1, <1>2, <1>3, <1>5, <1>6, RedirectingKeeps DEF RowsInv, Redirecting

LEMMA DropSplitRows == ASSUME RowsInv, DropSplit PROVE RowsInv'
<1>1. /\ job.at = "dropSplit" /\ split' = split \cap SplitRows
      /\ job' = [job EXCEPT !.at = "idle", !.plan = NoPlan, !.done = TRUE]
      /\ UNCHANGED <<catalog, named, managed, moved>>
    BY DEF DropSplit, searchTables
<1>2. /\ IsJob(job') /\ job'.at = "idle" /\ job'.n = job.n /\ job'.release = job.release
      /\ job'.plan = NoPlan /\ job'.done
    BY <1>1 DEF RowsInv, JobOK, IsJob
<1>3. IsPlan(NoPlan)
    BY DEF IsPlan, NoPlan
<1>4. JobOK'
    BY <1>1, <1>2, <1>3 DEF RowsInv, JobOK, Deleting, Redirecting
<1>5. MovedRows' = MovedRows /\ SplitRows' = SplitRows
    BY <1>2 DEF MovedRows, MovedRow, Target, SplitRows
<1>6. MovedOK'
    BY <1>1, <1>2, <1>5 DEF RowsInv, MovedOK, Deleting
<1>7. SplitOK'
    BY <1>1, <1>2, <1>5 DEF RowsInv, SplitOK
<1> QED
    BY <1>1, <1>2, <1>4, <1>6, <1>7, RedirectingKeeps DEF RowsInv, Redirecting

LEMMA FailedRows == ASSUME RowsInv, JobFails PROVE RowsInv'
<1>1. /\ job.at # "idle" /\ job' = [job EXCEPT !.at = "idle", !.plan = NoPlan]
      /\ UNCHANGED <<catalog, named, managed, moved, split>>
    BY DEF JobFails, searchTables, redirectTables
<1>2. /\ IsJob(job') /\ job'.at = "idle" /\ job'.n = job.n /\ job'.release = job.release
      /\ job'.plan = NoPlan /\ ~job'.done
    BY <1>1 DEF RowsInv, JobOK, IsJob
<1>3. JobOK'
    BY <1>1, <1>2 DEF RowsInv, JobOK, IsPlan, NoPlan, Deleting, Redirecting
<1>4. SearchesOK'
    BY <1>1, <1>2 DEF RowsInv, SearchesOK, MadeBefore, Deleting
<1>5. MovedOK'
    BY <1>1, <1>2 DEF RowsInv, MovedOK, Deleting
<1>6. PlanOK' /\ SyncedOK' /\ SplitOK'
    BY <1>2 DEF PlanOK, SyncedOK, SplitOK, Redirecting
<1> QED
    BY <1>3, <1>4, <1>5, <1>6 DEF RowsInv

LEMMA RowsStep == RowsInv /\ [CatalogNext]_catalogVars => RowsInv'
<1> SUFFICES ASSUME RowsInv, [CatalogNext]_catalogVars
             PROVE  RowsInv'
    OBVIOUS
<1>1. CASE UserActs \/ \E k \in Keys, m \in Measures : StoreMetrics(k, m)
    BY <1>1, UserRows
<1>2. CASE JobSteps
    BY <1>2, UpsertRows, PlanRows, CopyRows, RewriteRows, AssociateRows, ChildrenRows,
       ParentsRows, SyncRows, InsertMovedRows, DropMovedRows, InsertSplitRows, DropSplitRows,
       FailedRows DEF JobSteps
<1>3. CASE UNCHANGED catalogVars
    <2>1. JobOK' /\ SearchesOK' /\ SyncedOK' /\ MovedOK' /\ SplitOK'
        BY <1>3 DEF RowsInv, JobOK, SearchesOK, MadeBefore, SyncedOK, Synced, MovedOK, MovedRows,
                    MovedRow, Target, SplitOK, SplitRows, catalogVars, searchTables, redirectTables
    <2>2. PlanOK'
        BY <1>3, SameMoves DEF RowsInv, PlanOK, Planned, catalogVars, searchTables
    <2> QED
        BY <2>1, <2>2 DEF RowsInv
<1> QED
    BY <1>1, <1>2, <1>3 DEF CatalogNext

\* The tables say of each key what the release says.
LEMMA RowsInvImplies == RowsInv => SyncedCatalogIsComplete
<1> SUFFICES ASSUME RowsInv, job.at = "idle", job.done
             PROVE  /\ \A k \in Keys : GetFeature(k) = {Published(job.release, k)}
                    /\ Synced
    BY DEF SyncedCatalogIsComplete, Synced
<1> DEFINE r == job.release
<1>1. Synced /\ r \in Releases /\ catalog = r.features /\ moved = MovedRows /\ split = SplitRows
    BY DEF RowsInv, JobOK, SyncedOK, MovedOK, SplitOK
<1>2. /\ DOMAIN r.moved \cup DOMAIN r.split \subseteq Keys \ r.features
      /\ DOMAIN r.moved \cap DOMAIN r.split = {}
      /\ \A k \in DOMAIN r.split : r.split[k] # {}
    BY <1>1, ReleasesAssumption
<1>3. ASSUME NEW k \in DOMAIN r.moved
      PROVE  Redirects(k) = {r.moved[k]}
    <2>1. MovedRow(k) \in moved /\ MovedRow(k).original = k /\ MovedRow(k).to = r.moved[k]
        BY <1>1 DEF MovedRows, MovedRow, Target
    <2>2. \A row \in moved : row.original = k => row.to = r.moved[k]
        BY <1>1 DEF MovedRows, MovedRow, Target
    <2> QED
        BY <2>1, <2>2 DEF Redirects
<1>4. \A k : k \notin DOMAIN r.moved => Redirects(k) = {}
    BY <1>1 DEF Redirects, MovedRows, MovedRow
<1>5. ASSUME NEW k \in DOMAIN r.split
      PROVE  Parts(k) = r.split[k]
    <2>1. ASSUME NEW t \in r.split[k]
          PROVE  t \in Parts(k)
        <3>1. <<k, t>> \in split
            BY <1>1 DEF SplitRows
        <3> QED
            BY <3>1 DEF Parts
    <2>2. ASSUME NEW t \in Parts(k)
          PROVE  t \in r.split[k]
        BY <1>1 DEF Parts, SplitRows
    <2> QED
        BY <2>1, <2>2
<1>6. \A k : k \notin DOMAIN r.split => Parts(k) = {}
    BY <1>1 DEF Parts, SplitRows
<1>7. ASSUME NEW k \in Keys
      PROVE  GetFeature(k) = {Published(r, k)}
    <2>1. CASE k \in r.features
        BY <1>1, <1>2, <2>1 DEF GetFeature, Published
    <2>2. CASE k \in DOMAIN r.moved
        <3>1. GetFeature(k) = {Moved(t) : t \in {r.moved[k]}}
            BY <1>1, <1>2, <1>3, <2>2 DEF GetFeature
        <3> QED
            BY <1>2, <2>2, <3>1 DEF Published
    <2>3. CASE k \in DOMAIN r.split
        <3>1. GetFeature(k) = {Split(Parts(k))}
            BY <1>1, <1>2, <1>4, <1>5, <2>3 DEF GetFeature
        <3> QED
            BY <1>2, <1>5, <2>3, <3>1 DEF Published
    <2>4. CASE k \notin r.features /\ k \notin DOMAIN r.moved /\ k \notin DOMAIN r.split
        BY <1>1, <1>4, <1>6, <2>4 DEF GetFeature, Published
    <2> QED
        BY <2>1, <2>2, <2>3, <2>4
<1> QED
    BY <1>1, <1>7

LEMMA RowsHold == CatalogSpec => []RowsInv
BY RowsInitially, RowsStep, PTL DEF CatalogSpec

\* Whatever the jobs before it left behind, after a job that ends well the API
\* answers what the release says, and every feature has the one search for it.
THEOREM SyncedCatalogComplete == CatalogSpec => []SyncedCatalogIsComplete
BY RowsHold, RowsInvImplies, PTL
-----------------------------------------------------------------------------
(* Subscriptions and histories *)

LEMMA MovesInitially == CatalogInit => MovesInv
BY DEF CatalogInit, MovesInv, HistoriesOK, FollowersOK, FollowersTyped, IsTable, NoMoves

LEMMA FewerFollowers ==
    ASSUME MovesInv, NEW S, followers' = Only(followers, S)
    PROVE  /\ DOMAIN followers' = DOMAIN followers \cap S
           /\ \A d \in DOMAIN followers' : followers'[d] = followers[d]
           /\ FollowersTyped'
<1>1. DOMAIN followers' = DOMAIN followers \cap S
    BY OnlyIs
<1>2. \A d \in DOMAIN followers' : followers'[d] = followers[d]
    BY OnlyIs
<1>3. IsTable(followers')
    BY DEF Only, IsTable
<1> QED
    BY <1>1, <1>2, <1>3 DEF MovesInv, FollowersOK, FollowersTyped

\* Where nothing is said of moves, only the tables have to be tables.
LEMMA ElsewhereMoves ==
    ASSUME job'.at \notin {"copy", "searches", "associate", "children"},
           FollowersTyped'
    PROVE  MovesInv'
BY DEF MovesInv, HistoriesOK, FollowersOK

\* The metrics that features bring along change with the rows of their measure.
LEMMA SameMetrics ==
    ASSUME UNCHANGED catalog, job'.release = job.release, NEW m,
           \A k \in Sources :
              /\ <<k, m>> \in DOMAIN histories' <=> <<k, m>> \in DOMAIN histories
              /\ <<k, m>> \in DOMAIN histories => histories'[<<k, m>>] = histories[<<k, m>>]
    PROVE  \A t : Carried(t, m)' = Carried(t, m)
<1>1. Sources' = Sources /\ \A k : Target(k)' = Target(k)
    BY DEF Sources, Target
<1>2. \A t : Moving(t, m)' = Moving(t, m)
    BY <1>1 DEF Moving
<1>3. \A t : \A k \in Moving(t, m) : histories'[<<k, m>>] = histories[<<k, m>>]
    BY DEF Moving
<1>4. ASSUME NEW t
      PROVE  Carried(t, m)' = Carried(t, m)
    <2>1. Carried(t, m)' = {histories'[<<k, m>>] : k \in Moving(t, m)}
        BY <1>2 DEF Carried
    <2>2. {histories'[<<k, m>>] : k \in Moving(t, m)} = Carried(t, m)
        BY <1>3 DEF Carried
    <2> QED
        BY <2>1, <2>2
<1> QED
    BY <1>4

\* What the metrics are about stays true while no measure is stored.
LEMMA HistoriesStay ==
    ASSUME HistoriesOK, UNCHANGED <<catalog, histories>>, touched \subseteq touched',
           job'.release = job.release, job'.plan = job.plan,
           \/ job'.at = job.at
           \/ job.at = "searches" /\ job'.at = "associate"
           \/ job.at = "associate" /\ job'.at = "children"
    PROVE  HistoriesOK'
<1>1. Sources' = Sources /\ \A k : Target(k)' = Target(k)
    BY DEF Sources, Target
<1>2. \A t, m : Carried(t, m)' = Carried(t, m)
    BY SameMetrics
<1>3. AllBrought(histories) => AllBrought(histories)'
    BY <1>1, <1>2 DEF AllBrought, Brought
<1>4. AllBrought(job.plan.copied) => AllBrought(job.plan.copied)'
    BY <1>1, <1>2 DEF AllBrought, Brought
<1> QED
    BY <1>3, <1>4 DEF HistoriesOK

\* Metrics that are stored touch their measure, and leave the rows of others.
LEMMA StoreMoves ==
    ASSUME RowsInv, MovesInv, NEW c \in Keys, NEW n \in Measures, StoreMetrics(c, n)
    PROVE  MovesInv'
<1>1. /\ histories' = Over([row \in {<<c, n>>} |-> c], histories)
      /\ touched' = touched \cup {n}
      /\ UNCHANGED <<catalog, named, managed, followers, job>>
    BY DEF StoreMetrics, searchTables
<1>2. /\ Sources' = Sources /\ \A k : Target(k)' = Target(k)
      /\ OntoKnown' = OntoKnown /\ Listed' = Listed
    BY <1>1, SameMoves
<1>3. PICK new : new = [row \in {<<c, n>>} |-> c]
    OBVIOUS
<1>4. histories' = [row \in DOMAIN new \cup DOMAIN histories |->
                       IF row \in DOMAIN new THEN new[row] ELSE histories[row]]
    BY <1>1, <1>3 DEF Over
<1>5. ASSUME NEW k, NEW m \in Measures \ touched'
      PROVE  /\ <<k, m>> \in DOMAIN histories' <=> <<k, m>> \in DOMAIN histories
             /\ <<k, m>> \in DOMAIN histories => histories'[<<k, m>>] = histories[<<k, m>>]
    <2>1. DOMAIN new = {<<c, n>>} /\ m # n
        BY <1>1, <1>3
    <2>2. <<k, m>> \notin DOMAIN new
        BY <2>1
    <2> QED
        BY <1>4, <2>2
<1>6. ASSUME NEW m \in Measures \ touched'
      PROVE  \A t : Carried(t, m)' = Carried(t, m)
    BY <1>1, <1>5, SameMetrics
<1>7. AllBrought(histories) => AllBrought(histories)'
    BY <1>1, <1>2, <1>5, <1>6 DEF AllBrought, Brought
<1>8. AllBrought(job.plan.copied) => AllBrought(job.plan.copied)'
    BY <1>1, <1>2, <1>5, <1>6 DEF AllBrought, Brought
<1>9. HistoriesOK'
    BY <1>1, <1>7, <1>8 DEF MovesInv, HistoriesOK
<1>10. /\ \A s : FollowersOf(s)' = FollowersOf(s)
       /\ \A k, d : Doubled(k, d)' = Doubled(k, d)
       /\ \A d : Touched(d) => Touched(d)'
    BY <1>1, <1>2 DEF FollowersOf, Doubled, Touched
<1>11. FollowersTyped'
    BY <1>1 DEF MovesInv, FollowersOK, FollowersTyped
<1>12. FollowersOK'
    BY <1>1, <1>2, <1>10, <1>11 DEF MovesInv, FollowersOK
<1> QED
    BY <1>9, <1>12 DEF MovesInv

\* What a user does leaves a subscription as it was, or touches its channel.
LEMMA UserChanges ==
    ASSUME MovesInv, UserActs
    PROVE  /\ FollowersTyped'
           /\ touched \subseteq touched'
           /\ \A d \in DOMAIN followers' : Touched(d)' \/
                 /\ d \in DOMAIN followers
                 /\ followers'[d].channel = followers[d].channel
                 /\ followers'[d].search = followers[d].search
           /\ \A d \in DOMAIN followers : Touched(d) \/ followers[d].channel \in touched' \/
                 /\ d \in DOMAIN followers'
                 /\ followers'[d].channel = followers[d].channel
                 /\ followers'[d].search = followers[d].search
<1> USE DEF Touched, FollowersTyped
<1>1. CASE \E c \in FollowerChannels, s \in DOMAIN named, o \in Settings : Follow(c, s, o)
    <2>1. PICK c \in FollowerChannels, s \in DOMAIN named, o \in Settings : Follow(c, s, o)
        BY <1>1
    <2>2. PICK d \in FollowerIds \ DOMAIN followers :
              followers' = Over([e \in {d} |-> [channel |-> c, search |-> s, settings |-> o]],
                                followers)
        BY <2>1 DEF Follow
    <2>3. PICK new : new = [e \in {d} |-> [channel |-> c, search |-> s, settings |-> o]]
        OBVIOUS
    <2>4. followers' = [e \in {d} \cup DOMAIN followers |->
                            IF e \in {d} THEN new[e] ELSE followers[e]]
        BY <2>2, <2>3 DEF Over
    <2>5. /\ DOMAIN followers' = {d} \cup DOMAIN followers
          /\ followers'[d] = [channel |-> c, search |-> s, settings |-> o]
          /\ \A e \in DOMAIN followers : followers'[e] = followers[e]
        BY <2>2, <2>3, <2>4
    <2>6. IsTable(followers')
        BY <2>4 DEF IsTable
    <2>7. touched' = touched \cup {c}
        BY <2>1 DEF Follow
    <2>8. IsFollower(followers'[d]) /\ followers'[d].channel = c
        BY <2>5 DEF IsFollower
    <2> QED
        BY <2>5, <2>6, <2>7, <2>8 DEF MovesInv, FollowersOK
<1>2. CASE \E d \in DOMAIN followers : Unfollow(d)
    <2>1. PICK d \in DOMAIN followers : Unfollow(d)
        BY <1>2
    <2>2. followers' = Only(followers, FollowerIds \ {d})
          /\ touched' = touched \cup {followers[d].channel}
        BY <2>1 DEF Unfollow
    <2>3. /\ DOMAIN followers' = DOMAIN followers \cap (FollowerIds \ {d})
          /\ \A e \in DOMAIN followers' : followers'[e] = followers[e]
          /\ FollowersTyped'
        BY <2>2, FewerFollowers
    <2>4. DOMAIN followers \subseteq FollowerIds
        BY DEF MovesInv, FollowersOK
    <2> QED
        BY <2>2, <2>3, <2>4
<1>3. CASE \E d \in DOMAIN followers, o \in Settings : Adjust(d, o)
    <2>1. PICK d \in DOMAIN followers, o \in Settings : Adjust(d, o)
        BY <1>3
    <2>2. followers' = [followers EXCEPT ![d].settings = o]
          /\ touched' = touched \cup {followers[d].channel}
        BY <2>1 DEF Adjust
    <2>3. /\ DOMAIN followers' = DOMAIN followers /\ IsTable(followers')
          /\ \A e \in DOMAIN followers \ {d} : followers'[e] = followers[e]
          /\ followers'[d] = [followers[d] EXCEPT !.settings = o]
        BY <2>2 DEF MovesInv, FollowersOK, IsTable
    <2>4. IsFollower(followers[d])
        BY DEF MovesInv, FollowersOK
    <2>5. /\ IsFollower(followers'[d]) /\ followers'[d].channel = followers[d].channel
          /\ followers'[d].search = followers[d].search
        BY <2>3, <2>4 DEF IsFollower
    <2> QED
        BY <2>2, <2>3, <2>5 DEF MovesInv, FollowersOK
<1> QED
    BY <1>1, <1>2, <1>3 DEF UserActs

LEMMA UserMoves == ASSUME RowsInv, MovesInv, UserActs PROVE MovesInv'
<1>1. UNCHANGED <<catalog, named, managed, histories, job>>
    BY DEF UserActs, searchTables
<1>2. /\ FollowersTyped'
      /\ touched \subseteq touched'
      /\ \A d \in DOMAIN followers' : Touched(d)' \/
            /\ d \in DOMAIN followers
            /\ followers'[d].channel = followers[d].channel
            /\ followers'[d].search = followers[d].search
      /\ \A d \in DOMAIN followers : Touched(d) \/ followers[d].channel \in touched' \/
            /\ d \in DOMAIN followers'
            /\ followers'[d].channel = followers[d].channel
            /\ followers'[d].search = followers[d].search
    BY UserChanges
<1>3. /\ Sources' = Sources /\ \A k : Target(k)' = Target(k)
      /\ OntoKnown' = OntoKnown /\ Listed' = Listed
    BY <1>1, SameMoves
<1>4. HistoriesOK'
    BY <1>1, <1>2, HistoriesStay DEF MovesInv
\* A subscription of that search, touched or not, is a case that stays.
<1>5. ASSUME NEW k, NEW d \in FollowersOf(managed[k])'
      PROVE  Touched(d)' \/ (d \in FollowersOf(managed[k])
                             /\ followers'[d].channel = followers[d].channel
                             /\ (Touched(d) => Touched(d)')
                             /\ (Doubled(k, d) => Touched(d)' \/ Doubled(k, d)'))
    <2>1. CASE Touched(d)'
        BY <2>1
    <2>2. CASE ~Touched(d)'
        <3>1. /\ d \in DOMAIN followers' /\ followers'[d].search = managed[k]
              /\ d \in DOMAIN followers /\ followers'[d].channel = followers[d].channel
              /\ followers'[d].search = followers[d].search
            BY <1>1, <1>2, <2>2 DEF FollowersOf
        <3>2. d \in FollowersOf(managed[k]) /\ (Touched(d) => Touched(d)')
            BY <1>2, <3>1 DEF FollowersOf, Touched
        <3>3. ASSUME Doubled(k, d)
              PROVE  Touched(d)' \/ Doubled(k, d)'
            <4>1. PICK e \in FollowersOf(managed[Target(k)]) :
                      followers[e].channel = followers[d].channel
                BY <3>3 DEF Doubled
            <4>2. CASE followers[e].channel \in touched'
                BY <3>1, <4>1, <4>2 DEF Touched
            <4>3. CASE followers[e].channel \notin touched'
                <5>1. e \in DOMAIN followers' /\ followers'[e].channel = followers[e].channel
                      /\ followers'[e].search = managed[Target(k)]
                    BY <1>2, <4>1, <4>3 DEF FollowersOf, Touched
                <5>2. e \in FollowersOf(managed[Target(k)])'
                    BY <1>1, <1>3, <5>1 DEF FollowersOf
                <5> QED
                    BY <3>1, <4>1, <5>1, <5>2 DEF Doubled
            <4> QED
                BY <4>2, <4>3
        <3> QED
            BY <3>1, <3>2, <3>3
    <2> QED
        BY <2>1, <2>2
<1>6. ASSUME job.at \in {"copy", "searches"}, NEW d \in DOMAIN job.plan.rehomed,
             d \in DOMAIN followers'
      PROVE  Touched(d)' \/ \E j \in OntoKnown : followers'[d].search = managed[j]
    <2>1. CASE Touched(d)'
        BY <2>1
    <2>2. CASE ~Touched(d)'
        <3>1. /\ d \in DOMAIN followers /\ followers'[d].channel = followers[d].channel
              /\ followers'[d].search = followers[d].search
            BY <1>2, <1>6, <2>2
        <3>2. ~Touched(d)
            BY <1>2, <2>2, <3>1 DEF Touched
        <3> QED
            BY <1>6, <3>1, <3>2 DEF MovesInv, FollowersOK
    <2> QED
        BY <2>1, <2>2
<1>7. FollowersOK'
    <2>1. ASSUME job.at \in {"copy", "searches"}
          PROVE  /\ \A d \in DOMAIN job.plan.rehomed :
                       /\ IsFollower(job.plan.rehomed[d])
                       /\ \E j \in OntoKnown : job.plan.rehomed[d].search = managed[Target(j)]
                       /\ d \in DOMAIN followers' =>
                             Touched(d)' \/ \E j \in OntoKnown : followers'[d].search = managed[j]
                 /\ \A k \in OntoKnown : \A d \in FollowersOf(managed[k])' :
                       d \in DOMAIN job.plan.rehomed \/ Touched(d)' \/ Doubled(k, d)'
        BY <1>5, <1>6, <2>1 DEF MovesInv, FollowersOK
    <2>2. ASSUME job.at = "associate"
          PROVE  \A k \in OntoKnown : \A d \in FollowersOf(managed[k])' :
                     Touched(d)' \/ Doubled(k, d)'
        BY <1>5, <2>2 DEF MovesInv, FollowersOK
    <2>3. ASSUME job.at = "children"
          PROVE  \A k \in Listed :
                    /\ Target(k) \in DOMAIN managed
                    /\ \A d \in FollowersOf(managed[k])' : Touched(d)' \/ Doubled(k, d)'
        BY <1>5, <2>3 DEF MovesInv, FollowersOK
    <2> QED
        BY <1>1, <1>2, <1>3, <2>1, <2>2, <2>3 DEF FollowersOK
<1> QED
    BY <1>4, <1>7 DEF MovesInv

\* What the hook plans for whom.
LEMMA PlanMoves == ASSUME RowsInv, MovesInv, PreDeleteHook PROVE MovesInv'
<1>1. /\ job.at = "plan" /\ UNCHANGED <<catalog, named, managed, followers, histories>>
    BY DEF PreDeleteHook, searchTables
<1>2. PICK copied \in Copies, adopted \in Adoptions :
          job' = [job EXCEPT !.at = "copy",
                             !.plan = [copied |-> copied, rehomed |-> Rehomed,
                                       renamed |-> Renamed, adopted |-> adopted]]
    BY DEF PreDeleteHook
<1>3. /\ job'.at = "copy" /\ job'.release = job.release
      /\ job'.plan.rehomed = Rehomed /\ job'.plan.copied = copied
    BY <1>2 DEF RowsInv, JobOK, IsJob
<1>4. OntoKnown' = OntoKnown /\ \A k : Target(k)' = Target(k)
    BY <1>1, <1>3, SameMoves
<1>5. \A k \in OntoKnown : k \in DOMAIN managed /\ Target(k) \in DOMAIN managed
    BY DEF OntoKnown, Listed
<1>6. \A k \in OntoKnown : FeatureOf(managed[k]) = k
    BY <1>5 DEF FeatureOf, RowsInv, SearchesOK
<1> DEFINE new(d) == managed[Target(FeatureOf(followers[d].search))]
           theirs == UNION {FollowersOf(managed[k]) : k \in OntoKnown}
<1>7. Rehomed = [d \in {d \in theirs : followers[d].channel \notin ChannelsFollowing(new(d))} |->
                    [followers[d] EXCEPT !.search = new(d)]]
    BY DEF Rehomed
<1>8. \A d \in theirs : d \in DOMAIN followers
                        /\ \E k \in OntoKnown : followers[d].search = managed[k]
                                                /\ new(d) = managed[Target(k)]
    BY <1>6 DEF FollowersOf
<1>9. ASSUME NEW d \in DOMAIN Rehomed
      PROVE  /\ IsFollower(Rehomed[d])
             /\ \E j \in OntoKnown : Rehomed[d].search = managed[Target(j)]
             /\ \E j \in OntoKnown : followers[d].search = managed[j]
    <2>1. d \in theirs /\ Rehomed[d] = [followers[d] EXCEPT !.search = new(d)]
        BY <1>7
    <2>2. IsFollower(followers[d])
        BY <1>8, <2>1 DEF MovesInv, FollowersOK, FollowersTyped
    <2>3. IsFollower(Rehomed[d]) /\ Rehomed[d].search = new(d)
        BY <2>1, <2>2 DEF IsFollower
    <2> QED
        BY <1>8, <2>1, <2>3
<1>10. ASSUME NEW k \in OntoKnown, NEW d \in FollowersOf(managed[k])
       PROVE  d \in DOMAIN Rehomed \/ Doubled(k, d)
    <2>1. d \in theirs
        OBVIOUS
    <2>2. followers[d].search = managed[k] /\ new(d) = managed[Target(k)]
        BY <1>6 DEF FollowersOf
    <2>3. CASE followers[d].channel \in ChannelsFollowing(managed[Target(k)])
        BY <2>3 DEF ChannelsFollowing, Doubled
    <2>4. CASE followers[d].channel \notin ChannelsFollowing(managed[Target(k)])
        BY <1>7, <2>1, <2>2, <2>4
    <2> QED
        BY <2>3, <2>4
<1>11. /\ \A s : FollowersOf(s)' = FollowersOf(s)
       /\ \A k, d : Doubled(k, d)' = Doubled(k, d)
    BY <1>1, <1>4 DEF FollowersOf, Doubled
<1>12. FollowersTyped' /\ HistoriesOK'
    <2> DEFINE rows == {row \in job.release.features \X Measures : Moving(row[1], row[2]) # {}}
    <2>1. DOMAIN copied = rows /\ \A row \in rows : copied[row] \in Carried(row[1], row[2])
        BY DEF Copies
    <2>2. ASSUME NEW k \in Sources, NEW m \in Measures, <<k, m>> \in DOMAIN histories
          PROVE  Brought(copied, Target(k), m)
        <3>1. Target(k) \in job.release.features
            BY <1>1, TargetsStay DEF RowsInv
        <3>2. k \in Moving(Target(k), m)
            BY <2>2 DEF Moving
        <3>3. <<Target(k), m>> \in rows
            BY <3>1, <3>2
        <3> QED
            BY <2>1, <3>3 DEF Brought
    <2>3. /\ Sources' = Sources /\ \A t, m : Carried(t, m)' = Carried(t, m)
        BY <1>1, <1>3, SameMetrics DEF Sources
    <2>4. AllBrought(copied)'
        BY <1>1, <1>4, <2>2, <2>3 DEF AllBrought, Brought
    <2>5. DOMAIN copied \subseteq job'.release.features \X Measures
        BY <1>3, <2>1
    <2>6. FollowersTyped'
        BY <1>1 DEF MovesInv, FollowersOK, FollowersTyped
    <2> QED
        BY <1>3, <2>4, <2>5, <2>6 DEF HistoriesOK, AllBrought
<1>13. FollowersOK'
    <2>1. \A d \in DOMAIN Rehomed :
             /\ IsFollower(Rehomed[d])
             /\ \E j \in OntoKnown : Rehomed[d].search = managed[Target(j)]
             /\ d \in DOMAIN followers =>
                   Touched(d)' \/ \E j \in OntoKnown : followers[d].search = managed[j]
        BY <1>9
    <2>2. \A k \in OntoKnown : \A d \in FollowersOf(managed[k]) :
              d \in DOMAIN Rehomed \/ Touched(d)' \/ Doubled(k, d)
        BY <1>10
    <2> QED
        BY <1>1, <1>3, <1>4, <1>11, <1>12, <2>1, <2>2 DEF FollowersOK
<1> QED
    BY <1>12, <1>13 DEF MovesInv

LEMMA CopyMoves == ASSUME RowsInv, MovesInv, CopyHistories PROVE MovesInv'
<1>1. /\ job.at = "copy" /\ Goto("searches")
      /\ histories' = Over(job.plan.copied, histories)
      /\ UNCHANGED <<catalog, named, managed, followers, touched>>
    BY DEF CopyHistories, searchTables
<1>2. job'.at = "searches" /\ job'.release = job.release /\ job'.plan = job.plan
    BY <1>1, GotoSteps DEF RowsInv
<1>3. /\ OntoKnown' = OntoKnown /\ Sources' = Sources /\ \A k : Target(k)' = Target(k)
    BY <1>1, <1>2, SameMoves
<1> DEFINE copied == job.plan.copied
<1>4. /\ DOMAIN histories' = DOMAIN copied \cup DOMAIN histories
      /\ \A row \in DOMAIN histories' :
            histories'[row] = IF row \in DOMAIN copied THEN copied[row] ELSE histories[row]
    BY <1>1 DEF Over
<1>5. HistoriesOK'
    <2>1. DOMAIN copied \subseteq job.release.features \X Measures /\ AllBrought(copied)
        BY <1>1 DEF MovesInv, HistoriesOK
    \* The rows of a source are no target's.
    <2>2. ASSUME NEW k \in Sources, NEW m
          PROVE  /\ <<k, m>> \in DOMAIN histories' <=> <<k, m>> \in DOMAIN histories
                 /\ <<k, m>> \in DOMAIN histories => histories'[<<k, m>>] = histories[<<k, m>>]
        <3>1. k \notin job.release.features
            BY <1>1, TargetsStay DEF RowsInv, Gone
        <3>2. <<k, m>> \notin DOMAIN copied
            BY <2>1, <3>1
        <3> QED
            BY <1>4, <3>2
    <2>3. \A t, m : Carried(t, m)' = Carried(t, m)
        BY <1>1, <1>2, <2>2, SameMetrics
    <2>4. ASSUME NEW k \in Sources, NEW m \in Measures \ touched, <<k, m>> \in DOMAIN histories'
          PROVE  Brought(histories, Target(k), m)'
        <3>1. Brought(copied, Target(k), m)
            BY <2>1, <2>2, <2>4 DEF AllBrought
        <3> QED
            BY <1>3, <1>4, <2>3, <3>1 DEF Brought
    <2> QED
        BY <1>1, <1>2, <1>3, <2>4 DEF HistoriesOK, AllBrought
<1>6. /\ \A s : FollowersOf(s)' = FollowersOf(s)
      /\ \A k, d : Doubled(k, d)' = Doubled(k, d)
      /\ \A d : Touched(d)' = Touched(d)
    BY <1>1, <1>3 DEF FollowersOf, Doubled, Touched
<1>7. FollowersTyped'
    BY <1>1 DEF MovesInv, FollowersOK, FollowersTyped
<1>8. FollowersOK'
    BY <1>1, <1>2, <1>3, <1>6, <1>7 DEF MovesInv, FollowersOK
<1> QED
    BY <1>5, <1>8 DEF MovesInv

\* A row that is not rewritten follows what it did; who still follows a feature
\* that is moved is no row of the plan.
LEMMA RewriteMoves == ASSUME RowsInv, MovesInv, RewriteSearches PROVE MovesInv'
<1> DEFINE rows == job.plan.rehomed
<1>1. /\ job.at = "searches" /\ Goto("associate")
      /\ DOMAIN rows \subseteq DOMAIN followers /\ followers' = Over(rows, followers)
      /\ UNCHANGED <<catalog, managed, histories, touched>>
    BY DEF RewriteSearches
<1>2. job'.at = "associate" /\ job'.release = job.release
    BY <1>1, GotoSteps DEF RowsInv
<1>3. /\ OntoKnown' = OntoKnown /\ Sources' = Sources /\ \A k : Target(k)' = Target(k)
    BY <1>1, <1>2, SameMoves
<1>4. HistoriesOK'
    BY <1>1, GotoSteps, HistoriesStay DEF MovesInv, RowsInv
<1>5. followers' = [d \in DOMAIN followers |-> IF d \in DOMAIN rows THEN rows[d] ELSE followers[d]]
    BY <1>1 DEF Over
<1>6. /\ DOMAIN followers' = DOMAIN followers
      /\ \A d \in DOMAIN followers : followers'[d] = IF d \in DOMAIN rows THEN rows[d] ELSE followers[d]
      /\ IsTable(followers')
    BY <1>5 DEF IsTable
<1>7. /\ \A d \in DOMAIN rows :
            /\ IsFollower(rows[d])
            /\ \E j \in OntoKnown : rows[d].search = managed[Target(j)]
            /\ Touched(d) \/ \E j \in OntoKnown : followers[d].search = managed[j]
      /\ \A k \in OntoKnown : \A d \in FollowersOf(managed[k]) :
            d \in DOMAIN rows \/ Touched(d) \/ Doubled(k, d)
    BY <1>1 DEF MovesInv, FollowersOK
<1>8. FollowersTyped'
    BY <1>1, <1>6, <1>7 DEF MovesInv, FollowersOK, FollowersTyped
<1>9. \A j, k \in OntoKnown : j \in DOMAIN managed /\ Target(j) \in DOMAIN managed
                              /\ managed[Target(j)] # managed[k]
    <2>1. \A k \in OntoKnown : k \in Sources /\ k \in DOMAIN managed /\ Target(k) \in DOMAIN managed
        BY DEF OntoKnown, Listed
    <2>2. \A k \in OntoKnown : Target(k) \notin Sources
        BY <1>1, <2>1, TargetsStay DEF RowsInv
    <2> QED
        BY <2>1, <2>2 DEF RowsInv, SearchesOK
<1>10. ASSUME NEW k \in OntoKnown, NEW d \in FollowersOf(managed[k])'
       PROVE  Touched(d)' \/ Doubled(k, d)'
    <2>1. d \in DOMAIN followers /\ followers'[d].search = managed[k]
        BY <1>1, <1>6 DEF FollowersOf
    <2>2. d \notin DOMAIN rows
        BY <1>6, <1>7, <1>9, <2>1
    <2>3. followers'[d] = followers[d] /\ d \in FollowersOf(managed[k])
        BY <1>6, <2>1, <2>2 DEF FollowersOf
    <2>4. CASE Touched(d)
        BY <1>1, <2>3, <2>4 DEF Touched
    <2>5. CASE Doubled(k, d)
        <3>1. PICK e \in FollowersOf(managed[Target(k)]) :
                  followers[e].channel = followers[d].channel
            BY <2>5 DEF Doubled
        <3>2. e \in DOMAIN followers /\ followers[e].search = managed[Target(k)]
            BY <3>1 DEF FollowersOf
        <3>3. CASE e \in DOMAIN rows
            <4>1. Touched(e)
                BY <1>7, <1>9, <3>2, <3>3
            <4> QED
                BY <1>1, <2>3, <3>1, <4>1 DEF Touched
        <3>4. CASE e \notin DOMAIN rows
            <4>1. followers'[e] = followers[e] /\ e \in FollowersOf(managed[Target(k)])'
                BY <1>1, <1>3, <1>6, <3>2, <3>4 DEF FollowersOf
            <4> QED
                BY <2>3, <3>1, <4>1 DEF Doubled
        <3> QED
            BY <3>3, <3>4
    <2> QED
        BY <1>7, <2>2, <2>3, <2>4, <2>5
<1>11. FollowersOK'
    BY <1>1, <1>2, <1>3, <1>8, <1>10 DEF FollowersOK
<1> QED
    BY <1>4, <1>11 DEF MovesInv

LEMMA AssociateMoves == ASSUME RowsInv, MovesInv, Associate PROVE MovesInv'
<1>1. /\ job.at = "associate" /\ Goto("children")
      /\ managed' = Over(job.plan.adopted, Only(managed, DOMAIN managed \ Detached(managed)))
      /\ UNCHANGED <<catalog, followers, histories, touched>>
    BY DEF Associate
<1>2. job'.at = "children" /\ job'.release = job.release
    BY <1>1, GotoSteps DEF RowsInv
<1>3. Sources' = Sources /\ \A k : Target(k)' = Target(k)
    BY <1>1, <1>2 DEF Sources, Target
<1>4. HistoriesOK'
    BY <1>1, GotoSteps, HistoriesStay DEF MovesInv, RowsInv
<1> DEFINE heirs == job.plan.adopted
<1>5. /\ DOMAIN managed' = DOMAIN heirs \cup (DOMAIN managed \ Detached(managed))
      /\ Detached(managed) = OntoNew
      /\ \A t \in DOMAIN heirs : \E k \in OntoNew : t = Target(k) /\ t \notin DOMAIN managed
      /\ \A k \in DOMAIN managed \ (Detached(managed) \cup DOMAIN heirs) :
            managed'[k] = managed[k]
    BY <1>1, Associated
<1>6. \A k \in Sources : Target(k) \notin Sources
    BY <1>1, TargetsStay DEF RowsInv
<1>7. OntoNew \subseteq Sources /\ OntoNew = Listed \ OntoKnown /\ Listed \subseteq Sources
    BY DEF OntoNew, Listed
<1>8. ASSUME NEW k \in Listed'
      PROVE  /\ k \in OntoKnown /\ managed'[k] = managed[k]
             /\ Target(k) \in DOMAIN managed' /\ managed'[Target(k)] = managed[Target(k)]
    <2>1. k \in Sources /\ k \in DOMAIN managed'
        BY <1>3 DEF Listed
    <2>2. k \notin DOMAIN heirs
        BY <1>5, <1>6, <1>7, <2>1
    <2>3. k \in DOMAIN managed /\ k \notin OntoNew
        BY <1>5, <2>1, <2>2
    <2>4. k \in OntoKnown
        BY <1>7, <2>1, <2>3 DEF Listed
    <2>5. Target(k) \in DOMAIN managed /\ Target(k) \notin Sources
        BY <1>6, <2>1, <2>4 DEF OntoKnown
    <2>6. Target(k) \notin OntoNew /\ Target(k) \notin DOMAIN heirs
        BY <1>5, <1>7, <2>5
    <2> QED
        BY <1>5, <2>2, <2>3, <2>4, <2>5, <2>6
<1>9. \A s : FollowersOf(s)' = FollowersOf(s)
    BY <1>1 DEF FollowersOf
<1>10. ASSUME NEW k \in Listed', NEW d \in FollowersOf(managed'[k])
       PROVE  Touched(d)' \/ Doubled(k, d)'
    <2>1. k \in OntoKnown /\ d \in FollowersOf(managed[k])
        BY <1>8
    <2>2. Touched(d) \/ Doubled(k, d)
        BY <1>1, <2>1 DEF MovesInv, FollowersOK
    <2>3. Touched(d) => Touched(d)'
        BY <1>1 DEF Touched
    <2>4. Doubled(k, d) => Doubled(k, d)'
        BY <1>1, <1>3, <1>8, <1>9 DEF Doubled
    <2> QED
        BY <2>2, <2>3, <2>4
<1>11. FollowersTyped'
    BY <1>1 DEF MovesInv, FollowersOK, FollowersTyped
<1>12. FollowersOK'
    BY <1>2, <1>3, <1>8, <1>9, <1>10, <1>11 DEF FollowersOK
<1> QED
    BY <1>4, <1>12 DEF MovesInv

\* The deletion of any rows of the features that are gone leaves those of the
\* targets, and what was brought to them.
LEMMA DeletionsKeep ==
    ASSUME RowsInv, MovesInv, job.at = "children", NEW deleted \in SUBSET RowsOf(Gone),
           histories' = Only(histories, DOMAIN histories \ deleted), NEW k \in Sources
    PROVE  MetricsMoveAlong(k)
<1> SUFFICES ASSUME NEW m \in Measures \ touched, <<k, m>> \in DOMAIN histories
             PROVE  /\ <<Target(k), m>> \in DOMAIN histories'
                    /\ histories'[<<Target(k), m>>] \in Carried(Target(k), m)
    BY DEF MetricsMoveAlong
<1>1. Brought(histories, Target(k), m)
    BY DEF MovesInv, HistoriesOK, AllBrought
<1>2. <<Target(k), m>> \notin deleted
    BY TargetsStay DEF RowsInv, RowsOf
<1>3. <<Target(k), m>> \in DOMAIN histories /\ histories[<<Target(k), m>>] \in Carried(Target(k), m)
    BY <1>1 DEF Brought
<1>4. /\ <<Target(k), m>> \in DOMAIN histories'
      /\ histories'[<<Target(k), m>>] = histories[<<Target(k), m>>]
    BY <1>2, <1>3 DEF Only
<1> QED
    BY <1>3, <1>4

\* What is found under a feature that stays is not deleted with the others.
LEMMA ChildrenLoseNothing ==
    ASSUME RowsInv, MovesInv, DeleteChildren, NEW k \in Sources
    PROVE  SubscriptionsMoveAlong(k) /\ MetricsMoveAlong(k)
<1> DEFINE searches == {managed[j] : j \in DOMAIN managed \cap Gone}
           kept == {d \in DOMAIN followers : followers[d].search \notin searches}
<1>1. /\ job.at = "children" /\ followers' = Only(followers, kept)
      /\ histories' = Only(histories, DOMAIN histories \ RowsOf(Gone))
      /\ UNCHANGED <<catalog, touched>>
    BY DEF DeleteChildren, WithoutSearches
<1>2. /\ k \in catalog /\ Target(k) \in job.release.features
      /\ Target(k) \notin Gone
    BY <1>1, TargetsStay DEF RowsInv, JobOK, Deleting
<1>3. MetricsMoveAlong(k)
    BY <1>1, DeletionsKeep
<1>4. ASSUME k \in DOMAIN managed, NEW d \in FollowersOf(managed[k]),
             followers[d].channel \notin touched'
      PROVE  /\ Target(k) \in DOMAIN managed
             /\ \E e \in DOMAIN followers' :
                   /\ followers'[e].channel = followers[d].channel
                   /\ followers'[e].search = managed[Target(k)]
    <2>1. k \in Listed
        BY <1>4 DEF Listed
    <2>2. Target(k) \in DOMAIN managed /\ Doubled(k, d)
        BY <1>1, <1>4, <2>1 DEF MovesInv, FollowersOK, Touched
    <2>3. PICK e \in FollowersOf(managed[Target(k)]) : followers[e].channel = followers[d].channel
        BY <2>2 DEF Doubled
    <2>4. managed[Target(k)] \notin searches
        BY <1>2, <2>2 DEF RowsInv, SearchesOK
    <2>5. e \in kept /\ followers[e].search = managed[Target(k)]
        BY <2>3, <2>4 DEF FollowersOf
    <2>6. e \in DOMAIN followers' /\ followers'[e] = followers[e]
        <3>1. PICK S : S = kept
            OBVIOUS
        <3>2. followers' = Only(followers, S)
            BY <1>1, <3>1
        <3>3. e \in DOMAIN followers /\ e \in S
            BY <2>5, <3>1
        <3> QED
            BY <3>2, <3>3, FewerFollowers
    <2> QED
        BY <2>2, <2>3, <2>5, <2>6
<1> HIDE DEF kept, searches
<1> QED
    BY <1>3, <1>4 DEF SubscriptionsMoveAlong

LEMMA ChildrenMoves == ASSUME RowsInv, MovesInv, DeleteChildren PROVE MovesInv'
<1>1. Goto("parents")
    BY DEF DeleteChildren
<1>2. job'.at = "parents"
    BY <1>1, GotoSteps DEF RowsInv
<1>3. FollowersTyped'
    BY FewerFollowers DEF DeleteChildren, WithoutSearches
<1> QED
    BY <1>2, <1>3, ElsewhereMoves

LEMMA ParentsMoves == ASSUME RowsInv, MovesInv, DeleteParents PROVE MovesInv'
<1>1. Goto("reconcile") /\ followers' = followers
    BY DEF DeleteParents
<1>2. job'.at = "reconcile"
    BY <1>1, GotoSteps DEF RowsInv
<1>3. FollowersTyped'
    BY <1>1 DEF MovesInv, FollowersOK, FollowersTyped
<1> QED
    BY <1>2, <1>3, ElsewhereMoves

LEMMA UpsertMoves ==
    ASSUME RowsInv, MovesInv, NEW r \in Releases, UpsertFeatures(r)
    PROVE  MovesInv'
<1>1. /\ job' = [at |-> IF catalog \subseteq r.features THEN "reconcile" ELSE "plan",
                 n |-> job.n + 1, release |-> r, plan |-> NoPlan, done |-> FALSE]
      /\ followers' = followers
    BY DEF UpsertFeatures
<1>2. job'.at \in {"reconcile", "plan"}
    BY <1>1
<1>3. FollowersTyped'
    BY <1>1 DEF MovesInv, FollowersOK, FollowersTyped
<1> QED
    BY <1>1, <1>2, <1>3, ElsewhereMoves

LEMMA RedirectMoves ==
    ASSUME RowsInv, MovesInv,
           SyncSystemManagedSavedQuery \/ InsertMoved \/ DropMoved \/ InsertSplit
               \/ DropSplit \/ JobFails
    PROVE  MovesInv'
<1>2. job'.at \in {"idle"} \cup Redirecting
    <2>1. ASSUME NEW s \in Redirecting, Goto(s)
          PROVE  job'.at \in {"idle"} \cup Redirecting
        BY <2>1, GotoSteps DEF RowsInv
    <2>2. CASE SyncSystemManagedSavedQuery \/ InsertMoved \/ DropMoved \/ InsertSplit
        BY <2>1, <2>2
        DEF SyncSystemManagedSavedQuery, InsertMoved, DropMoved, InsertSplit, Redirecting
    <2>3. CASE DropSplit \/ JobFails
        BY <2>3 DEF DropSplit, JobFails, RowsInv, JobOK, IsJob
    <2> QED
        BY <2>2, <2>3
<1>3. FollowersTyped'
    <2>1. CASE SyncSystemManagedSavedQuery
        BY <2>1, FewerFollowers DEF SyncSystemManagedSavedQuery, WithoutSearches
    <2>2. CASE followers' = followers
        BY <2>2 DEF MovesInv, FollowersOK, FollowersTyped
    <2> QED
        BY <2>1, <2>2 DEF InsertMoved, DropMoved, InsertSplit, DropSplit, JobFails
<1> QED
    BY <1>2, <1>3, ElsewhereMoves DEF Redirecting

LEMMA IdleMoves ==
    ASSUME MovesInv, UNCHANGED catalogVars
    PROVE  MovesInv'
<1>1. /\ Sources' = Sources /\ \A k : Target(k)' = Target(k)
      /\ OntoKnown' = OntoKnown /\ Listed' = Listed
    BY SameMoves DEF catalogVars, searchTables
<1>2. /\ \A s : FollowersOf(s)' = FollowersOf(s)
      /\ \A k, d : Doubled(k, d)' = Doubled(k, d)
      /\ \A d : Touched(d)' = Touched(d)
    BY <1>1 DEF catalogVars, searchTables, FollowersOf, Doubled, Touched
<1>3. HistoriesOK'
    BY HistoriesStay DEF MovesInv, catalogVars
<1>4. FollowersTyped'
    BY DEF MovesInv, FollowersOK, FollowersTyped, catalogVars
<1>5. FollowersOK'
    BY <1>1, <1>2, <1>4 DEF MovesInv, FollowersOK, catalogVars, searchTables
<1> QED
    BY <1>3, <1>5 DEF MovesInv

LEMMA MovesStep == RowsInv /\ MovesInv /\ [CatalogNext]_catalogVars => MovesInv'
BY UserMoves, StoreMoves, UpsertMoves, PlanMoves, CopyMoves, RewriteMoves, AssociateMoves, ChildrenMoves,
   ParentsMoves, RedirectMoves, IdleMoves DEF CatalogNext, JobSteps

\* The step of the property, of which only the deletion of children and the users
\* take a subscription away, and only a deletion takes metrics.
NothingIsLost ==
    \A k \in Sources : job.at = "children" =>
        SubscriptionsMoveAlong(k) /\ MetricsMoveAlong(k)

LEMMA LossStep ==
    ASSUME RowsInv, MovesInv, [CatalogNext]_catalogVars
    PROVE  NothingIsLost
<1> SUFFICES ASSUME job.at = "children"
             PROVE  NothingIsLost
    BY DEF NothingIsLost
<1>1. CASE DeleteChildren
    BY <1>1, ChildrenLoseNothing DEF NothingIsLost
<1>2. CASE UserActs
    <2>1. histories' = histories
        BY <1>2 DEF UserActs
    <2>2. \A d \in DOMAIN followers \ DOMAIN followers' : followers[d].channel \in touched'
        BY <1>2, UserChanges DEF Touched
    <2> QED
        BY <2>1, <2>2 DEF NothingIsLost, FollowersOf, SubscriptionsMoveAlong, MetricsMoveAlong
<1>3. CASE \E k \in Keys, m \in Measures : StoreMetrics(k, m)
    <2>1. PICK c \in Keys, n \in Measures :
              histories' = Over([row \in {<<c, n>>} |-> c], histories)
        BY <1>3 DEF StoreMetrics
    <2>2. DOMAIN histories \subseteq DOMAIN histories' /\ followers' = followers
        BY <1>3, <2>1 DEF Over, StoreMetrics
    <2> QED
        BY <2>2 DEF NothingIsLost, FollowersOf, SubscriptionsMoveAlong, MetricsMoveAlong
<1>4. CASE JobFails
    <2>1. followers' = followers
        BY <1>4 DEF JobFails
    <2>2. ASSUME NEW k \in Sources
          PROVE  MetricsMoveAlong(k)
        <3>1. CASE PartlyDeleted
            BY <3>1, DeletionsKeep DEF PartlyDeleted
        <3>2. CASE histories' = histories
            BY <3>2 DEF MetricsMoveAlong
        <3> QED
            BY <1>4, <3>1, <3>2 DEF JobFails, PartlyCopied
    <2> QED
        BY <2>1, <2>2 DEF NothingIsLost, FollowersOf, SubscriptionsMoveAlong
<1>5. CASE UNCHANGED catalogVars
    BY <1>5 DEF NothingIsLost, FollowersOf, SubscriptionsMoveAlong, MetricsMoveAlong, catalogVars
<1> QED
    BY <1>1, <1>2, <1>3, <1>4, <1>5
    DEF CatalogNext, JobSteps, UpsertFeatures, PreDeleteHook, CopyHistories, RewriteSearches,
        Associate, DeleteParents, SyncSystemManagedSavedQuery, InsertMoved, DropMoved,
        InsertSplit, DropSplit

\* The deletion takes no subscription to a moved feature that is not found under
\* its target, and none of its metrics unless the target has metrics of the same
\* measure that came with a move, but for channels whose user was at work and
\* measures that were stored since the job listed them.
THEOREM NothingLostInMoves == CatalogSpec => NothingIsLostInMoves
<1>1. RowsInv /\ MovesInv /\ [CatalogNext]_catalogVars
          => [NothingIsLost]_catalogVars
    BY LossStep
<1>2. CatalogSpec => []MovesInv
    BY RowsHold, MovesInitially, MovesStep, PTL DEF CatalogSpec
<1>3. CatalogSpec => [][NothingIsLost]_catalogVars
    BY <1>1, <1>2, RowsHold, PTL DEF CatalogSpec
<1> QED
    BY <1>3 DEF NothingIsLost, NothingIsLostInMoves
-----------------------------------------------------------------------------
(***************************************************************************)
(* The statistics of browser support agree with what has been ingested.     *)
(* What is inductive is that every event is of a release on its date, as    *)
(* the foreign key has it, and that the rows of a calculation that nothing  *)
(* has outdated are what would be calculated now, and then are in the table. *)
(***************************************************************************)

ReleasesTyped ==
    /\ DOMAIN released \subseteq Browsers \X Versions /\ IsFiniteSet(DOMAIN released)
    /\ \A x \in DOMAIN released : released[x] \in ReleaseDates

AvailableTyped ==
    /\ DOMAIN available \subseteq StatFeatures \X Browsers
    /\ \A x \in DOMAIN available : available[x] \in Versions

EventsReleased == \A e \in DOMAIN events : ReleasedOn(e[2], e[3])

CalculationIsKept ==
    /\ calculation.at \in {"idle", "writing"}
    /\ calculation.current =>
          IF calculation.at = "writing" THEN calculation.rows = Calculated
          ELSE \A e \in DOMAIN Calculated : e \in DOMAIN events /\ events[e] = Calculated[e]

StatsInv == ReleasesTyped /\ AvailableTyped /\ EventsReleased /\ CalculationIsKept

LEMMA StatsInitially == StatsInit => StatsInv
<1> SUFFICES ASSUME StatsInit PROVE StatsInv
    OBVIOUS
<1>1. DOMAIN released = {} /\ DOMAIN available = {} /\ DOMAIN events = {}
    BY DEF StatsInit, NoRows
<1>2. IsFiniteSet(DOMAIN released)
    BY <1>1, FS_EmptySet
<1>3. calculation.at = "idle" /\ ~calculation.current
    BY DEF StatsInit
<1> QED
    BY <1>1, <1>2, <1>3
    DEF StatsInv, ReleasesTyped, AvailableTyped, EventsReleased, CalculationIsKept

LEMMA ReleaseStep ==
    ASSUME StatsInv, NEW b \in Browsers, NEW v \in Versions, NEW d \in ReleaseDates,
           InsertBrowserRelease(b, v, d)
    PROVE  StatsInv'
<1>1. /\ released' = [x \in DOMAIN released \cup {<<b, v>>} |->
                         IF x = <<b, v>> THEN d ELSE released[x]]
      /\ calculation' = [calculation EXCEPT !.current = FALSE]
      /\ UNCHANGED <<available, events>>
    BY DEF InsertBrowserRelease, Ingests, Put
<1>2. ReleasesTyped'
    <2>1. IsFiniteSet(DOMAIN released')
        BY <1>1, FS_AddElement DEF StatsInv, ReleasesTyped
    <2> QED
        BY <1>1, <2>1 DEF StatsInv, ReleasesTyped
<1>3. ASSUME NEW e \in DOMAIN events
      PROVE  \E x \in DOMAIN released' : x[1] = e[2] /\ released'[x] = e[3]
    <2>1. PICK x \in DOMAIN released : x[1] = e[2] /\ released[x] = e[3]
        BY DEF StatsInv, EventsReleased, ReleasedOn, ReleasesBy
    <2>2. CASE x = <<b, v>>
        <3>1. e[2] = b
            BY <2>1, <2>2
        <3>2. released[<<b, v>>] = d
            BY <2>1, <2>2, <3>1 DEF InsertBrowserRelease
        <3>3. released'[x] = e[3] /\ x \in DOMAIN released'
            BY <1>1, <2>1, <2>2, <3>2
        <3> QED
            BY <2>1, <3>3
    <2>3. CASE x # <<b, v>>
        <3>1. released'[x] = e[3] /\ x \in DOMAIN released'
            BY <1>1, <2>1, <2>3
        <3> QED
            BY <2>1, <3>1
    <2> QED
        BY <2>2, <2>3
<1>4. EventsReleased'
    BY <1>1, <1>3 DEF EventsReleased, ReleasedOn, ReleasesBy
<1>5. AvailableTyped'
    BY <1>1 DEF StatsInv, AvailableTyped
<1>6. CalculationIsKept'
    BY <1>1 DEF StatsInv, CalculationIsKept
<1> QED
    BY <1>2, <1>4, <1>5, <1>6 DEF StatsInv

LEMMA AvailabilityStep ==
    ASSUME StatsInv, NEW table \in AvailabilityTables, SyncBrowserFeatureAvailabilities(table)
    PROVE  StatsInv'
<1>1. /\ available' = table /\ UNCHANGED <<released, events>>
      /\ calculation' = [calculation EXCEPT !.current = FALSE]
    BY DEF SyncBrowserFeatureAvailabilities, Ingests
<1>2. AvailableTyped'
    BY <1>1, TablesAssumption DEF AvailableTyped
<1>3. ReleasesTyped' /\ EventsReleased'
    BY <1>1 DEF StatsInv, ReleasesTyped, EventsReleased, ReleasedOn, ReleasesBy
<1>4. CalculationIsKept'
    BY <1>1 DEF StatsInv, CalculationIsKept
<1> QED
    BY <1>2, <1>3, <1>4 DEF StatsInv

LEMMA CalculationSteps ==
    ASSUME StatsInv, StartPrecalculation \/ WriteEvents
    PROVE  StatsInv'
<1>1. UNCHANGED <<released, available>>
    BY DEF StartPrecalculation, WriteEvents
<1>2. Calculated' = Calculated
    BY <1>1 DEF Calculated, Covered, SupportedBy
<1>3. ReleasesTyped' /\ AvailableTyped'
    BY <1>1 DEF StatsInv, ReleasesTyped, AvailableTyped
<1>4. CASE StartPrecalculation
    <2>1. events' = events /\ calculation' = [at |-> "writing", rows |-> Calculated, current |-> TRUE]
        BY <1>4 DEF StartPrecalculation
    <2>2. EventsReleased'
        BY <1>1, <2>1 DEF StatsInv, EventsReleased, ReleasedOn, ReleasesBy
    <2>3. CalculationIsKept'
        BY <1>2, <2>1 DEF CalculationIsKept
    <2> QED
        BY <1>3, <2>2, <2>3 DEF StatsInv
<1>5. CASE WriteEvents
    <2> DEFINE rows == calculation.rows
               fit == {e \in DOMAIN rows : ReleasedOn(e[2], e[3])}
    <2>1. PICK part \in SUBSET {e[1] : e \in fit} :
              LET written == {e \in fit : e[1] \in part} IN
              /\ events' = [e \in DOMAIN events \cup written |->
                               IF e \in written THEN rows[e] ELSE events[e]]
              /\ calculation' = [at |-> "idle", rows |-> NoRows,
                                 current |-> calculation.current /\ written = DOMAIN rows]
        BY <1>5 DEF WriteEvents
    <2>2. PICK written : written = {e \in fit : e[1] \in part}
        OBVIOUS
    <2>3. /\ events' = [e \in DOMAIN events \cup written |->
                           IF e \in written THEN rows[e] ELSE events[e]]
          /\ calculation' = [at |-> "idle", rows |-> NoRows,
                             current |-> calculation.current /\ written = DOMAIN rows]
        BY <2>1, <2>2
    <2>4. \A e \in written : ReleasedOn(e[2], e[3])
        BY <2>2
    <2>5. EventsReleased'
        BY <1>1, <2>3, <2>4 DEF StatsInv, EventsReleased, ReleasedOn, ReleasesBy
    <2>6. calculation.at = "writing"
        BY <1>5 DEF WriteEvents
    <2>7. CalculationIsKept'
        <3>1. calculation'.at = "idle"
            BY <2>3
        <3> SUFFICES ASSUME calculation'.current, NEW e \in DOMAIN Calculated
                     PROVE  e \in DOMAIN events' /\ events'[e] = Calculated[e]
            BY <1>2, <3>1 DEF CalculationIsKept
        <3>2. calculation.current /\ written = DOMAIN rows
            BY <2>3
        <3>3. rows = Calculated
            BY <2>6, <3>2 DEF StatsInv, CalculationIsKept
        <3> QED
            BY <2>3, <3>2, <3>3
    <2> QED
        BY <1>3, <2>5, <2>7 DEF StatsInv
<1> QED
    BY <1>4, <1>5

LEMMA StatsInvariant == StatsSpec => []StatsInv
<1>1. StatsInv /\ [StatsNext]_statsVars => StatsInv'
    <2> SUFFICES ASSUME StatsInv, [StatsNext]_statsVars PROVE StatsInv'
        OBVIOUS
    <2>1. CASE UNCHANGED statsVars
        <3>1. UNCHANGED <<released, available, events, calculation>>
            BY <2>1 DEF statsVars
        <3>2. Calculated' = Calculated
            BY <3>1 DEF Calculated, Covered, SupportedBy
        <3>3. CalculationIsKept'
            BY <3>1, <3>2 DEF StatsInv, CalculationIsKept
        <3>4. ReleasesTyped' /\ AvailableTyped'
            BY <3>1 DEF StatsInv, ReleasesTyped, AvailableTyped
        <3>5. EventsReleased'
            BY <3>1 DEF StatsInv, EventsReleased, ReleasedOn, ReleasesBy
        <3> QED
            BY <3>3, <3>4, <3>5 DEF StatsInv
    <2> QED
        BY <2>1, ReleaseStep, AvailabilityStep, CalculationSteps DEF StatsNext
<1> QED
    BY <1>1, StatsInitially, PTL DEF StatsSpec

\* What the table says of a browser is what the calculation would say.
LEMMA EventsSay ==
    ASSUME StatsInv, calculation.at = "idle", calculation.current,
           NEW b \in Covered, NEW d \in ReleaseDates,
           \E x \in DOMAIN released : released[x] = d,
           NEW f \in StatFeatures
    PROVE  \A s \in BOOLEAN : HasEvent(f, b, d, s) <=> (SupportedBy(f, b, d) = s)
<1>1. \A e \in DOMAIN Calculated : e \in DOMAIN events /\ events[e] = Calculated[e]
    BY DEF StatsInv, CalculationIsKept
<1>2. ASSUME NEW x \in DOMAIN released, released[x] = d
      PROVE  /\ <<b, x[1], d, f>> \in DOMAIN Calculated
             /\ Calculated[<<b, x[1], d, f>>] = SupportedBy(f, b, d)
    <2>1. DOMAIN Calculated = {<<c, y[1], released[y], g>> :
                                  c \in Covered, y \in DOMAIN released, g \in StatFeatures}
        BY DEF Calculated
    <2>2. <<b, x[1], d, f>> \in DOMAIN Calculated
        BY <1>2, <2>1
    <2>3. \A e \in DOMAIN Calculated : Calculated[e] = SupportedBy(e[4], e[1], e[3])
        BY DEF Calculated
    <2> QED
        BY <2>2, <2>3
<1>3. SupportedBy(f, b, d) \in BOOLEAN
    BY DEF SupportedBy
<1>4. ASSUME NEW s \in BOOLEAN, HasEvent(f, b, d, s)
      PROVE  SupportedBy(f, b, d) = s
    <2>1. PICK r \in Browsers : <<b, r, d, f>> \in DOMAIN events /\ events[<<b, r, d, f>>] = s
        BY <1>4 DEF HasEvent
    <2>2. ReleasedOn(r, d)
        <3>1. \A e \in DOMAIN events : ReleasedOn(e[2], e[3])
            BY DEF StatsInv, EventsReleased
        <3>2. <<b, r, d, f>>[2] = r /\ <<b, r, d, f>>[3] = d
            OBVIOUS
        <3> QED
            BY <2>1, <3>1, <3>2
    <2>3. PICK x \in DOMAIN released : x[1] = r /\ released[x] = d
        BY <2>2 DEF ReleasedOn, ReleasesBy
    <2> QED
        BY <1>1, <1>2, <2>1, <2>3
<1>5. HasEvent(f, b, d, SupportedBy(f, b, d))
    <2>1. PICK x \in DOMAIN released : released[x] = d
        OBVIOUS
    <2>2. x[1] \in Browsers
        BY DEF StatsInv, ReleasesTyped
    <2> QED
        BY <1>1, <1>2, <2>1, <2>2 DEF HasEvent
<1> QED
    BY <1>3, <1>4, <1>5

\* The features that only a browser lacks, and how many they are.
LEMMA MissingAgrees ==
    ASSUME StatsInv, calculation.at = "idle", calculation.current,
           NEW browser \in Covered, NEW mobile \in Covered \cup {NoBrowser},
           NEW others \in (SUBSET (Covered \ {browser, mobile})) \ {{}},
           NEW d \in ReleaseDates, \E b \in {browser, mobile} \cup others : ReleasedOn(b, d)
    PROVE  /\ ListMissingOneImplementationFeatures(browser, mobile, others, d)
                 = Missing(browser, mobile, others, d)
           /\ ListMissingOneImplCounts(browser, mobile, others)[d]
                 = Cardinality(Missing(browser, mobile, others, d))
<1>1. \E x \in DOMAIN released : released[x] = d
    BY DEF ReleasedOn, ReleasesBy
<1>2. \A b \in Covered, f \in StatFeatures, s \in BOOLEAN :
          HasEvent(f, b, d, s) <=> (SupportedBy(f, b, d) = s)
    BY <1>1, EventsSay
<1>3. \A b, f : SupportedBy(f, b, d) \in BOOLEAN
    BY DEF SupportedBy
<1>4. ASSUME NEW f \in StatFeatures
      PROVE  f \in Unsupported(browser, mobile, d)
                <=> \/ ~SupportedBy(f, browser, d)
                    \/ mobile # NoBrowser /\ ~SupportedBy(f, mobile, d)
    <2>1. HasEvent(f, browser, d, FALSE) <=> ~SupportedBy(f, browser, d)
        BY <1>2, <1>3
    <2>2. CASE mobile = NoBrowser
        BY <2>1, <2>2 DEF Unsupported
    <2>3. CASE mobile # NoBrowser
        <3>1. (\E p, q \in BOOLEAN :
                  HasEvent(f, browser, d, p) /\ HasEvent(f, mobile, d, q) /\ ~(p /\ q))
                 <=> ~(SupportedBy(f, browser, d) /\ SupportedBy(f, mobile, d))
            BY <1>2, <1>3, <2>3
        <3> QED
            BY <2>3, <3>1 DEF Unsupported
    <2> QED
        BY <2>2, <2>3
<1>5. ASSUME NEW f \in StatFeatures
      PROVE  f \in SupportedByOthers(others, d) <=> \A o \in others : SupportedBy(f, o, d)
    <2>1. others # {} /\ others \subseteq Covered
        <3>1. others \notin {{}} /\ others \in SUBSET (Covered \ {browser, mobile})
            OBVIOUS
        <3>2. others # {}
            BY <3>1
        <3>3. \A o \in others : o \in Covered
            BY <3>1
        <3> QED
            BY <3>2, <3>3
    <2>2. \A o \in others : HasEvent(f, o, d, TRUE) <=> SupportedBy(f, o, d)
        BY <1>2, <1>3, <2>1
    <2> QED
        BY <2>1, <2>2 DEF SupportedByOthers
<1>6. ListMissingOneImplementationFeatures(browser, mobile, others, d)
         = Missing(browser, mobile, others, d)
    <2>1. /\ Unsupported(browser, mobile, d) \subseteq StatFeatures
          /\ Missing(browser, mobile, others, d) \subseteq StatFeatures
        BY DEF Unsupported, Missing
    <2> QED
        BY <1>4, <1>5, <2>1 DEF ListMissingOneImplementationFeatures, Missing
<1>7. ListMissingOneImplCounts(browser, mobile, others)[d]
         = Cardinality(Missing(browser, mobile, others, d))
    <2> DEFINE found == {x \in (StatFeatures \ Ignored) \X ReleaseDates :
                            /\ x[1] \in Unsupported(browser, mobile, x[2])
                            /\ x[1] \in SupportedByOthers(others, x[2])}
    <2>1. PICK M, F : M = Missing(browser, mobile, others, d) /\ F = {x \in found : x[2] = d}
        OBVIOUS
    <2>2. d \in EventDates(browser, mobile, others)
        BY DEF EventDates
    <2>3. ListMissingOneImplCounts(browser, mobile, others)[d] = Cardinality(F)
        BY <2>1, <2>2 DEF ListMissingOneImplCounts
    <2>4. M \subseteq StatFeatures \ Ignored
        BY <2>1 DEF Missing
    <2>5. \A f \in StatFeatures \ Ignored : f \in M <=> <<f, d>> \in F
        BY <1>6, <2>1 DEF ListMissingOneImplementationFeatures
    <2>6. F = {<<f, d>> : f \in M}
        <3>1. \A x \in F : x = <<x[1], x[2]>> /\ x[1] \in StatFeatures \ Ignored /\ x[2] = d
            BY <2>1
        <3> HIDE DEF found
        <3> QED
            BY <2>4, <2>5, <3>1
    <2>7. PICK m : m = [f \in M |-> <<f, d>>]
        OBVIOUS
    <2>8. m \in Bijection(M, F)
        <3>1. m \in [M -> F] /\ \A f \in M : m[f] = <<f, d>>
            BY <2>6, <2>7
        <3>2. m \in Injection(M, F)
            BY <3>1 DEF Injection, IsInjective
        <3>3. m \in Surjection(M, F)
            BY <2>6, <3>1 DEF Surjection
        <3> QED
            BY <3>2, <3>3 DEF Bijection
    <2>9. IsFiniteSet(M)
        BY <2>4, StatFeaturesAssumption, FS_Subset
    <2>10. Cardinality(F) = Cardinality(M)
        BY <2>8, <2>9, FS_Bijection DEF ExistsBijection
    <2> QED
        BY <2>1, <2>3, <2>10
<1> QED
    BY <1>6, <1>7

\* The series of a browser adds up to the features that are released by a date.
LEMMA SeriesAgrees ==
    ASSUME StatsInv, NEW browser, NEW start \in ReleaseDates, NEW d \in ReleaseDates, start <= d
    PROVE  ListBrowserFeatureCountMetric(browser, NoBrowser, start, d)
              = Cardinality({f \in StatFeatures \ Ignored : SupportedBy(f, browser, d)})
<1> DEFINE Features(dates) ==
        {f \in StatFeatures \ Ignored :
            /\ <<f, browser>> \in DOMAIN available
            /\ <<browser, available[<<f, browser>>]>> \in DOMAIN released
            /\ released[<<browser, available[<<f, browser>>]>>] \in dates}
<1>1. PICK before : before = {x \in ReleaseDates : x < start}
    OBVIOUS
<1>2. PICK dates : dates = {x \in ReleaseDates : start <= x /\ x <= d /\ ReleasedOn(browser, x)}
    OBVIOUS
<1>3. ASSUME NEW S
      PROVE  CountedOn(browser, NoBrowser, S) = Cardinality(Features(S)) /\ IsFiniteSet(Features(S))
    <2>1. IsFiniteSet(Features(S))
        <3>1. Features(S) \in SUBSET StatFeatures
            OBVIOUS
        <3> HIDE DEF Features
        <3> QED
            BY <3>1, StatFeaturesAssumption, FS_Subset
    <2>2. {f \in StatFeatures \ Ignored :
              /\ <<f, browser>> \in DOMAIN available
              /\ <<browser, available[<<f, browser>>]>> \in DOMAIN released
              /\ released[<<browser, available[<<f, browser>>]>>] \in S
              /\ NoBrowser # NoBrowser => <<f, NoBrowser>> \in DOMAIN available} = Features(S)
        OBVIOUS
    <2> QED
        BY <2>1, <2>2 DEF CountedOn
<1>4. PICK P : P = [x \in dates |-> Features({x})]
    OBVIOUS
<1>5. PICK added : added = [x \in dates |-> CountedOn(browser, NoBrowser, {x})]
    OBVIOUS
<1>6. IsFiniteSet(dates)
    <2>1. IsFiniteSet(DOMAIN released)
        BY DEF StatsInv, ReleasesTyped
    <2>2. PICK R, m : R = {released[x] : x \in DOMAIN released}
                          /\ m = [x \in DOMAIN released |-> released[x]]
        OBVIOUS
    <2>3. m \in Surjection(DOMAIN released, R)
        BY <2>2 DEF Surjection
    <2>4. IsFiniteSet(R)
        BY <2>1, <2>3, FS_Surjection
    <2>5. dates \in SUBSET R
        BY <1>2, <2>2 DEF ReleasedOn, ReleasesBy
    <2> QED
        BY <2>4, <2>5, FS_Subset
<1>7. /\ Sum(dates, added) = Cardinality(UNION {P[x] : x \in dates})
      /\ IsFiniteSet(UNION {P[x] : x \in dates})
    <2>1. \A x \in dates : P[x] = Features({x}) /\ added[x] = CountedOn(browser, NoBrowser, {x})
        BY <1>4, <1>5
    <2>2. \A x \in dates : IsFiniteSet(P[x]) /\ added[x] = Cardinality(P[x])
        <3> HIDE DEF Features
        <3> QED
            BY <1>3, <2>1
    <2>3. \A x, y \in dates : x # y => P[x] \cap P[y] = {}
        <3>1. \A x \in dates : \A f \in P[x] : released[<<browser, available[<<f, browser>>]>>] = x
            BY <2>1
        <3> HIDE DEF Features
        <3> SUFFICES ASSUME NEW x \in dates, NEW y \in dates, NEW f \in P[x] \cap P[y]
                     PROVE  x = y
            OBVIOUS
        <3> QED
            BY <3>1
    <2> HIDE DEF Features
    <2> QED
        BY <1>6, <2>2, <2>3, DisjointParts
<1>8. UNION {P[x] : x \in dates} = Features(dates)
    BY <1>4
<1>9. ListBrowserFeatureCountMetric(browser, NoBrowser, start, d)
         = Cardinality(Features(before)) + Cardinality(Features(dates))
    <2>1. ListBrowserFeatureCountMetric(browser, NoBrowser, start, d)
             = CountedOn(browser, NoBrowser, {x \in ReleaseDates : x < start})
                 + Sum({x \in ReleaseDates : start <= x /\ x <= d /\ ReleasedOn(browser, x)},
                       [x \in {x \in ReleaseDates : start <= x /\ x <= d /\ ReleasedOn(browser, x)} |->
                           CountedOn(browser, NoBrowser, {x})])
        BY DEF ListBrowserFeatureCountMetric, FoldSet, MapThenFoldSet, Sum, IsSum, Some
    <2>2. ListBrowserFeatureCountMetric(browser, NoBrowser, start, d)
             = CountedOn(browser, NoBrowser, before) + Sum(dates, added)
        BY <1>1, <1>2, <1>5, <2>1
    <2> HIDE DEF Features
    <2> QED
        BY <1>3, <1>7, <1>8, <2>2
<1>10. PICK B, A : B = Features(before) /\ A = Features(dates)
    OBVIOUS
<1>11. B \cap A = {}
    <2>1. before \cap dates = {}
        <3> SUFFICES ASSUME NEW x \in before, x \in dates PROVE FALSE
            OBVIOUS
        <3>1. x \in Int /\ start \in Int
            BY <1>1, DatesAssumption
        <3>2. x < start /\ start <= x
            BY <1>1, <1>2
        <3> QED
            BY <3>1, <3>2
    <2> QED
        BY <1>10, <2>1
<1>12. B \cup A = {f \in StatFeatures \ Ignored : SupportedBy(f, browser, d)}
    <2>1. ASSUME NEW f \in StatFeatures, <<f, browser>> \in DOMAIN available,
                 <<browser, available[<<f, browser>>]>> \in DOMAIN released
          PROVE  released[<<browser, available[<<f, browser>>]>>] \in before \cup dates
                    <=> released[<<browser, available[<<f, browser>>]>>] <= d
        <3>1. PICK x \in DOMAIN released : x = <<browser, available[<<f, browser>>]>>
            BY <2>1
        <3>2. released[x] \in ReleaseDates /\ ReleasedOn(browser, released[x])
            BY <3>1 DEF StatsInv, ReleasesTyped, ReleasedOn, ReleasesBy
        <3>3. PICK r \in ReleaseDates : r = released[x]
            BY <3>2
        <3>4. r \in Int /\ start \in Int /\ d \in Int
            BY DatesAssumption
        <3>5. r \in before \cup dates <=> (r < start \/ (start <= r /\ r <= d))
            BY <1>1, <1>2, <3>2, <3>3
        <3>6. (r < start \/ (start <= r /\ r <= d)) <=> r <= d
            BY <3>4
        <3> QED
            BY <3>1, <3>3, <3>5, <3>6
    <2> QED
        BY <1>10, <2>1 DEF SupportedBy
<1>13. Cardinality(B \cup A) = Cardinality(B) + Cardinality(A)
    <2>1. IsFiniteSet(B) /\ IsFiniteSet(A)
        <3> HIDE DEF Features
        <3> QED
            BY <1>3, <1>10
    <2>2. /\ Cardinality(B \cup A) = Cardinality(B) + Cardinality(A) - Cardinality(B \cap A)
          /\ Cardinality(B) \in Nat /\ Cardinality(A) \in Nat
        BY <2>1, FS_Union, FS_CardinalityType
    <2>3. Cardinality(B \cap A) = 0
        BY <1>11, FS_EmptySet
    <2> QED
        BY <2>2, <2>3
<1> HIDE DEF Features
<1> QED
    BY <1>9, <1>10, <1>12, <1>13

\* For any browsers, releases, tables and ingestions between the steps of a
\* calculation: the features that one browser lacks are those of what has been
\* ingested, their counts agree with the list, and the series of each browser
\* adds up, wherever it starts.
THEOREM StatsAlwaysAgree == StatsSpec => []StatsAgree
<1>1. StatsInv => StatsAgree
    <2> SUFFICES ASSUME StatsInv PROVE StatsAgree
        OBVIOUS
    <2>1. ASSUME calculation.at = "idle", calculation.current,
                 NEW browser \in Covered, NEW mobile \in Covered \cup {NoBrowser},
                 NEW others \in (SUBSET (Covered \ {browser, mobile})) \ {{}},
                 NEW d \in ReleaseDates, \E b \in {browser, mobile} \cup others : ReleasedOn(b, d)
          PROVE  /\ ListMissingOneImplementationFeatures(browser, mobile, others, d)
                       = Missing(browser, mobile, others, d)
                 /\ ListMissingOneImplCounts(browser, mobile, others)[d]
                       = Cardinality(Missing(browser, mobile, others, d))
        BY <2>1, MissingAgrees
    <2>2. ASSUME NEW browser \in {x[1] : x \in DOMAIN released}, NEW start \in ReleaseDates,
                 NEW d \in ReleaseDates, start <= d
          PROVE  ListBrowserFeatureCountMetric(browser, NoBrowser, start, d)
                    = Cardinality({f \in StatFeatures \ Ignored : SupportedBy(f, browser, d)})
        BY <2>2, SeriesAgrees
    <2> QED
        BY <2>1, <2>2 DEF StatsAgree
<1> QED
    BY <1>1, StatsInvariant, PTL

-----------------------------------------------------------------------------
(***************************************************************************)
(* Metrics.  What a worker has scored is the score of the tests it has     *)
(* taken, and the labels it reads are, test by test, those of upstream or  *)
(* those with the moved features renamed, whoever has rewritten the object *)
(* it shares; renaming twice is renaming once.                             *)
(***************************************************************************)

TestLabels(t) == {Labels[t], Migrated(Labels[t])}

LabelsOK(labels) ==
    DOMAIN labels = Tests /\ \A t \in Tests : labels[t] \in TestLabels(t)

Taken(r, f, left) == TestsOf(r, f) \ left

Crashed(r, tests) == \E t \in tests : Results[r][t].status = "C"

ScoresOK(r, scores, left) ==
    /\ \A f : f \in DOMAIN scores <=> Taken(r, f, left) # {}
    /\ \A f \in DOMAIN scores : scores[f] = ScoreOf(r, Taken(r, f, left))

States == {"idle", "next", "labels", "download", "migrate", "score", "insert", "upsert"}

Fields == {"at", "left", "run", "labels", "shared", "inventory", "tests", "scores", "noSubtests"}

StateOK(state, stored) ==
    /\ DOMAIN state = Fields
    /\ state.at \in States
    /\ state.left \subseteq Runs
    /\ state.at \notin {"idle", "next"} => state.run \in Runs
    /\ state.at \in {"labels", "download", "migrate"} =>
          state.scores = <<>> /\ state.noSubtests = {}
    /\ state.at \in {"migrate", "score"} =>
          LabelsOK(state.labels) /\ state.tests \subseteq Tests
    /\ state.at = "migrate" =>
          \A t \in Tests \ state.tests : state.labels[t] = Migrated(Labels[t])
    /\ state.at = "score" =>
          /\ \A t \in Tests : state.labels[t] = Migrated(Labels[t])
          /\ ScoresOK(state.run, state.scores, state.tests)
          /\ \A f : f \in state.noSubtests <=> Crashed(state.run, Taken(state.run, f, state.tests))
    /\ state.at \in {"insert", "upsert"} => ScoresOK(state.run, state.scores, {})
    /\ state.at = "upsert" => state.run \in stored

WorkersOK == DOMAIN worker = Workers /\ \A w \in Workers : StateOK(worker[w], runs)

CacheOK == DOMAIN cache = Jobs /\ \A j \in Jobs : cache[j] = None \/ LabelsOK(cache[j])

TablesOK ==
    /\ runs \subseteq Runs
    /\ \A m \in DOMAIN metrics :
          /\ m = <<m[1], m[2]>> /\ m[1] \in runs
          /\ metrics[m] = WholeScore(m[1], m[2])
          /\ LET l == <<m[2], LaneOf[m[1]]>> IN
             l \in DOMAIN latest /\ Start[m[1]] <= Start[latest[l]]
    /\ \A l \in DOMAIN latest :
          /\ l = <<l[1], l[2]>>
          /\ latest[l] \in Runs /\ LaneOf[latest[l]] = l[2]
          /\ <<latest[l], l[1]>> \in DOMAIN metrics

MetricsInv == WorkersOK /\ CacheOK /\ TablesOK

\* The inductive invariant has what the run checks.
LEMMA InvHasMetrics == ASSUME MetricsInv PROVE MetricsAreCurrent
BY RunAssumption DEF MetricsInv, TablesOK, MetricsAreCurrent

LEMMA MigratedTwice == \A keys : Migrated(Migrated(keys)) = Migrated(keys)
BY MovesAssumption DEF Migrated

\* What a feature has without a test, and what a test adds.
LEMMA NothingScored == \A r : ScoreOf(r, {}) = NoScore
<1> SUFFICES ASSUME NEW r PROVE ScoreOf(r, {}) = NoScore
    OBVIOUS
<1> DEFINE told == {t \in {} : ~IsMissing(Results[r][t])}
           subtests == [t \in told |-> Subtests(Results[r][t])]
           passes == [t \in told |-> SubtestPass(Results[r][t])]
<1>1. told = {} /\ {t \in {} : IsPassing(Results[r][t])} = {}
    OBVIOUS
<1>2. Cardinality({}) = 0
    BY FS_EmptySet
<1>3. \A g : Sum({}, g) = 0
    <2> SUFFICES ASSUME NEW g PROVE Sum({}, g) = 0
        OBVIOUS
    <2> QED
        BY FS_EmptySet, Sums
<1>4. SumOver(told, subtests) = Sum(told, subtests) /\ SumOver(told, passes) = Sum(told, passes)
    BY DEF SumOver, FoldSet, MapThenFoldSet, Sum, IsSum, Some
<1>5. SumOver(told, subtests) = 0 /\ SumOver(told, passes) = 0
    BY <1>1, <1>3, <1>4
<1>6. ScoreOf(r, {}) = [tests |-> 0, testPass |-> 0, subtests |-> SumOver(told, subtests),
                        subtestPass |-> SumOver(told, passes)]
    BY <1>1, <1>2 DEF ScoreOf
<1> QED
    BY <1>5, <1>6 DEF NoScore

IsResult(result) == result \in [status : {"", "O", "F", "C"}, pass : Nat, total : Nat]

\* A test more in a sum over the tests that are told of.
OneMore(T, t, U, g, h) ==
    /\ IsFiniteSet(T) /\ t \notin T /\ U = T \cup {t}
    /\ \A u \in T : g[u] \in Nat /\ g[u] = h[u]
    /\ h[t] \in Nat

Grows(T, t, U, g, h) == Sum(T, g) \in Nat /\ Sum(U, h) = Sum(T, g) + h[t]

LEMMA SumGrows ==
    ASSUME NEW T, NEW t, NEW U, NEW g, NEW h, OneMore(T, t, U, g, h)
    PROVE  Grows(T, t, U, g, h)
<1>1. /\ U = T \cup {t} /\ IsFiniteSet(T) /\ t \notin T
      /\ \A u \in T : g[u] \in Nat /\ g[u] = h[u]
    BY DEF OneMore
<1>2. IsFiniteSet(U) /\ \A u \in U : h[u] \in Nat
    BY <1>1, FS_AddElement DEF OneMore
<1>3. T \in SUBSET U /\ t \in U \ T
    BY <1>1
<1>4. Sum(U, h) = Sum(T, h) + h[t]
    BY <1>1, <1>2, <1>3, Sums
<1>5. Sum(T, g) = Sum(T, h)
    BY <1>1, EqualSums
<1>6. Sum(T, g) \in Nat
    <2>1. T \in SUBSET T /\ \A u \in T : g[u] \in Nat
        BY <1>1
    <2> QED
        BY <1>1, <2>1, Sums
<1> QED
    BY <1>4, <1>5, <1>6 DEF Grows

Told(r, tests) == {t \in tests : ~IsMissing(Results[r][t])}
SubtestsIn(r, tests) == [t \in Told(r, tests) |-> Subtests(Results[r][t])]
PassesIn(r, tests) == [t \in Told(r, tests) |-> SubtestPass(Results[r][t])]
Passing(r, tests) == {t \in tests : IsPassing(Results[r][t])}

LEMMA ScoreIs ==
    \A r, tests :
        ScoreOf(r, tests) =
            [tests |-> Cardinality(tests),
             testPass |-> Cardinality(Passing(r, tests)),
             subtests |-> IF Crashed(r, tests) THEN None
                          ELSE Sum(Told(r, tests), SubtestsIn(r, tests)),
             subtestPass |-> IF Crashed(r, tests) THEN None
                             ELSE Sum(Told(r, tests), PassesIn(r, tests))]
<1> SUFFICES ASSUME NEW r, NEW tests
             PROVE  ScoreOf(r, tests) =
            [tests |-> Cardinality(tests),
             testPass |-> Cardinality(Passing(r, tests)),
             subtests |-> IF Crashed(r, tests) THEN None
                          ELSE Sum(Told(r, tests), SubtestsIn(r, tests)),
             subtestPass |-> IF Crashed(r, tests) THEN None
                             ELSE Sum(Told(r, tests), PassesIn(r, tests))]
    OBVIOUS
<1>1. /\ SumOver(Told(r, tests), SubtestsIn(r, tests)) = Sum(Told(r, tests), SubtestsIn(r, tests))
      /\ SumOver(Told(r, tests), PassesIn(r, tests)) = Sum(Told(r, tests), PassesIn(r, tests))
    BY DEF SumOver, FoldSet, MapThenFoldSet, Sum, IsSum, Some
<1>2. ScoreOf(r, tests) =
            [tests |-> Cardinality(tests),
             testPass |-> Cardinality(Passing(r, tests)),
             subtests |-> IF Crashed(r, tests) THEN None
                          ELSE SumOver(Told(r, tests), SubtestsIn(r, tests)),
             subtestPass |-> IF Crashed(r, tests) THEN None
                             ELSE SumOver(Told(r, tests), PassesIn(r, tests))]
    BY DEF ScoreOf, Told, SubtestsIn, PassesIn, Passing, Crashed
<1> QED
    BY <1>1, <1>2

LEMMA SubtestsTyped ==
    ASSUME NEW result, IsResult(result)
    PROVE  Subtests(result) \in Nat /\ SubtestPass(result) \in Nat
BY DEF IsResult, Subtests, SubtestPass

AScore(a, b, c, d) == [tests |-> a, testPass |-> b, subtests |-> c, subtestPass |-> d]

Counted(s, o) == [s EXCEPT !.tests = @ + 1, !.testPass = @ + o]
Voided(s) == [s EXCEPT !.subtests = None, !.subtestPass = None]
Added(s, m, n) == [s EXCEPT !.subtests = @ + m, !.subtestPass = @ + n]

Steps(a, b, c, d, m, n, o) ==
    /\ Counted(AScore(a, b, c, d), o) = AScore(a + 1, b + o, c, d)
    /\ Voided(AScore(a + 1, b + o, c, d)) = AScore(a + 1, b + o, None, None)
    /\ c \in Nat /\ d \in Nat =>
           Added(AScore(a + 1, b + o, c, d), m, n) = AScore(a + 1, b + o, c + m, d + n)

LEMMA ScoreSteps ==
    ASSUME NEW a \in Nat, NEW b \in Nat, NEW c, NEW d, NEW m \in Nat, NEW n \in Nat, NEW o \in Nat
    PROVE  Steps(a, b, c, d, m, n, o)
<1> DEFINE IsScore(s) == s = AScore(s.tests, s.testPass, s.subtests, s.subtestPass)
<1>2. [AScore(a, b, c, d) EXCEPT !.tests = @ + 1, !.testPass = @ + o] = AScore(a + 1, b + o, c, d)
    <2>1. PICK s, e : s = AScore(a, b, c, d) /\ e = [s EXCEPT !.tests = @ + 1, !.testPass = @ + o]
        OBVIOUS
    <2>2. e.tests = a + 1 /\ e.testPass = b + o /\ e.subtests = c /\ e.subtestPass = d
        BY <2>1 DEF AScore
    <2>3. IsScore(e)
        BY <2>1 DEF AScore
    <2> QED
        BY <2>1, <2>2, <2>3
<1>3. [AScore(a + 1, b + o, c, d) EXCEPT !.subtests = None, !.subtestPass = None]
         = AScore(a + 1, b + o, None, None)
    <2>1. PICK s, e : /\ s = AScore(a + 1, b + o, c, d)
                      /\ e = [s EXCEPT !.subtests = None, !.subtestPass = None]
        OBVIOUS
    <2>2. e.tests = a + 1 /\ e.testPass = b + o /\ e.subtests = None /\ e.subtestPass = None
        BY <2>1 DEF AScore
    <2>3. IsScore(e)
        BY <2>1 DEF AScore
    <2> QED
        BY <2>1, <2>2, <2>3
<1>4. c \in Nat /\ d \in Nat =>
         [AScore(a + 1, b + o, c, d) EXCEPT !.subtests = @ + m, !.subtestPass = @ + n]
            = AScore(a + 1, b + o, c + m, d + n)
    <2> SUFFICES ASSUME c \in Nat, d \in Nat
                 PROVE  [AScore(a + 1, b + o, c, d) EXCEPT !.subtests = @ + m, !.subtestPass = @ + n]
                            = AScore(a + 1, b + o, c + m, d + n)
        OBVIOUS
    <2>1. PICK s, e : /\ s = AScore(a + 1, b + o, c, d)
                      /\ e = [s EXCEPT !.subtests = @ + m, !.subtestPass = @ + n]
        OBVIOUS
    <2>2. e.tests = a + 1 /\ e.testPass = b + o /\ e.subtests = c + m /\ e.subtestPass = d + n
        BY <2>1 DEF AScore
    <2>3. IsScore(e)
        BY <2>1 DEF AScore
    <2> QED
        BY <2>1, <2>2, <2>3
<1> QED
    BY <1>2, <1>3, <1>4 DEF Steps, Counted, Voided, Added

LEMMA TestScored ==
    ASSUME NEW r, NEW T, IsFiniteSet(T), NEW t, t \notin T,
           \A u \in T \cup {t} : IsResult(Results[r][u])
    PROVE  ScoreOf(r, T \cup {t}) = Scored(ScoreOf(r, T), Results[r][t], Crashed(r, T))
<1>1. PICK U, result : U = T \cup {t} /\ result = Results[r][t]
    OBVIOUS
<1>2. Cardinality(U) = Cardinality(T) + 1 /\ IsFiniteSet(U)
    BY <1>1, FS_AddElement
<1>3. Cardinality(Passing(r, U)) = Cardinality(Passing(r, T)) + One(IsPassing(result))
    <2>1. IsFiniteSet(Passing(r, T)) /\ Cardinality(Passing(r, T)) \in Nat /\ t \notin Passing(r, T)
        BY FS_Subset, FS_CardinalityType DEF Passing
    <2>2. CASE IsPassing(result)
        <3>1. Passing(r, U) = Passing(r, T) \cup {t}
            BY <1>1, <2>2 DEF Passing
        <3> QED
            BY <2>1, <2>2, <3>1, FS_AddElement DEF One
    <2>3. CASE ~IsPassing(result)
        <3>1. Passing(r, U) = Passing(r, T)
            BY <1>1, <2>3 DEF Passing
        <3> QED
            BY <2>1, <2>3, <3>1 DEF One
    <2> QED
        BY <2>2, <2>3
<1>4. Crashed(r, U) <=> Crashed(r, T) \/ result.status = "C"
    BY <1>1 DEF Crashed
<1>5. /\ IsFiniteSet(Told(r, T)) /\ t \notin Told(r, T)
      /\ Told(r, T) \subseteq Told(r, U)
    BY <1>1, FS_Subset DEF Told
<1>6. \A u \in Told(r, T) : /\ SubtestsIn(r, T)[u] \in Nat /\ PassesIn(r, T)[u] \in Nat
                            /\ SubtestsIn(r, T)[u] = SubtestsIn(r, U)[u]
                            /\ PassesIn(r, T)[u] = PassesIn(r, U)[u]
    <2> SUFFICES ASSUME NEW u \in Told(r, T)
                 PROVE  /\ SubtestsIn(r, T)[u] \in Nat /\ PassesIn(r, T)[u] \in Nat
                        /\ SubtestsIn(r, T)[u] = SubtestsIn(r, U)[u]
                        /\ PassesIn(r, T)[u] = PassesIn(r, U)[u]
        OBVIOUS
    <2>1. u \in Told(r, U) /\ IsResult(Results[r][u])
        BY <1>5 DEF Told
    <2>2. /\ SubtestsIn(r, T)[u] = Subtests(Results[r][u])
          /\ SubtestsIn(r, U)[u] = Subtests(Results[r][u])
          /\ PassesIn(r, T)[u] = SubtestPass(Results[r][u])
          /\ PassesIn(r, U)[u] = SubtestPass(Results[r][u])
        BY <2>1 DEF SubtestsIn, PassesIn
    <2> QED
        BY <2>1, <2>2, SubtestsTyped
<1>7. IsResult(result)
    BY <1>1
<1>8. PICK a, b, c, d :
         /\ a = Cardinality(T) /\ b = Cardinality(Passing(r, T))
         /\ c = IF Crashed(r, T) THEN None ELSE Sum(Told(r, T), SubtestsIn(r, T))
         /\ d = IF Crashed(r, T) THEN None ELSE Sum(Told(r, T), PassesIn(r, T))
    OBVIOUS
<1>9. PICK p, q :
         /\ p = IF Crashed(r, U) THEN None ELSE Sum(Told(r, U), SubtestsIn(r, U))
         /\ q = IF Crashed(r, U) THEN None ELSE Sum(Told(r, U), PassesIn(r, U))
    OBVIOUS
<1>10. /\ ScoreOf(r, T) = AScore(a, b, c, d)
       /\ ScoreOf(r, U) = AScore(a + 1, b + One(IsPassing(result)), p, q)
    BY <1>2, <1>3, <1>8, <1>9, ScoreIs DEF AScore
<1>15. PICK m \in Nat, n \in Nat, o \in Nat :
          o = One(IsPassing(result)) /\ m = Subtests(result) /\ n = SubtestPass(result)
    BY <1>7, SubtestsTyped DEF One
<1>16. a \in Nat /\ b \in Nat
    <2>1. IsFiniteSet(Passing(r, T))
        BY FS_Subset DEF Passing
    <2> QED
        BY <1>8, <2>1, FS_CardinalityType
<1>17. Steps(a, b, c, d, m, n, o)
    BY <1>16, ScoreSteps
<1>18. Scored(AScore(a, b, c, d), result, Crashed(r, T)) =
           IF IsMissing(result) THEN Counted(AScore(a, b, c, d), o)
           ELSE IF result.status = "C" THEN Voided(Counted(AScore(a, b, c, d), o))
           ELSE IF Crashed(r, T) THEN Counted(AScore(a, b, c, d), o)
           ELSE Added(Counted(AScore(a, b, c, d), o), m, n)
    BY <1>15 DEF Scored, Counted, Voided, Added
<1>11. CASE IsMissing(result)
    <2>1. Told(r, U) = Told(r, T)
        BY <1>1, <1>11 DEF Told
    <2>2. SubtestsIn(r, U) = SubtestsIn(r, T) /\ PassesIn(r, U) = PassesIn(r, T)
        BY <2>1 DEF SubtestsIn, PassesIn
    <2>3. Crashed(r, U) <=> Crashed(r, T)
        BY <1>4, <1>11 DEF IsMissing
    <2>4. p = c /\ q = d
        BY <1>8, <1>9, <2>1, <2>2, <2>3
    <2> QED
        BY <1>1, <1>10, <1>11, <2>4, <1>15, <1>17, <1>18 DEF Steps
<1>12. CASE ~IsMissing(result) /\ result.status = "C"
    <2>1. p = None /\ q = None
        BY <1>4, <1>9, <1>12
    <2> QED
        BY <1>1, <1>10, <1>12, <2>1, <1>15, <1>17, <1>18 DEF Steps
<1>13. CASE ~IsMissing(result) /\ result.status # "C" /\ Crashed(r, T)
    <2>1. p = c /\ q = d
        BY <1>4, <1>8, <1>9, <1>13
    <2> QED
        BY <1>1, <1>10, <1>13, <2>1, <1>15, <1>17, <1>18 DEF Steps
<1>14. CASE ~IsMissing(result) /\ result.status # "C" /\ ~Crashed(r, T)
    <2>1. Told(r, U) = Told(r, T) \cup {t}
        BY <1>1, <1>14 DEF Told
    <2>2. SubtestsIn(r, U)[t] = Subtests(result) /\ PassesIn(r, U)[t] = SubtestPass(result)
        BY <1>1, <2>1 DEF SubtestsIn, PassesIn
    <2>3. SubtestsIn(r, U)[t] \in Nat /\ PassesIn(r, U)[t] \in Nat
        BY <1>7, <2>2, SubtestsTyped
    <2>4. PICK V, W, i, j, k, l :
             /\ V = Told(r, T) /\ W = Told(r, U) /\ i = SubtestsIn(r, T) /\ j = SubtestsIn(r, U)
             /\ k = PassesIn(r, T) /\ l = PassesIn(r, U)
        OBVIOUS
    <2>5. OneMore(V, t, W, i, j) /\ OneMore(V, t, W, k, l)
        BY <1>5, <1>6, <2>1, <2>3, <2>4 DEF OneMore
    <2>8. Grows(V, t, W, i, j) /\ Grows(V, t, W, k, l)
        BY <2>5, SumGrows
    <2>6. p = c + Subtests(result) /\ q = d + SubtestPass(result)
        BY <1>4, <1>8, <1>9, <1>14, <2>1, <2>2, <2>4, <2>8 DEF Grows
    <2>7. c \in Nat /\ d \in Nat
        BY <1>8, <1>14, <2>1, <2>2, <2>4, <2>8 DEF Grows
    <2> QED
        BY <1>1, <1>10, <1>14, <2>6, <2>7, <1>15, <1>17, <1>18 DEF Steps
<1> QED
    BY <1>11, <1>12, <1>13, <1>14

\* What the steps of one worker leave alone.
LEMMA WorkersKept ==
    ASSUME WorkersOK, NEW w \in Workers, NEW state, Becomes(w, state),
           StateOK(state, runs'), runs \subseteq runs'
    PROVE  WorkersOK'
<1>1. ASSUME NEW v \in Workers
      PROVE  StateOK(worker[v], runs')
    BY DEF WorkersOK, StateOK
<1>2. worker' = [worker EXCEPT ![w] = state]
    BY DEF Becomes
<1>3. DOMAIN worker' = Workers
    BY <1>2 DEF WorkersOK
<1>4. ASSUME NEW v \in Workers
      PROVE  StateOK(worker'[v], runs')
    <2>1. CASE v = w
        <3>1. worker'[v] = state
            BY <1>2, <2>1 DEF WorkersOK
        <3> QED
            BY <3>1
    <2>2. CASE v # w
        <3>1. worker'[v] = worker[v]
            BY <1>2, <2>2 DEF WorkersOK
        <3> QED
            BY <1>1, <3>1
    <2> QED
        BY <2>1, <2>2
<1> QED
    BY <1>3, <1>4 DEF WorkersOK

LEMMA TablesKept ==
    ASSUME MetricsInv, UNCHANGED tables
    PROVE  TablesOK' /\ runs' = runs
<1>1. runs' = runs /\ metrics' = metrics /\ latest' = latest
    BY DEF tables
<1> QED
    BY <1>1 DEF MetricsInv, TablesOK

LEMMA CacheKept == ASSUME CacheOK, UNCHANGED cache PROVE CacheOK'
BY DEF CacheOK

LEMMA IdleOK == \A stored : StateOK(Idle, stored)
BY DEF StateOK, Idle, Fields, States

LEMMA LabelsAreOK == LabelsOK(Labels)
BY TestsAssumption DEF LabelsOK, TestLabels

\* A step that changes its worker only.
LEMMA WorkerAlone ==
    ASSUME MetricsInv, NEW w \in Workers, NEW state, Becomes(w, state), StateOK(state, runs),
           UNCHANGED <<cache, tables>>
    PROVE  MetricsInv'
<1>1. TablesOK' /\ runs' = runs
    BY TablesKept
<1>2. CacheOK'
    BY CacheKept DEF MetricsInv
<1>3. WorkersOK'
    BY <1>1, WorkersKept DEF MetricsInv
<1> QED
    BY <1>1, <1>2, <1>3 DEF MetricsInv

LEMMA LaneSteps ==
    ASSUME MetricsInv, NEW w \in Workers, TakeLane(w) \/ NextRun(w) \/ RunFails(w)
    PROVE  MetricsInv'
<1>1. UNCHANGED <<cache, tables>>
    BY DEF TakeLane, NextRun, RunFails
<1>2. StateOK(worker[w], runs)
    BY DEF MetricsInv, WorkersOK
<1>3. CASE TakeLane(w)
    <2>1. PICK lane \in todo[JobOf[w]] : Becomes(w, [Idle EXCEPT !.at = "next", !.left = RunsOf(lane)])
        BY <1>3 DEF TakeLane
    <2>2. PICK state : state = [Idle EXCEPT !.at = "next", !.left = RunsOf(lane)]
        OBVIOUS
    <2>3. StateOK(state, runs)
        BY <2>2 DEF StateOK, Idle, Fields, States, RunsOf
    <2> QED
        BY <1>1, <2>1, <2>2, <2>3, WorkerAlone
<1>4. CASE NextRun(w)
    <2>1. CASE Becomes(w, Idle)
        BY <1>1, <2>1, IdleOK, WorkerAlone
    <2>2. CASE \E r \in worker[w].left :
             Becomes(w, [Idle EXCEPT !.at = "labels", !.run = r, !.left = worker[w].left \ {r}])
        <3>1. PICK r \in worker[w].left :
                 Becomes(w, [Idle EXCEPT !.at = "labels", !.run = r, !.left = worker[w].left \ {r}])
            BY <2>2
        <3>2. PICK state : state = [Idle EXCEPT !.at = "labels", !.run = r, !.left = worker[w].left \ {r}]
            OBVIOUS
        <3>3. worker[w].left \subseteq Runs
            BY <1>2 DEF StateOK
        <3>4. StateOK(state, runs)
            BY <3>2, <3>3 DEF StateOK, Idle, Fields, States
        <3> QED
            BY <1>1, <3>1, <3>2, <3>4, WorkerAlone
    <2> QED
        BY <1>4, <2>1, <2>2 DEF NextRun
<1>5. CASE RunFails(w)
    BY <1>1, <1>5, IdleOK, WorkerAlone DEF RunFails
<1> QED
    BY <1>3, <1>4, <1>5

\* A worker that begins to rewrite labels.
LEMMA MigrationBegins ==
    ASSUME NEW state, NEW stored, NEW labels, NEW new, NEW shared,
           StateOK(state, stored), state.at \in {"labels", "download"}, LabelsOK(labels),
           new = [state EXCEPT !.at = "migrate", !.labels = labels, !.shared = shared,
                               !.inventory = KeysIn(labels), !.tests = Tests]
    PROVE  StateOK(new, stored)
<1>1. DOMAIN state = Fields /\ state.left \subseteq Runs /\ state.run \in Runs
      /\ state.scores = <<>> /\ state.noSubtests = {}
    BY DEF StateOK
<1>2. /\ DOMAIN new = Fields /\ new.at = "migrate" /\ new.left = state.left /\ new.run = state.run
      /\ new.labels = labels /\ new.tests = Tests /\ new.scores = state.scores
      /\ new.noSubtests = state.noSubtests
    BY <1>1 DEF Fields
<1> QED
    BY <1>1, <1>2 DEF StateOK, States

LEMMA LabelSteps ==
    ASSUME MetricsInv, NEW w \in Workers, GetCachedLabels(w)
    PROVE  MetricsInv'
<1>1. UNCHANGED <<cache, tables>> /\ worker[w].at = "labels"
    BY DEF GetCachedLabels
<1>2. PICK cached : cached = cache[JobOf[w]]
    OBVIOUS
<1>3. cached = None \/ LabelsOK(cached)
    BY <1>2, JobAssumption DEF MetricsInv, CacheOK
<1>4. StateOK(worker[w], runs)
    BY DEF MetricsInv, WorkersOK
<1>5. CASE cached # None /\ Migrates(w, cached, FALSE)
    <2>1. PICK state : state = [worker[w] EXCEPT !.at = "migrate", !.labels = cached, !.shared = FALSE,
                                   !.inventory = KeysIn(cached), !.tests = Tests]
        OBVIOUS
    <2>2. StateOK(state, runs)
        BY <1>1, <1>3, <1>4, <1>5, <2>1, MigrationBegins
    <2>3. Becomes(w, state)
        BY <1>5, <2>1 DEF Migrates
    <2> QED
        BY <1>1, <2>2, <2>3, WorkerAlone
<1>6. CASE Becomes(w, [worker[w] EXCEPT !.at = "download"])
    <2>1. PICK state : state = [worker[w] EXCEPT !.at = "download"]
        OBVIOUS
    <2>2. StateOK(state, runs)
        BY <1>1, <1>4, <2>1 DEF StateOK, Fields, States
    <2>3. Becomes(w, state)
        BY <1>6, <2>1
    <2> QED
        BY <1>1, <2>2, <2>3, WorkerAlone
<1> QED
    BY <1>2, <1>5, <1>6 DEF GetCachedLabels

\* To lose the object that was shared changes nothing.
LEMMA SharedOrNot ==
    ASSUME NEW state, NEW stored, StateOK(state, stored)
    PROVE  StateOK([state EXCEPT !.shared = FALSE], stored)
<1>1. PICK new : new = [state EXCEPT !.shared = FALSE]
    OBVIOUS
<1>2. DOMAIN state = Fields
    BY DEF StateOK
<1>3. /\ DOMAIN new = Fields /\ new.at = state.at /\ new.left = state.left /\ new.run = state.run
      /\ new.labels = state.labels /\ new.tests = state.tests /\ new.scores = state.scores
      /\ new.noSubtests = state.noSubtests
    BY <1>1, <1>2 DEF Fields
<1>4. StateOK(new, stored)
    BY <1>3 DEF StateOK
<1> QED
    BY <1>1, <1>4

LEMMA DownloadStep ==
    ASSUME MetricsInv, NEW w \in Workers, DownloadLabels(w)
    PROVE  MetricsInv'
<1>1. /\ worker[w].at = "download" /\ UNCHANGED tables
      /\ cache' = [cache EXCEPT ![JobOf[w]] = Labels]
    BY DEF DownloadLabels
<1>2. TablesOK' /\ runs' = runs
    BY <1>1, TablesKept
<1>3. CacheOK'
    BY <1>1, LabelsAreOK DEF MetricsInv, CacheOK
<1> DEFINE states == [v \in Workers |-> IF JobOf[v] = JobOf[w]
                                        THEN [worker[v] EXCEPT !.shared = FALSE] ELSE worker[v]]
<1>4. worker' = [states EXCEPT ![w].at = "migrate", ![w].labels = Labels, ![w].shared = TRUE,
                               ![w].inventory = KeysIn(Labels), ![w].tests = Tests]
    BY DEF DownloadLabels
<1>5. PICK old : old = states
    OBVIOUS
<1>6. /\ DOMAIN old = Workers
      /\ \A v \in Workers : old[v] = [worker[v] EXCEPT !.shared = FALSE] \/ old[v] = worker[v]
      /\ old[w] = [worker[w] EXCEPT !.shared = FALSE]
    BY <1>5
<1>7. \A v \in Workers : StateOK(worker[v], runs)
    BY DEF MetricsInv, WorkersOK
<1>8. ASSUME NEW v \in Workers
      PROVE  StateOK(old[v], runs)
    BY <1>6, <1>7, SharedOrNot
<1>9. worker' = [old EXCEPT ![w].at = "migrate", ![w].labels = Labels, ![w].shared = TRUE,
                            ![w].inventory = KeysIn(Labels), ![w].tests = Tests]
    BY <1>4, <1>5
<1>10. PICK new : new = [old[w] EXCEPT !.at = "migrate", !.labels = Labels, !.shared = TRUE,
                                       !.inventory = KeysIn(Labels), !.tests = Tests]
    OBVIOUS
<1> HIDE DEF states
<1>11. worker' = [old EXCEPT ![w] = new]
    BY <1>6, <1>9, <1>10
<1>12. old[w].at = "download"
    <2>1. DOMAIN worker[w] = Fields
        BY <1>7 DEF StateOK
    <2> QED
        BY <1>1, <1>6, <2>1 DEF Fields
<1>13. StateOK(new, runs)
    <2>1. StateOK(old[w], runs)
        BY <1>8
    <2>2. PICK state : state = old[w]
        OBVIOUS
    <2> QED
        BY <1>10, <1>12, <2>1, <2>2, LabelsAreOK, MigrationBegins
<1>14. WorkersOK'
    <2>1. DOMAIN worker' = Workers
        BY <1>6, <1>11
    <2>2. ASSUME NEW v \in Workers
          PROVE  worker'[v] = new \/ worker'[v] = old[v]
        BY <1>6, <1>11
    <2> QED
        BY <1>2, <1>8, <1>13, <2>1, <2>2 DEF WorkersOK
<1> QED
    BY <1>2, <1>3, <1>14 DEF MetricsInv

LEMMA MigrateStep ==
    ASSUME MetricsInv, NEW w \in Workers, NEW t \in Tests, MigrateTest(w, t)
    PROVE  MetricsInv'
<1>1. /\ worker[w].at = "migrate" /\ UNCHANGED tables
    BY DEF MigrateTest
<1>2. StateOK(worker[w], runs)
    BY DEF MetricsInv, WorkersOK
<1>3. PICK state : state = worker[w]
    OBVIOUS
<1>4. PICK rewritten : rewritten = [state.labels EXCEPT ![t] = Migrated(@)]
    OBVIOUS
<1>5. CASE Becomes(w, Idle) /\ UNCHANGED cache
    BY <1>1, <1>5, IdleOK, WorkerAlone
<1>6. CASE /\ Becomes(w, [state EXCEPT !.labels = rewritten, !.tests = @ \ {t}])
           /\ cache' = IF state.shared THEN [cache EXCEPT ![JobOf[w]] = rewritten] ELSE cache
    <2>1. PICK new : new = [state EXCEPT !.labels = rewritten, !.tests = @ \ {t}]
        OBVIOUS
    <2>2. LabelsOK(state.labels) /\ state.tests \subseteq Tests /\ DOMAIN state = Fields
        BY <1>1, <1>2, <1>3 DEF StateOK
    <2>3. DOMAIN rewritten = Tests /\ rewritten[t] = Migrated(state.labels[t])
        BY <1>4, <2>2 DEF LabelsOK
    <2>4. rewritten[t] = Migrated(Labels[t])
        BY <2>2, <2>3, MigratedTwice DEF LabelsOK, TestLabels
    <2>5. \A u \in Tests : u # t => rewritten[u] = state.labels[u]
        BY <1>4, <2>2 DEF LabelsOK
    <2>6. LabelsOK(rewritten)
        <3>1. ASSUME NEW u \in Tests
              PROVE  rewritten[u] \in TestLabels(u)
            BY <2>2, <2>4, <2>5 DEF LabelsOK, TestLabels
        <3> QED
            BY <2>3, <3>1 DEF LabelsOK
    <2>7. /\ DOMAIN new = Fields /\ new.at = "migrate" /\ new.left = state.left /\ new.run = state.run
          /\ new.labels = rewritten /\ new.tests = state.tests \ {t} /\ new.scores = state.scores
          /\ new.noSubtests = state.noSubtests
        BY <1>1, <1>3, <2>1, <2>2 DEF Fields
    <2>8. \A u \in Tests \ new.tests : new.labels[u] = Migrated(Labels[u])
        BY <1>1, <1>2, <1>3, <2>4, <2>5, <2>7 DEF StateOK
    <2>9. StateOK(new, runs)
        BY <1>1, <1>2, <1>3, <2>2, <2>6, <2>7, <2>8 DEF StateOK, States
    <2>10. TablesOK' /\ runs' = runs
        BY <1>1, TablesKept
    <2>11. WorkersOK'
        BY <1>6, <2>1, <2>9, <2>10, WorkersKept DEF MetricsInv
    <2>12. CacheOK'
        BY <1>6, <2>6 DEF MetricsInv, CacheOK
    <2> QED
        BY <2>10, <2>11, <2>12 DEF MetricsInv
<1> QED
    BY <1>3, <1>4, <1>5, <1>6 DEF MigrateTest

LEMMA DeathStep ==
    ASSUME MetricsInv, NEW j \in Jobs, JobDies(j)
    PROVE  MetricsInv'
<1>1. UNCHANGED <<cache, tables>> /\ worker' = [w \in Workers |-> IF JobOf[w] = j THEN Idle ELSE worker[w]]
    BY DEF JobDies
<1>2. TablesOK' /\ runs' = runs
    BY <1>1, TablesKept
<1>3. CacheOK'
    BY <1>1, CacheKept DEF MetricsInv
<1>4. WorkersOK'
    BY <1>1, <1>2, IdleOK DEF MetricsInv, WorkersOK
<1> QED
    BY <1>2, <1>3, <1>4 DEF MetricsInv

LEMMA ScoringBegins ==
    ASSUME MetricsInv, NEW w \in Workers, MigrationEnds(w)
    PROVE  MetricsInv'
<1>1. /\ worker[w].at = "migrate" /\ worker[w].tests = {} /\ UNCHANGED <<cache, tables>>
      /\ Becomes(w, [worker[w] EXCEPT !.at = "score", !.tests = Tests])
    BY DEF MigrationEnds
<1>2. StateOK(worker[w], runs)
    BY DEF MetricsInv, WorkersOK
<1>3. PICK state : state = worker[w]
    OBVIOUS
<1>4. PICK new : new = [state EXCEPT !.at = "score", !.tests = Tests]
    OBVIOUS
<1>5. /\ DOMAIN state = Fields /\ state.left \subseteq Runs /\ state.run \in Runs
      /\ state.scores = <<>> /\ state.noSubtests = {} /\ LabelsOK(state.labels)
      /\ \A t \in Tests : state.labels[t] = Migrated(Labels[t])
    BY <1>1, <1>2, <1>3 DEF StateOK
<1>6. /\ DOMAIN new = Fields /\ new.at = "score" /\ new.left = state.left /\ new.run = state.run
      /\ new.labels = state.labels /\ new.tests = Tests /\ new.scores = state.scores
      /\ new.noSubtests = state.noSubtests
    BY <1>4, <1>5 DEF Fields
<1>7. \A f : Taken(new.run, f, Tests) = {}
    BY DEF Taken, TestsOf
<1>8. ScoresOK(new.run, new.scores, Tests)
    <2>1. DOMAIN new.scores = {}
        BY <1>5, <1>6
    <2> QED
        BY <1>7, <2>1 DEF ScoresOK
<1>9. \A f : f \in new.noSubtests <=> Crashed(new.run, Taken(new.run, f, Tests))
    <2>1. \A f : ~Crashed(new.run, Taken(new.run, f, Tests))
        BY <1>7 DEF Crashed
    <2> QED
        BY <1>5, <1>6, <2>1
<1>10. StateOK(new, runs)
    BY <1>5, <1>6, <1>8, <1>9 DEF StateOK, States
<1> QED
    BY <1>1, <1>3, <1>4, <1>10, WorkerAlone

LEMMA ScoreStep ==
    ASSUME MetricsInv, NEW w \in Workers, NEW t \in Tests, ScoreTest(w, t)
    PROVE  MetricsInv'
<1>1. worker[w].at = "score" /\ t \in worker[w].tests /\ UNCHANGED <<cache, tables>>
    BY DEF ScoreTest
<1>2. PICK state, result : state = worker[w] /\ result = Results[state.run][t]
    OBVIOUS
<1>3. StateOK(state, runs)
    BY <1>2 DEF MetricsInv, WorkersOK
<1>4. /\ DOMAIN state = Fields /\ state.at = "score" /\ state.left \subseteq Runs
      /\ state.run \in Runs /\ LabelsOK(state.labels) /\ state.tests \subseteq Tests
      /\ \A u \in Tests : state.labels[u] = Migrated(Labels[u])
      /\ ScoresOK(state.run, state.scores, state.tests)
      /\ \A f : f \in state.noSubtests <=> Crashed(state.run, Taken(state.run, f, state.tests))
    BY <1>1, <1>2, <1>3 DEF StateOK
<1>5. PICK features : features = IF result = None THEN {} ELSE state.labels[t]
    OBVIOUS
<1>6. PICK scores, none :
         /\ scores = [f \in DOMAIN state.scores \cup features |->
                         IF f \in features
                         THEN Scored(ScoreFor(state.scores, f), result, f \in state.noSubtests)
                         ELSE state.scores[f]]
         /\ none = IF features # {} /\ ~IsMissing(result) /\ result.status = "C"
                   THEN state.noSubtests \cup features ELSE state.noSubtests
    OBVIOUS
<1>7. PICK new : new = [state EXCEPT !.tests = @ \ {t}, !.scores = scores, !.noSubtests = none]
    OBVIOUS
<1>8. Becomes(w, new)
    BY <1>2, <1>4, <1>5, <1>6, <1>7 DEF ScoreTest, Fields
<1>9. /\ DOMAIN new = Fields /\ new.at = "score" /\ new.left = state.left /\ new.run = state.run
      /\ new.labels = state.labels /\ new.tests = state.tests \ {t} /\ new.scores = scores
      /\ new.noSubtests = none
    BY <1>4, <1>7 DEF Fields
<1>10. PICK r, left : r = state.run /\ left = state.tests
    OBVIOUS
<1>11. \A f : f \in features <=> t \in TestsOf(r, f)
    BY <1>2, <1>4, <1>5, <1>10 DEF TestsOf
<1>12. \A f : /\ f \in features => Taken(r, f, left \ {t}) = Taken(r, f, left) \cup {t}
              /\ f \notin features => Taken(r, f, left \ {t}) = Taken(r, f, left)
              /\ t \notin Taken(r, f, left)
    BY <1>1, <1>2, <1>10, <1>11 DEF Taken
<1>13. \A f : /\ IsFiniteSet(Taken(r, f, left)) /\ Taken(r, f, left) \subseteq Tests
              /\ \A u \in Taken(r, f, left) : IsResult(Results[r][u])
    <2>1. \A f : /\ Taken(r, f, left) \subseteq Tests
                 /\ \A u \in Taken(r, f, left) : Results[r][u] # None
        BY DEF Taken, TestsOf
    <2>2. \A f : IsFiniteSet(Taken(r, f, left))
        BY <2>1, TestsAssumption, FS_Subset
    <2>3. r \in Runs
        BY <1>4, <1>10
    <2>4. ASSUME NEW f, NEW u \in Taken(r, f, left)
          PROVE  IsResult(Results[r][u])
        <3>1. u \in Tests /\ Results[r][u] # None
            BY <2>1
        <3> QED
            BY <2>3, <3>1, ResultsAssumption DEF IsResult
    <2> QED
        BY <2>1, <2>2, <2>4
<1>14. ASSUME NEW f \in features
       PROVE  scores[f] = ScoreOf(r, Taken(r, f, left \ {t}))
    <2>1. PICK T : T = Taken(r, f, left)
        OBVIOUS
    <2>2. ScoreFor(state.scores, f) = ScoreOf(r, T)
        <3>1. CASE f \in DOMAIN state.scores
            BY <1>4, <1>10, <2>1, <3>1 DEF ScoresOK, ScoreFor
        <3>2. CASE f \notin DOMAIN state.scores
            <4>1. T = {}
                BY <1>4, <1>10, <2>1, <3>2 DEF ScoresOK
            <4> QED
                BY <3>2, <4>1, NothingScored DEF ScoreFor
        <3> QED
            BY <3>1, <3>2
    <2>3. (f \in state.noSubtests) = Crashed(r, T)
        <3>1. f \in state.noSubtests <=> Crashed(r, T)
            BY <1>4, <1>10, <2>1
        <3>2. Crashed(r, T) \in BOOLEAN /\ (f \in state.noSubtests) \in BOOLEAN
            BY DEF Crashed
        <3> QED
            BY <3>1, <3>2
    <2>4. IsResult(result)
        <3>1. result # None
            BY <1>5
        <3> QED
            BY <1>2, <1>4, <3>1, ResultsAssumption DEF IsResult
    <2>5. \A u \in T \cup {t} : IsResult(Results[r][u])
        BY <1>2, <1>10, <1>13, <2>1, <2>4
    <2>6. ScoreOf(r, T \cup {t}) = Scored(ScoreOf(r, T), Results[r][t], Crashed(r, T))
        BY <1>12, <1>13, <2>1, <2>5, TestScored
    <2>7. scores[f] = Scored(ScoreFor(state.scores, f), result, f \in state.noSubtests)
        BY <1>6
    <2>8. Taken(r, f, left \ {t}) = T \cup {t}
        BY <1>12, <2>1
    <2> QED
        BY <1>2, <1>10, <2>2, <2>3, <2>6, <2>7, <2>8
<1>15. ASSUME NEW f \in DOMAIN scores, f \notin features
       PROVE  scores[f] = ScoreOf(r, Taken(r, f, left \ {t}))
    <2>1. scores[f] = state.scores[f] /\ f \in DOMAIN state.scores
        BY <1>6, <1>15
    <2>2. state.scores[f] = ScoreOf(r, Taken(r, f, left))
        BY <1>4, <1>10, <2>1 DEF ScoresOK
    <2> QED
        BY <1>12, <1>15, <2>1, <2>2
<1>16. ScoresOK(r, scores, left \ {t})
    <2>1. ASSUME NEW f
          PROVE  f \in DOMAIN scores <=> Taken(r, f, left \ {t}) # {}
        <3>1. f \in DOMAIN state.scores <=> Taken(r, f, left) # {}
            BY <1>4, <1>10 DEF ScoresOK
        <3>2. f \in DOMAIN scores <=> f \in DOMAIN state.scores \/ f \in features
            BY <1>6
        <3>3. CASE f \in features
            BY <1>12, <3>2, <3>3
        <3>4. CASE f \notin features
            BY <1>12, <3>1, <3>2, <3>4
        <3> QED
            BY <3>3, <3>4
    <2> QED
        BY <1>14, <1>15, <2>1 DEF ScoresOK
<1>17. ASSUME NEW f
       PROVE  f \in none <=> Crashed(r, Taken(r, f, left \ {t}))
    <2>1. f \in state.noSubtests <=> Crashed(r, Taken(r, f, left))
        BY <1>4, <1>10
    <2>2. result.status = "C" => ~IsMissing(result)
        BY DEF IsMissing
    <2>3. f \in none <=> f \in state.noSubtests \/ (f \in features /\ result.status = "C")
        BY <1>6, <2>2
    <2>4. CASE f \in features
        <3>1. Taken(r, f, left \ {t}) = Taken(r, f, left) \cup {t}
            BY <1>12, <2>4
        <3>2. Crashed(r, Taken(r, f, left \ {t}))
                 <=> Crashed(r, Taken(r, f, left)) \/ result.status = "C"
            BY <1>2, <1>10, <3>1 DEF Crashed
        <3> QED
            BY <2>1, <2>3, <2>4, <3>2
    <2>5. CASE f \notin features
        <3>1. Taken(r, f, left \ {t}) = Taken(r, f, left)
            BY <1>12, <2>5
        <3> QED
            BY <2>1, <2>3, <2>5, <3>1
    <2> QED
        BY <2>4, <2>5
<1>18. StateOK(new, runs)
    <2>1. new.tests \subseteq Tests
        BY <1>4, <1>9
    <2>2. ScoresOK(new.run, new.scores, new.tests)
        BY <1>9, <1>10, <1>16
    <2>3. \A f : f \in new.noSubtests <=> Crashed(new.run, Taken(new.run, f, new.tests))
        BY <1>9, <1>10, <1>17
    <2> QED
        BY <1>4, <1>9, <2>1, <2>2, <2>3 DEF StateOK, States
<1> QED
    BY <1>1, <1>8, <1>18, WorkerAlone

LEMMA ScoringEnds ==
    ASSUME MetricsInv, NEW w \in Workers, ScoreEnds(w)
    PROVE  MetricsInv'
<1>1. /\ worker[w].at = "score" /\ worker[w].tests = {} /\ UNCHANGED <<cache, tables>>
      /\ Becomes(w, [worker[w] EXCEPT !.at = "insert"])
    BY DEF ScoreEnds
<1>2. PICK state, new : state = worker[w] /\ new = [state EXCEPT !.at = "insert"]
    OBVIOUS
<1>3. StateOK(state, runs)
    BY <1>2 DEF MetricsInv, WorkersOK
<1>4. /\ DOMAIN new = Fields /\ new.at = "insert" /\ new.left = state.left /\ new.run = state.run
      /\ new.scores = state.scores
    BY <1>2, <1>3 DEF StateOK, Fields
<1>5. StateOK(new, runs)
    BY <1>1, <1>2, <1>3, <1>4 DEF StateOK, States
<1> QED
    BY <1>1, <1>2, <1>5, WorkerAlone

LEMMA InsertStep ==
    ASSUME MetricsInv, NEW w \in Workers, InsertWPTRun(w)
    PROVE  MetricsInv'
<1>1. PICK state, new : state = worker[w] /\ new = [state EXCEPT !.at = "upsert"]
    OBVIOUS
<1>2. /\ state.at = "insert" /\ runs' = runs \cup {state.run} /\ Becomes(w, new)
      /\ UNCHANGED <<cache, metrics, latest>>
    BY <1>1 DEF InsertWPTRun
<1>3. StateOK(state, runs)
    BY <1>1 DEF MetricsInv, WorkersOK
<1>4. /\ DOMAIN new = Fields /\ new.at = "upsert" /\ new.left = state.left /\ new.run = state.run
      /\ new.scores = state.scores
    BY <1>1, <1>3 DEF StateOK, Fields
<1>5. state.run \in Runs /\ runs \subseteq runs' /\ new.run \in runs'
    BY <1>2, <1>3, <1>4 DEF StateOK
<1>6. StateOK(new, runs')
    BY <1>2, <1>3, <1>4, <1>5 DEF StateOK, States
<1>7. WorkersOK'
    BY <1>2, <1>5, <1>6, WorkersKept DEF MetricsInv
<1>8. CacheOK'
    BY <1>2, CacheKept DEF MetricsInv
<1>9. TablesOK'
    BY <1>2, <1>5 DEF MetricsInv, TablesOK
<1> QED
    BY <1>7, <1>8, <1>9 DEF MetricsInv

\* What is stored with a run: for each of its features the score of all tests,
\* and the latest is a run that has metrics and none that started before another.
LEMMA UpsertStep ==
    ASSUME MetricsInv, NEW w \in Workers, UpsertMetrics(w)
    PROVE  MetricsInv'
<1>1. PICK r, scores, known, lane :
         /\ r = worker[w].run /\ scores = worker[w].scores
         /\ known = InCatalog(scores) /\ lane = LaneOf[r]
    OBVIOUS
<1>2. PICK newest : newest = {f \in known : IsLatest(r, f)}
    OBVIOUS
<1>3. PICK new : new = [Idle EXCEPT !.at = "next", !.left = worker[w].left]
    OBVIOUS
<1>4. /\ worker[w].at = "upsert" /\ UNCHANGED <<cache, runs>> /\ Becomes(w, new)
      /\ metrics' = [m \in DOMAIN metrics \cup {<<r, f>> : f \in known} |->
                        IF m[1] = r /\ m[2] \in known THEN scores[m[2]] ELSE metrics[m]]
      /\ latest' = [l \in DOMAIN latest \cup {<<f, lane>> : f \in newest} |->
                       IF l[2] = lane /\ l[1] \in newest THEN r ELSE latest[l]]
    BY <1>1, <1>2, <1>3 DEF UpsertMetrics, StoredScores
<1>5. /\ r \in Runs /\ r \in runs /\ ScoresOK(r, scores, {}) /\ worker[w].left \subseteq Runs
    BY <1>1, <1>4 DEF MetricsInv, WorkersOK, StateOK
<1>6. StateOK(new, runs)
    BY <1>3, <1>5 DEF StateOK, Idle, Fields, States
<1>7. WorkersOK'
    BY <1>4, <1>6, WorkersKept DEF MetricsInv
<1>8. CacheOK'
    BY <1>4, CacheKept DEF MetricsInv
<1>9. \A f \in known : scores[f] = WholeScore(r, f)
    <2>1. \A f : Taken(r, f, {}) = TestsOf(r, f)
        BY DEF Taken
    <2> QED
        BY <1>1, <1>5, <2>1 DEF ScoresOK, InCatalog, WholeScore
<1>10. /\ \A m \in DOMAIN metrics :
             /\ m = <<m[1], m[2]>> /\ m[1] \in runs /\ m[1] \in Runs
             /\ metrics[m] = WholeScore(m[1], m[2])
             /\ <<m[2], LaneOf[m[1]]>> \in DOMAIN latest
             /\ Start[m[1]] <= Start[latest[<<m[2], LaneOf[m[1]]>>]]
       /\ \A l \in DOMAIN latest :
             /\ l = <<l[1], l[2]>> /\ latest[l] \in Runs /\ LaneOf[latest[l]] = l[2]
             /\ <<latest[l], l[1]>> \in DOMAIN metrics
    BY DEF MetricsInv, TablesOK
<1>11. DOMAIN metrics \subseteq DOMAIN metrics' /\ DOMAIN latest \subseteq DOMAIN latest'
    BY <1>4
<1>12. ASSUME NEW m \in DOMAIN metrics'
       PROVE  \/ m = <<r, m[2]>> /\ m[1] = r /\ m[2] \in known /\ metrics'[m] = scores[m[2]]
              \/ m \in DOMAIN metrics /\ metrics'[m] = metrics[m]
    <2>1. m \in DOMAIN metrics \/ \E f \in known : m = <<r, f>>
        BY <1>4
    <2>2. CASE m[1] = r /\ m[2] \in known
        <3>1. m = <<m[1], m[2]>>
            <4>1. \A f : m = <<r, f>> => m = <<m[1], m[2]>>
                OBVIOUS
            <4>2. m \in DOMAIN metrics => m = <<m[1], m[2]>>
                BY <1>10
            <4> QED
                BY <2>1, <4>1, <4>2
        <3>2. metrics'[m] = scores[m[2]]
            BY <1>4, <2>2
        <3> QED
            BY <2>2, <3>1, <3>2
    <2>3. CASE ~(m[1] = r /\ m[2] \in known)
        <3>1. \A f \in known : m # <<r, f>>
            BY <2>3
        <3>2. metrics'[m] = metrics[m]
            BY <1>4, <2>3
        <3> QED
            BY <2>1, <3>1, <3>2
    <2> QED
        BY <2>2, <2>3
<1>13. ASSUME NEW l \in DOMAIN latest'
       PROVE  \/ l = <<l[1], lane>> /\ l[2] = lane /\ l[1] \in newest /\ latest'[l] = r
              \/ l \in DOMAIN latest /\ latest'[l] = latest[l]
    <2>1. l \in DOMAIN latest \/ \E f \in newest : l = <<f, lane>>
        BY <1>4
    <2>2. CASE l[2] = lane /\ l[1] \in newest
        <3>1. l = <<l[1], l[2]>>
            <4>1. \A f : l = <<f, lane>> => l = <<l[1], l[2]>>
                OBVIOUS
            <4>2. l \in DOMAIN latest => l = <<l[1], l[2]>>
                BY <1>10
            <4> QED
                BY <2>1, <4>1, <4>2
        <3>2. latest'[l] = r
            BY <1>4, <2>2
        <3> QED
            BY <2>2, <3>1, <3>2
    <2>3. CASE ~(l[2] = lane /\ l[1] \in newest)
        <3>1. \A f \in newest : l # <<f, lane>>
            BY <2>3
        <3>2. latest'[l] = latest[l]
            BY <1>4, <2>3
        <3> QED
            BY <2>1, <3>1, <3>2
    <2> QED
        BY <2>2, <2>3
<1>14. ASSUME NEW l \in DOMAIN latest'
       PROVE  /\ l = <<l[1], l[2]>> /\ latest'[l] \in Runs /\ LaneOf[latest'[l]] = l[2]
              /\ <<latest'[l], l[1]>> \in DOMAIN metrics'
    <2>1. CASE l = <<l[1], lane>> /\ l[2] = lane /\ l[1] \in newest /\ latest'[l] = r
        BY <1>1, <1>2, <1>4, <1>5, <2>1
    <2>2. CASE l \in DOMAIN latest /\ latest'[l] = latest[l]
        BY <1>10, <1>11, <2>2
    <2> QED
        BY <1>13, <2>1, <2>2
\* The latest of a lane only moves on to runs that started later.
<1>15. ASSUME NEW l \in DOMAIN latest
       PROVE  Start[latest[l]] <= Start[latest'[l]]
    <2>1. l \in DOMAIN latest' /\ l = <<l[1], l[2]>> /\ latest[l] \in Runs
        BY <1>10, <1>11
    <2>2. CASE latest'[l] = latest[l]
        BY <2>1, <2>2, RunAssumption
    <2>3. CASE l[2] = lane /\ l[1] \in newest /\ latest'[l] = r
        <3>1. IsLatest(r, l[1]) /\ l = <<l[1], LaneOf[r]>>
            BY <1>1, <1>2, <2>1, <2>3
        <3>2. Start[r] > Start[latest[l]]
            BY <3>1 DEF IsLatest
        <3> QED
            BY <1>5, <2>1, <2>3, <3>2, RunAssumption
    <2> QED
        BY <1>13, <2>1, <2>2, <2>3
<1>16. ASSUME NEW m \in DOMAIN metrics'
       PROVE  /\ m = <<m[1], m[2]>> /\ m[1] \in runs
              /\ metrics'[m] = WholeScore(m[1], m[2])
              /\ <<m[2], LaneOf[m[1]]>> \in DOMAIN latest'
              /\ Start[m[1]] <= Start[latest'[<<m[2], LaneOf[m[1]]>>]]
    <2>1. CASE m = <<r, m[2]>> /\ m[1] = r /\ m[2] \in known /\ metrics'[m] = scores[m[2]]
        <3>1. PICK l : l = <<m[2], lane>>
            OBVIOUS
        <3>2. /\ m = <<m[1], m[2]>> /\ m[1] \in runs /\ metrics'[m] = WholeScore(m[1], m[2])
            BY <1>5, <1>9, <2>1
        <3>3. CASE m[2] \in newest
            <4>1. l \in DOMAIN latest' /\ latest'[l] = r
                BY <1>4, <3>1, <3>3
            <4> QED
                BY <1>1, <1>5, <2>1, <3>1, <3>2, <4>1, RunAssumption
        <3>4. CASE m[2] \notin newest
            <4>1. l \in DOMAIN latest /\ ~(Start[r] > Start[latest[l]])
                BY <1>1, <1>2, <2>1, <3>1, <3>4 DEF IsLatest
            <4>2. latest[l] \in Runs /\ latest'[l] = latest[l] /\ l \in DOMAIN latest'
                BY <1>4, <1>10, <3>1, <3>4, <4>1
            <4> QED
                BY <1>1, <1>5, <2>1, <3>1, <3>2, <4>1, <4>2, RunAssumption
        <3> QED
            BY <3>3, <3>4
    <2>2. CASE m \in DOMAIN metrics /\ metrics'[m] = metrics[m]
        <3>1. PICK l : l = <<m[2], LaneOf[m[1]]>>
            OBVIOUS
        <3>2. l \in DOMAIN latest /\ Start[m[1]] <= Start[latest[l]] /\ m[1] \in Runs
            BY <1>10, <2>2, <3>1
        <3>3. Start[latest[l]] <= Start[latest'[l]] /\ latest[l] \in Runs /\ latest'[l] \in Runs
            BY <1>10, <1>11, <1>14, <1>15, <3>2
        <3>4. Start[m[1]] <= Start[latest'[l]]
            BY <3>2, <3>3, RunAssumption
        <3> QED
            BY <1>10, <1>11, <2>2, <3>1, <3>2, <3>4
    <2> QED
        BY <1>12, <2>1, <2>2
<1>17. TablesOK'
    BY <1>4, <1>14, <1>16 DEF MetricsInv, TablesOK
<1> QED
    BY <1>7, <1>8, <1>17 DEF MetricsInv

LEMMA MetricsInitOK == MetricsInit => MetricsInv
<1> SUFFICES ASSUME MetricsInit PROVE MetricsInv
    OBVIOUS
<1>1. WorkersOK
    BY IdleOK DEF MetricsInit, WorkersOK
<1>2. CacheOK
    BY DEF MetricsInit, CacheOK
<1>3. TablesOK
    <2>1. DOMAIN metrics = {} /\ DOMAIN latest = {} /\ runs = {}
        BY DEF MetricsInit
    <2> QED
        BY <2>1 DEF TablesOK
<1> QED
    BY <1>1, <1>2, <1>3 DEF MetricsInv

LEMMA MetricsStep == MetricsInv /\ [MetricsNext]_metricsVars => MetricsInv'
<1> SUFFICES ASSUME MetricsInv, [MetricsNext]_metricsVars PROVE MetricsInv'
    OBVIOUS
<1>1. CASE UNCHANGED metricsVars
    <2>1. TablesOK' /\ runs' = runs
        BY <1>1, TablesKept DEF metricsVars, tables
    <2>2. CacheOK' /\ WorkersOK'
        BY <1>1, <2>1, CacheKept DEF metricsVars, MetricsInv, WorkersOK
    <2> QED
        BY <2>1, <2>2 DEF MetricsInv
<1>2. ASSUME NEW w \in Workers,
             \/ TakeLane(w) \/ NextRun(w) \/ RunFails(w)
             \/ GetCachedLabels(w) \/ DownloadLabels(w)
             \/ MigrationEnds(w) \/ ScoreEnds(w)
             \/ InsertWPTRun(w) \/ UpsertMetrics(w)
      PROVE  MetricsInv'
    BY <1>2, LaneSteps, LabelSteps, DownloadStep, ScoringBegins, ScoringEnds, InsertStep, UpsertStep
<1>3. ASSUME NEW w \in Workers, NEW t \in Tests, MigrateTest(w, t) \/ ScoreTest(w, t)
      PROVE  MetricsInv'
    BY <1>3, MigrateStep, ScoreStep
<1>4. ASSUME NEW j \in Jobs, JobDies(j)
      PROVE  MetricsInv'
    BY <1>4, DeathStep
<1> QED
    BY <1>1, <1>2, <1>3, <1>4 DEF MetricsNext

\* Whatever the order of the tests, the runs and the jobs, and however workers
\* share the object they rewrite: the metrics that are stored are those of all
\* the tests of their run, labelled as the catalogue has it, and the latest of a
\* feature in a lane are those of the run stored that started last.
THEOREM MetricsStayCurrent == MetricsSpec => []MetricsAreCurrent
<1>1. MetricsSpec => []MetricsInv
    BY MetricsInitOK, MetricsStep, PTL DEF MetricsSpec
<1> QED
    BY <1>1, InvHasMetrics, PTL
=============================================================================
