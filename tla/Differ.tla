------------------------------- MODULE Differ -------------------------------
(***************************************************************************)
(* What the event producer reports of a saved search: FeatureDiffer.Run    *)
(* fetches what the query matches, compares it with the state recorded     *)
(* last, asks the database what became of the features that are gone and   *)
(* decides whether to record and report.  When the user has edited the     *)
(* query it compares what the previous query matches now (the flush), and  *)
(* records what the new one matches.                                       *)
(*                                                                         *)
(* Runs of one search follow each other (module EventProducer); ingestion  *)
(* and users act between any two of a run's reads.  A feature's value      *)
(* stands for what compareFeature compares, a query for the values it      *)
(* matches.                                                                *)
(***************************************************************************)
EXTENDS Naturals

CONSTANTS
    Features,    \* feature identifiers
    Values,      \* name, baseline status and browser states of a feature
    Queries,     \* each query is the set of the values it matches
    Codes,       \* user errors a query can fail with
    None,        \* no value, no query, no error
    MaxChanges   \* bound: steps of ingestion and users

ASSUME QueriesAssumption == Queries \subseteq SUBSET Values
ASSUME NoneAssumption == None \notin Features \cup Values \cup Queries \cup Codes
ASSUME MaxChangesAssumption == MaxChanges \in Nat

VARIABLES
    world,      \* what GetFeature answers for each feature
    failure,    \* how each query fails: references that cycle, are missing...
    query,      \* the query the user saved last
    changes,    \* steps of the environment so far
    prev,       \* the state blob of the last event
    pc,         \* the next step of the run
    asked,      \* the query of the run
    now,        \* NewSnapshot: what that query matches
    error,      \* the user error it failed with
    target,     \* TargetSnapshot, what the recorded one is compared with
    hasTarget,  \* is there a TargetSnapshot?
    fate,       \* what the look-ups of removed features answered
    diff        \* the workflow's FeatureDiff

environment == <<world, failure, query, changes>>
fetched == <<asked, now, error>>
compared == <<target, hasTarget>>
vars == <<environment, prev, pc, fetched, compared, fate, diff>>

Entries == [kind : {"regular", "moved", "split", "gone", "unknown"},
            value : Values \cup {None}, to : SUBSET Features]
Snapshots == [Features -> Values \cup {None}]
Verdicts == [from : Features, to : Features, match : BOOLEAN]
Diffs == [added : SUBSET Features, removed : SUBSET Features,
          deleted : SUBSET Features, modified : SUBSET Features,
          moves : SUBSET Verdicts, splits : SUBSET Verdicts]

NoFeatures == [f \in Features |-> None]
Gone == [kind |-> "gone", value |-> None, to |-> {}]
Unknown == [kind |-> "unknown", value |-> None, to |-> {}]
NoFates == [f \in Features |-> Unknown]
NoDiff == [added |-> {}, removed |-> {}, deleted |-> {}, modified |-> {},
           moves |-> {}, splits |-> {}]

TypeOK ==
    /\ world \in [Features -> Entries]
    /\ failure \in [Queries -> Codes \cup {None}]
    /\ query \in Queries
    /\ changes \in Nat
    /\ prev \in [query : Queries \cup {None}, snapshot : Snapshots,
                 error : Codes \cup {None}]
    /\ pc \in {"idle", "flush", "compare", "investigate", "decide"}
    /\ asked \in Queries
    /\ now \in Snapshots
    /\ error \in Codes \cup {None}
    /\ target \in Snapshots
    /\ hasTarget \in BOOLEAN
    /\ fate \in [Features -> Entries]
    /\ diff \in Diffs

\* A search starts without a recorded state.
Cold == [query |-> None, snapshot |-> NoFeatures, error |-> None]

Init ==
    /\ world \in [Features -> {Gone} \cup [kind : {"regular"}, value : Values,
                                           to : {{}}]]
    /\ failure = [q \in Queries |-> None]
    /\ query \in Queries
    /\ changes = 0
    /\ prev = Cold
    /\ pc = "idle"
    /\ asked = query
    /\ now = NoFeatures
    /\ error = None
    /\ target = NoFeatures
    /\ hasTarget = FALSE
    /\ fate = NoFates
    /\ diff = NoDiff
-----------------------------------------------------------------------------
(* Ingestion and users *)

\* A feature changes, is moved to another, split into others or deleted.
Histories(f) ==
    {Gone}
    \cup [kind : {"regular"}, value : Values, to : {{}}]
    \cup [kind : {"moved"}, value : {None}, to : {{g} : g \in Features \ {f}}]
    \cup [kind : {"split"}, value : {None}, to : (SUBSET (Features \ {f})) \ {{}}]

Ingest(f) ==
    /\ \E e \in Histories(f) \ {world[f]} : world' = [world EXCEPT ![f] = e]
    /\ UNCHANGED <<failure, query>>

\* Edits of the searches that a query refers to break and mend it.
EditReferences(q) ==
    /\ \E c \in (Codes \cup {None}) \ {failure[q]} :
           failure' = [failure EXCEPT ![q] = c]
    /\ UNCHANGED <<world, query>>

EditQuery(q) ==
    /\ q # query
    /\ query' = q
    /\ UNCHANGED <<world, failure>>

Environment ==
    /\ changes < MaxChanges
    /\ changes' = changes + 1
    /\ \/ \E f \in Features : Ingest(f)
       \/ \E q \in Queries : EditReferences(q) \/ EditQuery(q)
    /\ UNCHANGED <<prev, pc, fetched, compared, fate, diff>>
-----------------------------------------------------------------------------
(* FeatureDiffer.Run *)

IsColdStart == prev.query = None
QueryChanged == ~IsColdStart /\ asked # prev.query

\* The features a query matches; a query that fails matches none.
FetchFeatures(q) ==
    [f \in Features |->
        IF failure[q] = None /\ world[f].kind = "regular" /\ world[f].value \in q
          THEN world[f].value ELSE None]

\* The current query is fetched first.  What it matches is compared, unless the
\* query has changed, has recovered from an error or is run for the first time.
FetchCurrent ==
    /\ pc = "idle"
    /\ asked' = query
    /\ now' = FetchFeatures(query)
    /\ error' = failure[query]
    /\ target' = FetchFeatures(query)
    /\ hasTarget' = (prev.query = query /\ ~(prev.error # None /\ failure[query] = None))
    /\ pc' = IF prev.query \in {None, query} THEN "compare" ELSE "flush"
    /\ UNCHANGED <<environment, prev, fate, diff>>

\* The flush of the previous query.  If that fails, for whatever reason, nothing
\* is compared: a silent reset.
FetchPrevious ==
    /\ pc = "flush"
    /\ \/ /\ failure[prev.query] = None
          /\ target' = FetchFeatures(prev.query)
          /\ hasTarget' = TRUE
       \/ UNCHANGED compared
    /\ pc' = "compare"
    /\ UNCHANGED <<environment, prev, fetched, fate, diff>>

Added(old, new) == {f \in Features : old[f] = None /\ new[f] # None}
Modified(old, new) ==
    {f \in Features : old[f] # None /\ new[f] # None /\ old[f] # new[f]}

\* Query errors end the comparison before it starts.
CalculateDiff ==
    /\ pc = "compare"
    /\ diff' = IF hasTarget /\ error = None
                 THEN [NoDiff EXCEPT !.added = Added(prev.snapshot, target),
                                     !.removed = Added(target, prev.snapshot),
                                     !.modified = Modified(prev.snapshot, target)]
                 ELSE NoDiff
    /\ pc' = "investigate"
    /\ UNCHANGED <<environment, prev, fetched, compared, fate>>

\* GetFeature, for one removed feature after the other.
Investigate(f) ==
    /\ pc = "investigate"
    /\ f \in diff.removed
    /\ fate[f] = Unknown
    /\ fate' = [fate EXCEPT ![f] = world[f]]
    /\ UNCHANGED <<environment, prev, pc, fetched, compared, diff>>

\* Removed features that were relocated to g, in one way.
Sources(kind, g) == {f \in diff.removed : fate[f].kind = kind /\ g \in fate[f].to}

\* Moves claim the added features before splits do, each once; which of several
\* is first depends on the order of a map.
Claimants(g) ==
    IF Sources("moved", g) # {} THEN Sources("moved", g) ELSE Sources("split", g)

\* Variant: a claimed feature is not taken off the added ones.
ClaimsForgotten == [diff.added -> {None}]

Claims ==
    {c \in [diff.added -> diff.removed \cup {None}] :
        \A g \in diff.added :
            IF Claimants(g) = {} THEN c[g] = None ELSE c[g] \in Claimants(g)}

\* Removed features and the places they went to, in one way.
Relocated(kind) ==
    {p \in diff.removed \X Features :
        fate[p[1]].kind = kind /\ p[2] \in fate[p[1]].to}

\* Variant: the places that were added are claimed, but not listed.
RelocationsToKnown(kind, claim) ==
    {[from |-> p[1], to |-> p[2], match |-> now[p[2]] # None] :
        p \in {r \in Relocated(kind) : r[2] \notin diff.added}}

\* Variant: only the places a feature has claimed match.
RelocationsByClaim(kind, claim) ==
    {[from |-> p[1], to |-> p[2],
      match |-> p[2] \in diff.added /\ claim[p[2]] = p[1]] : p \in Relocated(kind)}

\* Whether the query matches a removed feature where it went.
Relocations(kind, claim) ==
    {[from |-> p[1], to |-> p[2],
      match |-> now[p[2]] # None \/ (p[2] \in diff.added /\ claim[p[2]] = p[1])] :
        p \in Relocated(kind)}

\* ReconcileHistory tells the removed features apart.
ReconcileHistory ==
    /\ pc = "investigate"
    /\ \A f \in diff.removed : fate[f] # Unknown
    /\ \E claim \in Claims :
           diff' = [diff EXCEPT
               !.added = {g \in diff.added : claim[g] = None},
               !.removed = {f \in diff.removed : fate[f].kind = "regular"},
               !.deleted = {f \in diff.removed : fate[f].kind = "gone"},
               !.moves = Relocations("moved", claim),
               !.splits = Relocations("split", claim)]
    /\ pc' = "decide"
    /\ UNCHANGED <<environment, prev, fetched, compared, fate>>

HasDataChanges ==
    \/ diff.added # {} \/ diff.removed # {} \/ diff.deleted # {}
    \/ diff.modified # {} \/ diff.moves # {} \/ diff.splits # {}

\* Variant: errors that appear or go do not count.
ShouldWriteChanges == HasDataChanges \/ IsColdStart \/ QueryChanged

ShouldWrite == HasDataChanges \/ IsColdStart \/ QueryChanged \/ error # prev.error

\* The workflow is dropped with the run.
EndOfRun ==
    /\ pc' = "idle"
    /\ now' = NoFeatures
    /\ error' = None
    /\ target' = NoFeatures
    /\ hasTarget' = FALSE
    /\ fate' = NoFates
    /\ diff' = NoDiff
    /\ UNCHANGED <<environment, asked>>

\* What the current query matched is recorded with the event.
Decide ==
    /\ pc = "decide"
    /\ prev' = IF ShouldWrite
                 THEN [query |-> asked, snapshot |-> now, error |-> error]
                 ELSE prev
    /\ EndOfRun

\* A look-up that fails ends the run without an event.
InvestigationFails ==
    /\ pc = "investigate"
    /\ diff.removed # {}
    /\ UNCHANGED prev
    /\ EndOfRun
-----------------------------------------------------------------------------
Run ==
    \/ FetchCurrent
    \/ FetchPrevious
    \/ CalculateDiff
    \/ \E f \in Features : Investigate(f)
    \/ ReconcileHistory
    \/ Decide
    \/ InvestigationFails

Next == Environment \/ Run

Spec == Init /\ [][Next]_vars
-----------------------------------------------------------------------------
(* Safety *)

Matched(snapshot) == {f \in Features : snapshot[f] # None}

\* Features the diff accounts for as gone, and where they went to.
Departed ==
    diff.removed \cup diff.deleted
    \cup {v.from : v \in diff.moves \cup diff.splits}
Arrived == diff.added \cup {v.to : v \in {u \in diff.moves \cup diff.splits : u.match}}

\* As long as the query stays, a diff explains the difference between the
\* recorded state and what it was compared with: no reconciliation of moves and
\* splits, whatever is ingested meanwhile, loses a feature or makes one up.
DiffExplainsChange ==
    pc = "decide" /\ hasTarget /\ error = None /\ ~QueryChanged =>
        (Matched(prev.snapshot) \ Departed) \cup Arrived = Matched(target)

\* No feature appears in a diff twice: what is gone is removed, deleted, moved
\* or split, and what is added is no one's new place.
OneStoryPerFeature ==
    pc = "decide" =>
        LET moved == {v.from : v \in diff.moves}
            split == {v.from : v \in diff.splits}
        IN /\ diff.removed \cap (diff.deleted \cup moved \cup split) = {}
           /\ diff.deleted \cap (moved \cup split) = {}
           /\ moved \cap split = {}
           /\ diff.added \cap {v.to : v \in diff.moves \cup diff.splits} = {}

\* A relocated feature is said to match exactly if the recorded state has it, even
\* when several features went to the same place.
VerdictsAreRecorded ==
    pc = "decide" /\ ~QueryChanged =>
        \A v \in diff.moves \cup diff.splits : v.match <=> now[v.to] # None

\* A run that reports nothing has fetched just what is recorded, errors included.
SilenceMeansNoChange ==
    pc = "decide" /\ ~ShouldWrite =>
        prev = [query |-> asked, snapshot |-> now, error |-> error]

\* Features that matched all along are not reported as added once a query that
\* had failed, and recorded nothing, works again.
RecoveryIsQuiet == pc = "decide" /\ prev.error # None => diff.added = {}
=============================================================================
