---------------------------- MODULE ReportProofs ----------------------------
(***************************************************************************)
(* What a run reports, and what subscribers are told of it, for any        *)
(* features, values and queries, any number of steps of ingestion and      *)
(* users, and any size of a summary.                                       *)
(***************************************************************************)
EXTENDS Report, TLAPS

-----------------------------------------------------------------------------
(* Diffs: Differ *)

\* What a query matches is a snapshot.
LEMMA FetchedType ==
    ASSUME TypeOK, NEW q
    PROVE  FetchFeatures(q) \in Snapshots
  BY DEF TypeOK, FetchFeatures, Snapshots, Entries

\* The reconciled diff has the type of a diff.
LEMMA ReconciledType ==
    ASSUME TypeOK, NEW kind, NEW claim
    PROVE  Relocations(kind, claim) \in SUBSET Verdicts
  <1>1. diff.removed \in SUBSET Features
    BY DEF TypeOK, Diffs
  <1> SUFFICES ASSUME NEW p \in Relocated(kind)
               PROVE  [from |-> p[1], to |-> p[2],
                       match |-> now[p[2]] # None
                                   \/ (p[2] \in diff.added /\ claim[p[2]] = p[1])]
                        \in Verdicts
    BY DEF Relocations
  <1>2. p[1] \in Features /\ p[2] \in Features
    BY <1>1 DEF Relocated
  <1> QED
    BY <1>2 DEF Verdicts

\* The diff with which every run starts and ends is a diff.
LEMMA NoDiffType == NoDiff \in Diffs
  BY DEF NoDiff, Diffs

\* Every entry that ingestion can leave for a feature is an entry.
LEMMA HistoriesType ==
    ASSUME NEW f \in Features
    PROVE  Histories(f) \subseteq Entries
  <1> SUFFICES ASSUME NEW e \in Histories(f) PROVE e \in Entries
    OBVIOUS
  <1>1. CASE e = Gone
    BY <1>1 DEF Gone, Entries
  <1>2. CASE e \in [kind : {"regular"}, value : Values, to : {{}}]
    BY <1>2 DEF Entries
  <1>3. CASE e \in [kind : {"moved"}, value : {None},
                    to : {{g} : g \in Features \ {f}}]
    BY <1>3 DEF Entries
  <1>4. CASE e \in [kind : {"split"}, value : {None},
                    to : (SUBSET (Features \ {f})) \ {{}}]
    BY <1>4 DEF Entries
  <1> QED
    BY <1>1, <1>2, <1>3, <1>4 DEF Histories

\* The initial state is well typed.
LEMMA TypeInit == Init => TypeOK
  <1> SUFFICES ASSUME Init PROVE TypeOK
    OBVIOUS
  <1>1. world \in [Features -> Entries]
    <2>1. {Gone} \cup [kind : {"regular"}, value : Values, to : {{}}] \subseteq Entries
      BY DEF Gone, Entries
    <2> QED
      BY <2>1 DEF Init
  <1>2. NoFeatures \in Snapshots /\ NoFates \in [Features -> Entries]
    BY DEF NoFeatures, Snapshots, NoFates, Unknown, Entries
  <1> QED
    BY <1>1, <1>2, NoDiffType DEF Init, TypeOK, Cold

\* Every step keeps the types.
LEMMA TypeStep == TypeOK /\ [Next]_vars => TypeOK'
  <1> SUFFICES ASSUME TypeOK, [Next]_vars PROVE TypeOK'
    OBVIOUS
  <1>0. NoFeatures \in Snapshots /\ NoFates \in [Features -> Entries]
    BY DEF NoFeatures, Snapshots, NoFates, Unknown, Entries
  <1>1. CASE Environment
    <2>1. world' \in [Features -> Entries] /\ failure' \in [Queries -> Codes \cup {None}]
          /\ query' \in Queries
      <3>1. ASSUME NEW f \in Features, Ingest(f)
            PROVE  world' \in [Features -> Entries] /\ UNCHANGED <<failure, query>>
        BY <3>1, HistoriesType DEF TypeOK, Ingest
      <3>2. ASSUME NEW q \in Queries, EditReferences(q) \/ EditQuery(q)
            PROVE  /\ failure' \in [Queries -> Codes \cup {None}]
                   /\ query' \in Queries
                   /\ UNCHANGED world
        BY <3>2 DEF TypeOK, EditReferences, EditQuery
      <3> QED
        BY <1>1, <3>1, <3>2 DEF TypeOK, Environment
    <2>2. changes' \in Nat
      BY <1>1 DEF TypeOK, Environment
    <2> QED
      BY <1>1, <2>1, <2>2 DEF TypeOK, Environment, fetched, compared
  <1>2. CASE FetchCurrent
    BY <1>2, FetchedType DEF TypeOK, FetchCurrent, environment
  <1>3. CASE FetchPrevious
    BY <1>3, FetchedType DEF TypeOK, FetchPrevious, environment, fetched, compared
  <1>4. CASE CalculateDiff
    <2>1. diff' \in Diffs
      BY <1>4, NoDiffType DEF CalculateDiff, NoDiff, Diffs, Added, Modified
    <2> QED
      BY <1>4, <2>1 DEF TypeOK, CalculateDiff, environment, fetched, compared
  <1>5. ASSUME NEW f \in Features, Investigate(f) PROVE TypeOK'
    BY <1>5 DEF TypeOK, Investigate, environment, fetched, compared
  <1>6. CASE ReconcileHistory
    <2>1. diff' \in Diffs
      <3>1. PICK claim \in Claims :
              diff' = [diff EXCEPT
               !.added = {g \in diff.added : claim[g] = None},
               !.removed = {f \in diff.removed : fate[f].kind = "regular"},
               !.deleted = {f \in diff.removed : fate[f].kind = "gone"},
               !.moves = Relocations("moved", claim),
               !.splits = Relocations("split", claim)]
        BY <1>6 DEF ReconcileHistory
      <3>2. /\ Relocations("moved", claim) \in SUBSET Verdicts
            /\ Relocations("split", claim) \in SUBSET Verdicts
        BY ReconciledType
      <3> QED
        BY <3>1, <3>2 DEF TypeOK, Diffs
    <2> QED
      BY <1>6, <2>1 DEF TypeOK, ReconcileHistory, environment, fetched, compared
  <1>7. CASE Decide
    BY <1>7, <1>0, NoDiffType DEF TypeOK, Decide, EndOfRun, environment
  <1>8. CASE InvestigationFails
    BY <1>8, <1>0, NoDiffType DEF TypeOK, InvestigationFails, EndOfRun, environment
  <1>9. CASE UNCHANGED vars
    BY <1>9 DEF TypeOK, vars, environment, fetched, compared
  <1> QED
    BY <1>1, <1>2, <1>3, <1>4, <1>5, <1>6, <1>7, <1>8, <1>9 DEF Next, Run

\* Types are kept: whatever is ingested and edited between the reads of a run.
THEOREM Typing == Spec => []TypeOK
  <1> QED
    BY TypeInit, TypeStep, PTL DEF Spec
-----------------------------------------------------------------------------
(* The facts the safety properties rest on *)

\* A relocated feature went somewhere.
Placed(e) ==
    /\ e.kind # "unknown"
    /\ e.kind \in {"moved", "split"} => e.to # {}

WorldInv == \A f \in Features : Placed(world[f])

FateInv == \A f \in Features : fate[f] # Unknown => Placed(fate[f])

\* A query that failed has recorded nothing, and matches nothing.
ErrorInv ==
    /\ prev.error # None => prev.snapshot = NoFeatures
    /\ error # None => now = NoFeatures

\* What the recorded state is compared with.
TargetInv ==
    /\ pc = "flush" => QueryChanged /\ ~hasTarget
    /\ pc # "idle" /\ hasTarget /\ ~QueryChanged => target = now
    /\ pc # "idle" /\ hasTarget /\ ~QueryChanged /\ error = None => prev.error = None
    /\ pc \notin {"idle", "flush"} /\ ~hasTarget
           => IsColdStart \/ QueryChanged \/ (prev.error # None /\ error = None)
    /\ pc # "idle" /\ hasTarget => ~IsColdStart

Diffable == hasTarget /\ error = None

\* What the comparison has found, before the look-ups.
ComparedInv ==
    pc = "investigate" =>
        /\ ~Diffable => diff = NoDiff
        /\ Diffable =>
               /\ diff.added = Added(prev.snapshot, target)
               /\ diff.removed = Added(target, prev.snapshot)
               /\ diff.modified = Modified(prev.snapshot, target)

\* What is left of it after the reconciliation.
ReconciledInv ==
    pc = "decide" =>
        /\ Diffable => diff.modified = Modified(prev.snapshot, target)
        /\ DiffExplainsChange
        /\ OneStoryPerFeature
        /\ VerdictsAreRecorded

RunInv == WorldInv /\ FateInv /\ ErrorInv /\ TargetInv /\ ComparedInv /\ ReconciledInv

\* The invariant's parts hold before the first run.
LEMMA RunInit == Init => RunInv
  <1> SUFFICES ASSUME Init PROVE RunInv
    OBVIOUS
  <1>1. WorldInv
    <2> SUFFICES ASSUME NEW f \in Features PROVE Placed(world[f])
      BY DEF WorldInv
    <2>1. world[f] \in {Gone} \cup [kind : {"regular"}, value : Values, to : {{}}]
      BY DEF Init
    <2> QED
      BY <2>1 DEF Placed, Gone
  <1>2. FateInv
    BY DEF Init, FateInv, NoFates
  <1>3. ErrorInv
    BY DEF Init, ErrorInv, Cold
  <1>4. TargetInv /\ ComparedInv /\ ReconciledInv
    BY DEF Init, TargetInv, ComparedInv, ReconciledInv
  <1> QED
    BY <1>1, <1>2, <1>3, <1>4 DEF RunInv

\* Ingestion relocates a feature to somewhere.
LEMMA WorldStep == TypeOK /\ WorldInv /\ [Next]_vars => WorldInv'
  <1> SUFFICES ASSUME TypeOK, WorldInv, [Next]_vars PROVE WorldInv'
    OBVIOUS
  <1>1. ASSUME NEW f \in Features, Ingest(f) PROVE WorldInv'
    <2>1. PICK e \in Histories(f) : world' = [world EXCEPT ![f] = e]
      BY <1>1 DEF Ingest
    <2>2. CASE e = Gone
      BY <2>1, <2>2 DEF TypeOK, WorldInv, Placed, Gone
    <2>3. CASE e \in [kind : {"regular"}, value : Values, to : {{}}]
      BY <2>1, <2>3 DEF TypeOK, WorldInv, Placed
    <2>4. CASE e \in [kind : {"moved"}, value : {None},
                      to : {{g} : g \in Features \ {f}}]
      <3>1. e.kind = "moved" /\ \E g \in Features : e.to = {g}
        BY <2>4
      <3>2. Placed(e)
        BY <3>1 DEF Placed
      <3> QED
        BY <2>1, <3>2 DEF TypeOK, WorldInv
    <2>5. CASE e \in [kind : {"split"}, value : {None},
                      to : (SUBSET (Features \ {f})) \ {{}}]
      <3>1. e.kind = "split" /\ e.to # {}
        BY <2>5
      <3>2. Placed(e)
        BY <3>1 DEF Placed
      <3> QED
        BY <2>1, <3>2 DEF TypeOK, WorldInv
    <2> QED
      BY <2>1, <2>2, <2>3, <2>4, <2>5 DEF Histories
  <1>2. CASE UNCHANGED world
    BY <1>2 DEF WorldInv
  <1>3. (\E f \in Features : Ingest(f)) \/ UNCHANGED world
    BY DEF Next, Environment, EditReferences, EditQuery, Run, FetchCurrent,
           FetchPrevious, CalculateDiff, Investigate, ReconcileHistory, Decide,
           InvestigationFails, EndOfRun, environment, vars
  <1> QED
    BY <1>1, <1>2, <1>3

\* The look-ups answer what ingestion left.
LEMMA FateStep == TypeOK /\ WorldInv /\ FateInv /\ [Next]_vars => FateInv'
  <1> SUFFICES ASSUME TypeOK, WorldInv, FateInv, [Next]_vars PROVE FateInv'
    OBVIOUS
  <1>1. ASSUME NEW f \in Features, Investigate(f) PROVE FateInv'
    BY <1>1 DEF TypeOK, WorldInv, FateInv, Investigate
  <1>2. CASE fate' = NoFates
    BY <1>2 DEF FateInv, NoFates
  <1>3. CASE UNCHANGED fate
    BY <1>3 DEF FateInv
  <1>4. (\E f \in Features : Investigate(f)) \/ fate' = NoFates \/ UNCHANGED fate
    BY DEF Next, Environment, Run, FetchCurrent, FetchPrevious, CalculateDiff,
           ReconcileHistory, Decide, InvestigationFails, EndOfRun, vars
  <1> QED
    BY <1>1, <1>2, <1>3, <1>4

\* A query that fails is fetched, and recorded, as one that matches nothing.
LEMMA ErrorStep == ErrorInv /\ [Next]_vars => ErrorInv'
  <1> SUFFICES ASSUME ErrorInv, [Next]_vars PROVE ErrorInv'
    OBVIOUS
  <1>1. CASE FetchCurrent
    BY <1>1 DEF ErrorInv, FetchCurrent, FetchFeatures, NoFeatures
  <1>2. CASE Decide
    BY <1>2 DEF ErrorInv, Decide, EndOfRun
  <1>3. CASE InvestigationFails
    BY <1>3 DEF ErrorInv, InvestigationFails, EndOfRun
  <1>4. CASE UNCHANGED <<prev, fetched>>
    BY <1>4 DEF ErrorInv, fetched
  <1>5. FetchCurrent \/ Decide \/ InvestigationFails \/ UNCHANGED <<prev, fetched>>
    BY DEF Next, Environment, Run, FetchPrevious, CalculateDiff, Investigate,
           ReconcileHistory, vars
  <1> QED
    BY <1>1, <1>2, <1>3, <1>4, <1>5

\* The target is what the run's query matched, unless the query has changed.
LEMMA TargetStep == TypeOK /\ TargetInv /\ [Next]_vars => TargetInv'
  <1> SUFFICES ASSUME TypeOK, TargetInv, [Next]_vars PROVE TargetInv'
    OBVIOUS
  <1>1. CASE FetchCurrent
    <2>1. query # None /\ prev' = prev
      BY <1>1, NoneAssumption DEF TypeOK, FetchCurrent
    <2> QED
      BY <1>1, <2>1 DEF TargetInv, FetchCurrent, QueryChanged, IsColdStart
  <1>2. CASE FetchPrevious
    BY <1>2 DEF TargetInv, FetchPrevious, QueryChanged, IsColdStart, compared, fetched
  <1>3. CASE pc' = "idle"
    BY <1>3 DEF TargetInv
  <1>4. CASE /\ UNCHANGED <<prev, fetched, compared>>
             /\ pc' = pc \/ (pc \notin {"idle", "flush"} /\ pc' \notin {"idle", "flush"})
    BY <1>4 DEF TargetInv, QueryChanged, IsColdStart, fetched, compared
  <1>5. \/ FetchCurrent \/ FetchPrevious \/ pc' = "idle"
        \/ /\ UNCHANGED <<prev, fetched, compared>>
           /\ pc' = pc \/ (pc \notin {"idle", "flush"} /\ pc' \notin {"idle", "flush"})
    BY DEF Next, Environment, Run, CalculateDiff, Investigate, ReconcileHistory,
           Decide, InvestigationFails, EndOfRun, vars
  <1> QED
    BY <1>1, <1>2, <1>3, <1>4, <1>5

\* The look-ups leave what the comparison found.
LEMMA ComparedStep == ComparedInv /\ [Next]_vars => ComparedInv'
  <1> SUFFICES ASSUME ComparedInv, [Next]_vars PROVE ComparedInv'
    OBVIOUS
  <1>1. CASE CalculateDiff
    BY <1>1 DEF ComparedInv, CalculateDiff, Diffable, NoDiff, Added, Modified,
                fetched, compared
  <1>2. CASE pc' # "investigate"
    BY <1>2 DEF ComparedInv
  <1>3. CASE UNCHANGED <<prev, pc, fetched, compared, diff>>
    BY <1>3 DEF ComparedInv, Diffable, Added, Modified, fetched, compared
  <1>4. CalculateDiff \/ pc' # "investigate"
        \/ UNCHANGED <<prev, pc, fetched, compared, diff>>
    BY DEF Next, Environment, Run, FetchCurrent, FetchPrevious, Investigate,
           ReconcileHistory, Decide, InvestigationFails, EndOfRun, vars
  <1> QED
    BY <1>1, <1>2, <1>3, <1>4
-----------------------------------------------------------------------------
(* ReconcileHistory *)

\* The verdicts of one way of being relocated are about removed features that
\* went that way...
LEMMA RelocationsAre ==
    ASSUME NEW kind, NEW claim, NEW v \in Relocations(kind, claim)
    PROVE  /\ v.from \in diff.removed /\ fate[v.from].kind = kind
           /\ v.to \in Features /\ v.to \in fate[v.from].to
           /\ v.match <=> \/ now[v.to] # None
                          \/ v.to \in diff.added /\ claim[v.to] = v.from
  <1>1. PICK p \in Relocated(kind) :
          v = [from |-> p[1], to |-> p[2],
               match |-> now[p[2]] # None
                           \/ (p[2] \in diff.added /\ claim[p[2]] = p[1])]
    BY DEF Relocations
  <1>2. /\ p[1] \in diff.removed /\ fate[p[1]].kind = kind
        /\ p[2] \in Features /\ p[2] \in fate[p[1]].to
    BY DEF Relocated
  <1> QED
    BY <1>1, <1>2

\* ...and there is one for each of their places.
LEMMA RelocationsHave ==
    ASSUME NEW kind, NEW claim, NEW f \in diff.removed, NEW g \in Features,
           fate[f].kind = kind, g \in fate[f].to
    PROVE  \E v \in Relocations(kind, claim) :
             /\ v.from = f /\ v.to = g
             /\ v.match <=> \/ now[g] # None
                            \/ g \in diff.added /\ claim[g] = f
  <1> DEFINE v == [from |-> f, to |-> g,
                   match |-> now[g] # None \/ (g \in diff.added /\ claim[g] = f)]
  <1>1. <<f, g>> \in Relocated(kind)
    BY DEF Relocated
  <1>2. v \in Relocations(kind, claim)
    BY <1>1 DEF Relocations
  <1> QED
    BY <1>2

\* The claims that the code can make: none only for features no one went to.
LEMMA ClaimsAre ==
    ASSUME TypeOK, NEW claim \in Claims, NEW g \in diff.added
    PROVE  /\ claim[g] # None
                => /\ claim[g] \in diff.removed
                   /\ fate[claim[g]].kind \in {"moved", "split"}
                   /\ g \in fate[claim[g]].to
           /\ claim[g] = None
                => \A f \in diff.removed :
                       fate[f].kind \in {"moved", "split"} => g \notin fate[f].to
  <1>1. IF Claimants(g) = {} THEN claim[g] = None ELSE claim[g] \in Claimants(g)
    BY DEF Claims
  <1>2. \A f \in Claimants(g) : f \in diff.removed /\ f # None
    BY NoneAssumption DEF TypeOK, Diffs, Claimants, Sources
  <1>3. ASSUME claim[g] # None
        PROVE  /\ claim[g] \in diff.removed
               /\ fate[claim[g]].kind \in {"moved", "split"}
               /\ g \in fate[claim[g]].to
    BY <1>1, <1>3 DEF Claimants, Sources
  <1>4. ASSUME claim[g] = None, NEW f \in diff.removed,
               fate[f].kind \in {"moved", "split"}
        PROVE  g \notin fate[f].to
    <2>1. Claimants(g) = {}
      BY <1>1, <1>2, <1>4
    <2>2. f \notin Sources("moved", g) /\ f \notin Sources("split", g)
      BY <2>1 DEF Claimants
    <2> QED
      BY <1>4, <2>2 DEF Sources
  <1> QED
    BY <1>3, <1>4

\* Reconciliation accounts for every feature that came or went, once.
LEMMA Reconciliation ==
    TypeOK /\ FateInv /\ TargetInv /\ ComparedInv /\ ReconcileHistory => ReconciledInv'
  <1> SUFFICES ASSUME TypeOK, FateInv, TargetInv, ComparedInv, ReconcileHistory
               PROVE  ReconciledInv'
    OBVIOUS
  <1>1. PICK claim \in Claims :
          diff' = [diff EXCEPT
               !.added = {g \in diff.added : claim[g] = None},
               !.removed = {f \in diff.removed : fate[f].kind = "regular"},
               !.deleted = {f \in diff.removed : fate[f].kind = "gone"},
               !.moves = Relocations("moved", claim),
               !.splits = Relocations("split", claim)]
    BY DEF ReconcileHistory
  <1> DEFINE M == Relocations("moved", claim)
             S == Relocations("split", claim)
             A == diff.added
             R == diff.removed
  <1>2. /\ diff'.added = {g \in A : claim[g] = None}
        /\ diff'.removed = {f \in R : fate[f].kind = "regular"}
        /\ diff'.deleted = {f \in R : fate[f].kind = "gone"}
        /\ diff'.modified = diff.modified
        /\ diff'.moves = M /\ diff'.splits = S
    BY <1>1 DEF TypeOK, Diffs
  <1>3. /\ pc = "investigate"
        /\ UNCHANGED <<prev, asked, now, error, target, hasTarget>>
    BY DEF ReconcileHistory, fetched, compared
  <1>4. A \subseteq Features /\ R \subseteq Features
    BY DEF TypeOK, Diffs
  <1>5. \A f \in R :
          /\ fate[f].kind \in {"regular", "gone", "moved", "split"}
          /\ fate[f].kind \in {"moved", "split"}
               => fate[f].to # {} /\ fate[f].to \subseteq Features
    BY <1>4 DEF TypeOK, Entries, ReconcileHistory, FateInv, Placed
  <1>6. \A v \in M \cup S :
          /\ v.from \in R /\ fate[v.from].kind \in {"moved", "split"}
          /\ v.to \in Features /\ v.to \in fate[v.from].to
          /\ v.match <=> (now[v.to] # None \/ (v.to \in A /\ claim[v.to] = v.from))
    BY RelocationsAre
  <1>7. \A f \in R : \A g \in fate[f].to : fate[f].kind \in {"moved", "split"} =>
          \E v \in M \cup S :
             /\ v.from = f /\ v.to = g
             /\ v.match <=> (now[g] # None \/ (g \in A /\ claim[g] = f))
    BY <1>5, RelocationsHave
  <1>8. OneStoryPerFeature'
    <2>1. \A v \in M : fate[v.from].kind = "moved"
      BY RelocationsAre
    <2>2. \A v \in S : fate[v.from].kind = "split"
      BY RelocationsAre
    <2>3. \A v \in M \cup S : v.to \notin diff'.added
      BY <1>2, <1>6, ClaimsAre
    <2> QED
      BY <1>2, <2>1, <2>2, <2>3 DEF OneStoryPerFeature
  <1>9. ASSUME ~QueryChanged, NEW v \in M \cup S PROVE v.match <=> now[v.to] # None
    <2>1. ASSUME v.to \in A PROVE now[v.to] # None
      <3>1. Diffable
        BY <1>3, <2>1 DEF ComparedInv, NoDiff
      <3>2. target = now
        BY <1>3, <1>9, <3>1 DEF TargetInv, Diffable
      <3> QED
        BY <1>3, <2>1, <3>1, <3>2 DEF ComparedInv, Added
    <2> QED
      BY <1>6, <2>1
  <1>10. VerdictsAreRecorded'
    BY <1>2, <1>3, <1>9 DEF VerdictsAreRecorded, QueryChanged, IsColdStart
  <1>11. ASSUME Diffable, ~QueryChanged
         PROVE  (Matched(prev.snapshot) \ Departed') \cup Arrived' = Matched(target)
    <2>1. A = Added(prev.snapshot, target) /\ R = Added(target, prev.snapshot)
      BY <1>3, <1>11 DEF ComparedInv
    <2>2. target = now
      BY <1>3, <1>11 DEF TargetInv, Diffable
    <2>3. Departed' = R
      <3>1. Departed' \subseteq R
        BY <1>2, <1>6 DEF Departed
      <3>2. ASSUME NEW f \in R PROVE f \in Departed'
        <4>1. CASE fate[f].kind \in {"regular", "gone"}
          BY <1>2, <4>1 DEF Departed
        <4>2. CASE fate[f].kind \in {"moved", "split"}
          <5>1. PICK g \in fate[f].to : TRUE
            BY <1>5, <4>2
          <5>2. \E v \in M \cup S : v.from = f
            BY <1>7, <4>2, <5>1
          <5> QED
            BY <1>2, <5>2 DEF Departed
        <4> QED
          BY <1>5, <4>1, <4>2
      <3> QED
        BY <3>1, <3>2
    <2>4. Arrived' \subseteq Matched(target)
      <3>1. A \subseteq Matched(target)
        BY <2>1 DEF Added, Matched
      <3>2. \A v \in M \cup S : v.match => v.to \in Matched(target)
        BY <1>6, <1>9, <1>11, <2>2 DEF Matched
      <3> QED
        BY <1>2, <3>1, <3>2 DEF Arrived
    <2>5. A \subseteq Arrived'
      <3> SUFFICES ASSUME NEW g \in A PROVE g \in Arrived'
        OBVIOUS
      <3>1. CASE claim[g] = None
        BY <1>2, <3>1 DEF Arrived
      <3>2. CASE claim[g] # None
        <4>1. /\ claim[g] \in R /\ g \in fate[claim[g]].to
              /\ fate[claim[g]].kind \in {"moved", "split"}
          BY <3>2, ClaimsAre
        <4>2. \E v \in M \cup S : v.to = g /\ v.match
          BY <1>7, <4>1
        <4> QED
          BY <1>2, <4>2 DEF Arrived
      <3> QED
        BY <3>1, <3>2
    <2> QED
      BY <2>1, <2>3, <2>4, <2>5 DEF Added, Matched
  <1>12. DiffExplainsChange'
    <2> SUFFICES ASSUME Diffable, ~QueryChanged
                 PROVE  (Matched(prev.snapshot) \ Departed') \cup Arrived' = Matched(target)
      BY <1>3 DEF DiffExplainsChange, Diffable, QueryChanged, IsColdStart, Matched
    <2> QED
      BY <1>11
  <1>13. Diffable' => diff'.modified = Modified(prev'.snapshot, target')
    BY <1>2, <1>3 DEF ComparedInv, Diffable
  <1> QED
    BY <1>8, <1>10, <1>12, <1>13 DEF ReconciledInv, Modified

\* The diff that is decided upon is the reconciled one, and what it was compared
\* with stays until the run ends.
LEMMA ReconciledStep ==
    /\ TypeOK /\ FateInv /\ TargetInv /\ ComparedInv /\ ReconciledInv
    /\ [Next]_vars
    => ReconciledInv'
  <1> SUFFICES ASSUME TypeOK, FateInv, TargetInv, ComparedInv, ReconciledInv,
                      [Next]_vars
               PROVE  ReconciledInv'
    OBVIOUS
  <1>1. CASE ReconcileHistory
    BY <1>1, Reconciliation
  <1>2. CASE pc' # "decide"
    BY <1>2 DEF ReconciledInv
  <1>3. CASE UNCHANGED <<prev, pc, fetched, compared, diff>>
    BY <1>3 DEF ReconciledInv, Diffable, Modified, DiffExplainsChange, Matched,
                Departed, Arrived, OneStoryPerFeature, VerdictsAreRecorded,
                QueryChanged, IsColdStart, fetched, compared
  <1>4. ReconcileHistory \/ pc' # "decide"
        \/ UNCHANGED <<prev, pc, fetched, compared, diff>>
    BY DEF Next, Environment, Run, FetchCurrent, FetchPrevious, CalculateDiff,
           Investigate, Decide, InvestigationFails, EndOfRun, vars
  <1> QED
    BY <1>1, <1>2, <1>3, <1>4

\* The invariant holds of every run.
LEMMA RunInvariance == Spec => [](TypeOK /\ RunInv)
  <1>1. TypeOK /\ RunInv /\ [Next]_vars => (TypeOK /\ RunInv)'
    BY TypeStep, WorldStep, FateStep, ErrorStep, TargetStep, ComparedStep,
       ReconciledStep DEF RunInv
  <1> QED
    BY TypeInit, RunInit, <1>1, PTL DEF Spec
-----------------------------------------------------------------------------
(* The safety properties *)

\* A diff accounts for the difference between the recorded state and what it was
\* compared with, whatever became of the features between the reads.
THEOREM DiffExplainsChangeHolds == Spec => []DiffExplainsChange
  <1>1. RunInv => DiffExplainsChange
    BY DEF RunInv, ReconciledInv, DiffExplainsChange
  <1> QED
    BY RunInvariance, <1>1, PTL

\* A diff tells one story of a feature.
THEOREM OneStoryPerFeatureHolds == Spec => []OneStoryPerFeature
  <1>1. RunInv => OneStoryPerFeature
    BY DEF RunInv, ReconciledInv, OneStoryPerFeature
  <1> QED
    BY RunInvariance, <1>1, PTL

\* Where a relocated feature is said to match, it is recorded to match.
THEOREM VerdictsAreRecordedHolds == Spec => []VerdictsAreRecorded
  <1>1. RunInv => VerdictsAreRecorded
    BY DEF RunInv, ReconciledInv, VerdictsAreRecorded
  <1> QED
    BY RunInvariance, <1>1, PTL

\* A run that reports nothing has fetched what is recorded.
THEOREM SilenceMeansNoChangeHolds == Spec => []SilenceMeansNoChange
  <1>1. TypeOK /\ RunInv => SilenceMeansNoChange
    <2> SUFFICES ASSUME TypeOK, RunInv, pc = "decide", ~ShouldWrite
                 PROVE  prev = [query |-> asked, snapshot |-> now, error |-> error]
      BY DEF SilenceMeansNoChange
    <2>1. ~HasDataChanges /\ ~IsColdStart /\ ~QueryChanged /\ error = prev.error
      BY DEF ShouldWrite
    <2>2. prev.query = asked
      BY <2>1 DEF QueryChanged
    <2>3. hasTarget
      BY <2>1 DEF RunInv, TargetInv
    <2>4. CASE error = None
      <3>1. target = now
        BY <2>1, <2>3 DEF RunInv, TargetInv
      <3>2. Departed = {} /\ Arrived = {}
        BY <2>1 DEF HasDataChanges, Departed, Arrived
      <3>3. Matched(prev.snapshot) = Matched(target)
        BY <2>1, <2>3, <2>4, <3>2 DEF RunInv, ReconciledInv, DiffExplainsChange
      <3>4. Modified(prev.snapshot, target) = {}
        BY <2>1, <2>3, <2>4 DEF RunInv, ReconciledInv, Diffable, HasDataChanges
      <3>5. prev.snapshot \in Snapshots /\ target \in Snapshots
        BY DEF TypeOK
      <3>6. \A f \in Features : prev.snapshot[f] = target[f]
        BY <3>3, <3>4 DEF Matched, Modified
      <3>7. prev.snapshot = target
        BY <3>5, <3>6 DEF Snapshots
      <3> QED
        BY <2>1, <2>2, <3>1, <3>7 DEF TypeOK
    <2>5. CASE error # None
      <3>1. prev.snapshot = NoFeatures /\ now = NoFeatures
        BY <2>1, <2>5 DEF RunInv, ErrorInv
      <3> QED
        BY <2>1, <2>2, <3>1 DEF TypeOK
    <2> QED
      BY <2>4, <2>5
  <1> QED
    BY RunInvariance, <1>1, PTL
-----------------------------------------------------------------------------
(***************************************************************************)
(* Summaries and their readers: Report                                     *)
(***************************************************************************)

(* What the look-ups of a run have found *)

\* Just the regular features have a value.
Valued(e) == e.kind = "regular" <=> e.value # None

ValuedInv == \A f \in Features : Valued(world[f]) /\ Valued(fate[f])

\* Look-ups are of removed features, which were recorded; the regular ones stay removed.
\* Nothing is removed or modified unless there was something to compare with.
LookupInv ==
    /\ pc \in {"idle", "flush", "compare"} => fate = NoFates
    /\ pc = "investigate" =>
           \A f \in Features : fate[f] # Unknown => f \in diff.removed
    /\ pc = "decide" =>
           \A f \in Features : fate[f].kind = "regular" <=> f \in diff.removed
    /\ pc \in {"investigate", "decide"} =>
           /\ \A f \in diff.removed : prev.snapshot[f] # None
           /\ ~Diffable => diff.removed = {} /\ diff.modified = {}

LEMMA LookupInit == Init => ValuedInv /\ LookupInv
  <1> SUFFICES ASSUME Init PROVE ValuedInv /\ LookupInv
    OBVIOUS
  <1>1. ValuedInv
    <2> SUFFICES ASSUME NEW f \in Features PROVE Valued(world[f]) /\ Valued(fate[f])
      BY DEF ValuedInv
    <2>1. world[f] \in {Gone} \cup [kind : {"regular"}, value : Values, to : {{}}]
      BY DEF Init
    <2> QED
      BY <2>1, NoneAssumption DEF Init, Valued, Gone, NoFates, Unknown
  <1> QED
    BY <1>1 DEF Init, LookupInv

\* Ingestion leaves a value just with the regular features.
LEMMA HistoriesValued ==
    ASSUME NEW f \in Features, NEW e \in Histories(f)
    PROVE  Valued(e)
  BY NoneAssumption DEF Histories, Valued, Gone

LEMMA ValuedStep == TypeOK /\ ValuedInv /\ [Next]_vars => ValuedInv'
  <1> SUFFICES ASSUME TypeOK, ValuedInv, [Next]_vars PROVE ValuedInv'
    OBVIOUS
  <1>1. CASE Environment
    <2>1. ASSUME NEW f \in Features, Ingest(f) PROVE ValuedInv'
      <3>1. PICK e \in Histories(f) : world' = [world EXCEPT ![f] = e]
        BY <2>1 DEF Ingest
      <3> QED
        BY <1>1, <3>1, HistoriesValued DEF ValuedInv, TypeOK, Environment
    <2>2. ASSUME NEW q \in Queries, EditReferences(q) \/ EditQuery(q) PROVE ValuedInv'
      BY <1>1, <2>2 DEF ValuedInv, Environment, EditReferences, EditQuery
    <2> QED
      BY <1>1, <2>1, <2>2 DEF Environment
  <1>2. ASSUME NEW f \in Features, Investigate(f) PROVE ValuedInv'
    BY <1>2 DEF ValuedInv, TypeOK, Investigate, environment
  <1>3. CASE EndOfRun
    BY <1>3 DEF ValuedInv, Valued, EndOfRun, environment, NoFates, Unknown
  <1>4. CASE UNCHANGED <<world, fate>>
    BY <1>4 DEF ValuedInv
  <1> QED
    BY <1>1, <1>2, <1>3, <1>4 DEF Next, Run, FetchCurrent, FetchPrevious, CalculateDiff,
       ReconcileHistory, Decide, InvestigationFails, vars, environment

LEMMA LookupStep == TypeOK /\ RunInv /\ LookupInv /\ [Next]_vars => LookupInv'
  <1> SUFFICES ASSUME TypeOK, RunInv, LookupInv, [Next]_vars PROVE LookupInv'
    OBVIOUS
  <1>1. CASE Environment \/ UNCHANGED vars
    BY <1>1 DEF LookupInv, Environment, vars, Diffable, compared, fetched
  <1>2. CASE FetchCurrent \/ FetchPrevious
    BY <1>2 DEF LookupInv, FetchCurrent, FetchPrevious
  <1>3. CASE CalculateDiff
    BY <1>3 DEF LookupInv, CalculateDiff, NoFates, NoDiff, Added, Diffable, compared, fetched
  <1>4. ASSUME NEW f \in Features, Investigate(f) PROVE LookupInv'
    BY <1>4 DEF LookupInv, TypeOK, Investigate, Diffable, compared, fetched
  <1>5. CASE ReconcileHistory
    <2>1. PICK claim \in Claims :
            diff' = [diff EXCEPT
             !.added = {g \in diff.added : claim[g] = None},
             !.removed = {f \in diff.removed : fate[f].kind = "regular"},
             !.deleted = {f \in diff.removed : fate[f].kind = "gone"},
             !.moves = Relocations("moved", claim),
             !.splits = Relocations("split", claim)]
      BY <1>5 DEF ReconcileHistory
    <2>2. /\ diff'.removed = {f \in diff.removed : fate[f].kind = "regular"}
          /\ diff'.modified = diff.modified
      BY <2>1 DEF TypeOK, Diffs
    <2>3. \A f \in Features : fate[f].kind = "regular" => f \in diff.removed
      BY <1>5 DEF LookupInv, ReconcileHistory, Unknown
    <2> QED
      BY <1>5, <2>2, <2>3 DEF LookupInv, ReconcileHistory, TypeOK, Diffs, Diffable, compared, fetched
  <1>6. CASE EndOfRun
    BY <1>6 DEF LookupInv, EndOfRun
  <1> QED
    BY <1>1, <1>2, <1>3, <1>4, <1>5, <1>6 DEF Next, Run, Decide, InvestigationFails

ReportInv == TypeOK /\ RunInv /\ ValuedInv /\ LookupInv

\* The look-ups' facts hold of every run.
LEMMA ReportInvariance == Spec => []ReportInv
  <1>1. Init => ValuedInv /\ LookupInv
    BY LookupInit
  <1>2. (TypeOK /\ RunInv) /\ (ValuedInv /\ LookupInv) /\ [Next]_vars
          => (ValuedInv /\ LookupInv)'
    BY ValuedStep, LookupStep
  <1> QED
    BY RunInvariance, <1>1, <1>2, PTL DEF Spec, ReportInv
-----------------------------------------------------------------------------
(* Highlights *)

\* A change that matches a trigger is one of the baseline status or of a browser.
LEMMA TriggersAreChanges ==
    ASSUME NEW h, NEW t, MatchesTrigger(h, t)
    PROVE  \/ h.change.baseline \in Statuses
           \/ \E b \in DOMAIN h.change.browsers : h.change.browsers[b].to \in Releases
  BY DEF MatchesTrigger, Statuses

\* Every highlight belongs to one of the sections.
LEMMA HighlightsAreRanked ==
    ASSUME NEW h \in Highlights
    PROVE  h.kind \in DOMAIN Rank /\ Category(h) \in DOMAIN Rank
  <1>1. h.kind \in {"Changed", "Added", "Removed", "Deleted", "Moved", "Split"}
    BY DEF Highlights, ProcessModified, Plain, ProcessRemoved, ProcessMoves,
           ProcessSplits, Highlight
  <1>2. DOMAIN Rank = {"Changed", "Added", "Removed", "Deleted", "Moved", "Split"}
    BY DEF Rank
  <1> QED
    BY <1>1, <1>2 DEF Category

\* The highlights of a removed or modified feature compare two values.
LEMMA ComparedValues ==
    ASSUME ReportInv, pc = "decide"
    PROVE  /\ \A f \in diff.removed : prev.snapshot[f] \in Values /\ fate[f].value \in Values
           /\ \A f \in diff.modified : prev.snapshot[f] \in Values /\ target[f] \in Values
  <1>1. /\ diff.removed \subseteq Features
        /\ \A f \in Features : /\ prev.snapshot[f] \in Values \cup {None}
                              /\ target[f] \in Values \cup {None}
                              /\ fate[f].value \in Values \cup {None}
    BY DEF ReportInv, TypeOK, Diffs, Snapshots, Entries
  <1>2. diff.modified \subseteq Modified(prev.snapshot, target)
    BY DEF ReportInv, RunInv, ReconciledInv, LookupInv
  <1>3. \A f \in diff.removed : prev.snapshot[f] # None /\ fate[f].value # None
    BY <1>1 DEF ReportInv, LookupInv, ValuedInv, Valued
  <1> QED
    BY <1>1, <1>2, <1>3 DEF Modified

\* What is told of a changed feature is told under a section of its own.
Told(h) ==
    \/ h.change.baseline \in Statuses
    \/ \E b \in DOMAIN h.change.browsers : h.change.browsers[b].to # "unset"

\* A line of a section names the features of its highlights.
LEMMA LinesTell ==
    ASSUME NEW section, NEW S, NEW h \in S
    PROVE  <<section, h.feature>> \in Lines(section, S)
  BY DEF Lines

\* Grouping leaves out no browser.
LEMMA GroupsCover ==
    ASSUME NEW impls, NEW b \in DOMAIN impls
    PROVE  \E g \in GroupBrowserChanges(impls) : b \in g.browsers
  <1> DEFINE together == {p \in Pairs : /\ {p.desktop, p.mobile} \subseteq DOMAIN impls
                                        /\ Agree(impls[p.desktop], impls[p.mobile])}
             alone == DOMAIN impls \ UNION {{p.desktop, p.mobile} : p \in together}
  <1>1. CASE b \in alone
    <2>1. [browsers |-> {b}, change |-> impls[b]] \in GroupBrowserChanges(impls)
      BY <1>1 DEF GroupBrowserChanges
    <2> QED
      BY <2>1
  <1>2. CASE b \notin alone
    <2>1. PICK p \in together : b \in {p.desktop, p.mobile}
      BY <1>2
    <2>2. [browsers |-> {p.desktop, p.mobile}, change |-> impls[p.desktop]]
            \in GroupBrowserChanges(impls)
      BY DEF GroupBrowserChanges
    <2> QED
      BY <2>1, <2>2
  <1> QED
    BY <1>1, <1>2

\* A categorized highlight is in the feed, in the mail and in the Slack message.
LEMMA ReadersTell ==
    ASSUME NEW S, NEW ts, NEW h \in FilterHighlights(S, ts),
           Category(h) \in DOMAIN Rank
    PROVE  /\ Tells(RSSItem(S, ts), h.feature)
           /\ Category(h) # "Changed" \/ Told(h) =>
                  /\ Tells(EmailDigest(S, ts), h.feature)
                  /\ Tells(SlackPayload(S, ts), h.feature)
  <1>1. h \in Categorized(S, ts, Category(h))
    BY DEF Categorized
  <1>2. <<Category(h), h.feature>> \in Lines(Category(h), Categorized(S, ts, Category(h)))
    BY <1>1, LinesTell
  <1>3. Tells(RSSItem(S, ts), h.feature)
    <2>1. <<Category(h), h.feature>> \in RSSItem(S, ts)
      BY <1>2 DEF RSSItem
    <2> QED
      BY <2>1 DEF Tells
  <1>4. CASE Category(h) # "Changed"
    <2>1. <<Category(h), h.feature>> \in Listed(S, ts)
      BY <1>2, <1>4 DEF Listed
    <2>2. /\ <<Category(h), h.feature>> \in EmailDigest(S, ts)
          /\ <<Category(h), h.feature>> \in SlackPayload(S, ts)
      BY <2>1 DEF EmailDigest, SlackPayload
    <2> QED
      BY <1>3, <2>2 DEF Tells
  <1>5. CASE Category(h) = "Changed" /\ h.change.baseline \in Statuses
    <2> DEFINE s == h.change.baseline
               changed == Categorized(S, ts, "Changed")
    <2>1. <<s, h.feature>> \in Lines(s, {k \in changed : k.change.baseline = s})
      BY <1>1, <1>5, LinesTell
    <2>2. <<s, h.feature>> \in BaselineLines(changed)
      BY <1>5, <2>1 DEF BaselineLines
    <2>3. <<s, h.feature>> \in EmailDigest(S, ts) /\ <<s, h.feature>> \in SlackPayload(S, ts)
      BY <2>2 DEF EmailDigest, SlackPayload
    <2> QED
      BY <1>3, <2>3 DEF Tells
  <1>6. CASE /\ Category(h) = "Changed"
             /\ \E b \in DOMAIN h.change.browsers : h.change.browsers[b].to # "unset"
    <2> DEFINE changed == Categorized(S, ts, "Changed")
               News(k) == {b \in DOMAIN k.change.browsers : k.change.browsers[b].to # "unset"}
    <2>1. h \in {k \in changed : News(k) # {}}
      BY <1>1, <1>6
    <2>2. h \in {k \in changed : GroupBrowserChanges(k.change.browsers) # {}}
      BY <1>1, <1>6, GroupsCover
    <2>3. /\ <<"browsers", h.feature>> \in Lines("browsers", {k \in changed : News(k) # {}})
          /\ <<"browsers", h.feature>> \in
                 Lines("browsers", {k \in changed : GroupBrowserChanges(k.change.browsers) # {}})
      BY <2>1, <2>2, LinesTell
    <2>4. /\ <<"browsers", h.feature>> \in EmailDigest(S, ts)
          /\ <<"browsers", h.feature>> \in SlackPayload(S, ts)
      BY <2>3 DEF EmailDigest, SlackPayload
    <2> QED
      BY <1>3, <2>4 DEF Tells
  <1> QED
    BY <1>3, <1>4, <1>5, <1>6 DEF Told
-----------------------------------------------------------------------------
(* The theorems *)

\* A highlight that is not minor is told of, and so is one that matches a trigger.
LEMMA MajorChangesAreTold ==
    ASSUME ReportInv, pc = "decide", NEW h \in Highlights, Category(h) = "Changed",
           ~Minor(h) \/ \E t : MatchesTrigger(h, t)
    PROVE  Told(h)
  <1>1. h.change.baseline \in Statuses \cup {None}
    <2>1. ASSUME NEW v \in Values, NEW w \in Values
          PROVE  CompareFeature(v, w).baseline \in Statuses \cup {None}
      BY <2>1, ValuesAssumption DEF CompareFeature, CompareBaseline
    <2>2. CASE h \in ProcessModified \cup ProcessRemoved
      <3>1. PICK f : \/ /\ f \in diff.modified
                        /\ h = Highlight("Changed", f, f,
                                         CompareFeature(prev.snapshot[f], target[f]))
                     \/ /\ f \in diff.removed
                        /\ h = Highlight("Removed", f, f,
                                         CompareFeature(prev.snapshot[f], fate[f].value))
        BY <2>2 DEF ProcessModified, ProcessRemoved
      <3> QED
        BY <3>1, <2>1, ComparedValues DEF Highlight
    <2>3. CASE h \notin ProcessModified \cup ProcessRemoved
      BY <2>3 DEF Highlights, Plain, ProcessMoves, ProcessSplits, Highlight, NoChange
    <2> QED
      BY <2>2, <2>3
  <1>2. CASE ~Minor(h)
    BY <1>1, <1>2 DEF Minor, Told
  <1>3. CASE \E t : MatchesTrigger(h, t)
    BY <1>3, TriggersAreChanges, StatesAssumption DEF Told
  <1> QED
    BY <1>2, <1>3

\* The readers of a summary agree, for every summary that fits and all triggers.
THEOREM ReadersAgreeHolds == Spec => []ReadersAgree
  <1>1. ReportInv => ReadersAgree
    <2> SUFFICES ASSUME ReportInv, pc = "decide", NEW S \in Summaries,
                        NEW ts \in SUBSET Triggers
                 PROVE  /\ ShouldNotify(S, ts) <=> RSSShown(S, ts)
                        /\ \A h \in FilterHighlights(S, ts) :
                               /\ Tells(RSSItem(S, ts), h.feature)
                               /\ ts # {} \/ ~Minor(h) =>
                                      /\ Tells(EmailDigest(S, ts), h.feature)
                                      /\ Tells(SlackPayload(S, ts), h.feature)
      BY DEF ReadersAgree, AtDecision
    <2>1. ASSUME NEW kind
          PROVE  Categorized(S, ts, kind) # {} <=> Lines(kind, Categorized(S, ts, kind)) # {}
      BY DEF Lines
    <2>2. (\E kind \in DOMAIN Rank : Categorized(S, ts, kind) # {})
            <=> RSSItem(S, ts) # {}
      BY <2>1 DEF RSSItem
    <2>3. ShouldNotify(S, ts) <=> RSSShown(S, ts)
      BY <2>2 DEF ShouldNotify, HasContent, RSSShown
    <2>4. S \subseteq Highlights
      BY DEF Summaries
    <2>5. ASSUME NEW h \in FilterHighlights(S, ts)
          PROVE  /\ Tells(RSSItem(S, ts), h.feature)
                 /\ ts # {} \/ ~Minor(h) =>
                        /\ Tells(EmailDigest(S, ts), h.feature)
                        /\ Tells(SlackPayload(S, ts), h.feature)
      <3>1. h \in Highlights
        BY <2>4 DEF FilterHighlights
      <3>2. Category(h) \in DOMAIN Rank
        BY <3>1, HighlightsAreRanked
      <3>3. ts # {} => \E t : MatchesTrigger(h, t)
        BY DEF FilterHighlights
      <3>4. (ts # {} \/ ~Minor(h)) /\ Category(h) = "Changed" => Told(h)
        BY <3>1, <3>3, MajorChangesAreTold
      <3> QED
        BY <3>2, <3>4, ReadersTell
    <2> QED
      BY <2>3, <2>5
  <1> QED
    BY ReportInvariance, <1>1, PTL

\* Whoever subscribes to a kind of change hears of every such change of a recorded
\* feature that still matches or has left the search.
THEOREM ChangesReachSubscribersHolds == Spec => []ChangesReachSubscribers
  <1>1. ReportInv => ChangesReachSubscribers
    <2> SUFFICES ASSUME ReportInv, pc = "decide", hasTarget, error = None,
                        NEW f \in Matched(prev.snapshot), Observed(f) # None,
                        NEW t \in Triggers,
                        MatchesTrigger(Highlight("Changed", f, f,
                            CompareFeature(prev.snapshot[f], Observed(f))), t),
                        ~Truncated
                 PROVE  /\ ShouldNotify(Highlights, {t})
                        /\ Tells(EmailDigest(Highlights, {t}), f)
      BY DEF ChangesReachSubscribers, AtDecision
    <2> DEFINE c == CompareFeature(prev.snapshot[f], Observed(f))
    <2>1. f \in Features /\ prev.snapshot[f] # None
      BY DEF Matched
    <2>2. PICK h \in Highlights : h.feature = f /\ h.change = c
                                 /\ h.kind \in {"Changed", "Removed"}
      <3>1. CASE target[f] # None
        <4>1. prev.snapshot[f] # target[f]
          <5> SUFFICES ASSUME prev.snapshot[f] = target[f] PROVE FALSE
            OBVIOUS
          <5>1. c.baseline = None /\ DOMAIN c.browsers = {}
            BY <3>1 DEF Observed, CompareFeature, CompareBaseline, CompareBrowserImpls,
                        BrowserChanged
          <5> QED
            BY <5>1, TriggersAreChanges, StatesAssumption DEF Highlight
        <4>2. f \in diff.modified
          BY <2>1, <3>1, <4>1 DEF ReportInv, RunInv, ReconciledInv, Diffable, Modified
        <4>3. Highlight("Changed", f, f, c) \in Highlights
          BY <3>1, <4>2 DEF Highlights, ProcessModified, Observed
        <4> QED
          BY <4>3 DEF Highlight
      <3>2. CASE target[f] = None
        <4>1. fate[f].value # None
          BY <3>2 DEF Observed
        <4>2. f \in diff.removed
          BY <2>1, <4>1 DEF ReportInv, ValuedInv, Valued, LookupInv
        <4>3. Highlight("Removed", f, f, c) \in Highlights
          BY <3>2, <4>2 DEF Highlights, ProcessRemoved, Observed
        <4> QED
          BY <4>3 DEF Highlight
      <3> QED
        BY <3>1, <3>2
    <2>3. MatchesTrigger(h, t)
      BY <2>2 DEF MatchesTrigger, Highlight
    <2>4. h \in FilterHighlights(Highlights, {t})
      BY <2>3 DEF FilterHighlights
    <2>5. Category(h) = "Changed"
      BY <2>2, <2>3, TriggersAreChanges, StatesAssumption DEF Category
    <2>6. Told(h)
      BY <2>3, <2>5, MajorChangesAreTold
    <2>7. Category(h) \in DOMAIN Rank
      BY HighlightsAreRanked
    <2>8. Tells(EmailDigest(Highlights, {t}), f)
      BY <2>2, <2>4, <2>6, <2>7, ReadersTell
    <2>9. Categorized(Highlights, {t}, Category(h)) # {}
      BY <2>4 DEF Categorized
    <2> QED
      BY <2>7, <2>8, <2>9 DEF ShouldNotify, HasContent
  <1> QED
    BY ReportInvariance, <1>1, PTL

\* The mail tells every browser once, and as it changed.
THEOREM DigestTellsBrowsersApartHolds == Spec => []DigestTellsBrowsersApart
  <1>1. ASSUME NEW impls, NEW b \in DOMAIN impls
        PROVE  \E g \in GroupBrowserChanges(impls) :
                   /\ b \in g.browsers
                   /\ g.change.to = impls[b].to
                   /\ Status(g.change.from) = Status(impls[b].from)
                   /\ \A k \in GroupBrowserChanges(impls) \ {g} : b \notin k.browsers
    <2> DEFINE together == {p \in Pairs : /\ {p.desktop, p.mobile} \subseteq DOMAIN impls
                                          /\ Agree(impls[p.desktop], impls[p.mobile])}
               alone == DOMAIN impls \ UNION {{p.desktop, p.mobile} : p \in together}
               Pair(p) == [browsers |-> {p.desktop, p.mobile}, change |-> impls[p.desktop]]
               Single(a) == [browsers |-> {a}, change |-> impls[a]]
    <2>1. GroupBrowserChanges(impls) = {Pair(p) : p \in together} \cup {Single(a) : a \in alone}
      BY DEF GroupBrowserChanges
    <2>2. PICK g \in GroupBrowserChanges(impls) : b \in g.browsers
      BY GroupsCover
    <2>3. ASSUME NEW k \in GroupBrowserChanges(impls), b \in k.browsers
          PROVE  /\ k.change.to = impls[b].to
                 /\ Status(k.change.from) = Status(impls[b].from)
                 /\ k = g
      <3>1. CASE b \in alone
        <4>1. ASSUME NEW m \in GroupBrowserChanges(impls), b \in m.browsers
              PROVE  m = Single(b)
          BY <3>1, <2>1, <4>1
        <4> QED
          BY <4>1, <2>2, <2>3
      <3>2. CASE b \notin alone
        <4>1. PICK p \in together : b \in {p.desktop, p.mobile}
          BY <3>2
        <4>2. ASSUME NEW m \in GroupBrowserChanges(impls), b \in m.browsers
              PROVE  m = Pair(p)
          <5>1. m \notin {Single(a) : a \in alone}
            BY <3>2, <4>2
          <5>2. PICK q \in together : m = Pair(q)
            BY <2>1, <5>1
          <5>3. q = p
            BY <4>1, <4>2, <5>2, PairsAssumption
          <5> QED
            BY <5>2, <5>3
        <4>3. /\ impls[p.desktop].to = impls[p.mobile].to
              /\ Status(impls[p.desktop].from) = Status(impls[p.mobile].from)
          BY DEF Agree
        <4> QED
          BY <4>1, <4>2, <4>3, <2>2, <2>3
      <3> QED
        BY <3>1, <3>2
    <2> QED
      BY <2>2, <2>3
  <1>2. DigestTellsBrowsersApart
    <2> SUFFICES ASSUME NEW h \in ProcessModified \cup ProcessRemoved,
                        NEW b \in DOMAIN h.change.browsers
                 PROVE  \E g \in GroupBrowserChanges(h.change.browsers) :
                     /\ b \in g.browsers
                     /\ g.change.to = h.change.browsers[b].to
                     /\ Status(g.change.from) = Status(h.change.browsers[b].from)
                     /\ \A k \in GroupBrowserChanges(h.change.browsers) \ {g} : b \notin k.browsers
      BY DEF DigestTellsBrowsersApart
    <2> DEFINE impls == h.change.browsers
    <2>1. b \in DOMAIN impls
      OBVIOUS
    <2> HIDE DEF impls
    <2>2. \E g \in GroupBrowserChanges(impls) :
              /\ b \in g.browsers
              /\ g.change.to = impls[b].to
              /\ Status(g.change.from) = Status(impls[b].from)
              /\ \A k \in GroupBrowserChanges(impls) \ {g} : b \notin k.browsers
      BY <2>1, <1>1
    <2> QED
      BY <2>2 DEF impls
  <1> QED
    BY <1>2, PTL
=============================================================================
