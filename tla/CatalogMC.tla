----------------------------- MODULE CatalogMC -----------------------------
(* Catalog on every release over a few features, for TLC. *)
EXTENDS Catalog, TLC

\* A release has some of the keys as features, and others moved or split.
ReleasesOf(F, M) ==
    UNION {{[features |-> F, moved |-> moves, split |-> splits] :
               moves \in [M \ S -> F],
               splits \in [S -> {T \in SUBSET F : Cardinality(T) > 1}]} :
           S \in SUBSET M}

\* Bound: a feature that is gone without a trace is the only one.
SmallReleases ==
    UNION {ReleasesOf(F, M) : <<F, M>> \in
        {<<F, M>> \in (SUBSET Keys \ {{}}) \X SUBSET Keys :
            F \cap M = {} /\ Cardinality(Keys \ (F \cup M)) <= 1}}

\* Bound: subscriptions and metrics, which no step reads or writes together, are
\* there one at a time.
FollowersOrHistories == DOMAIN followers = {} \/ DOMAIN histories = {}

Symmetry ==
    Permutations(Keys) \cup Permutations(FollowerChannels)
        \cup Permutations(FollowerIds)
=============================================================================
