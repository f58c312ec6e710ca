----------------------------- MODULE AccountsMC -----------------------------
(* The accounts of users, with searches and subscriptions, for TLC. *)
EXTENDS Subscriptions, TLC

CONSTANTS all, baseline

To(S) == [own |-> TRUE, refs |-> S]

\* Queries with a reference, or with none.
SmallInputs ==
    {Plain, [own |-> FALSE, refs |-> {all}]}
        \cup {To({i}) : i \in SearchIds \cup Globals}

Symmetry ==
    Permutations(SearchIds) \cup Permutations(Users) \cup Permutations(Sessions)
        \cup Permutations(ChannelIds)

\* The last answer is no part of the state the system depends on.
View == <<store, req, subscribers>>

Owners == {x[1] : x \in roles \cup bookmarks} \cup {req[s].user : s \in Sessions}
Quiet == \A s \in Sessions : call[s].at = "idle"
Calling == {s \in Sessions : call[s].at # "idle"}
Parties == {channels[c].owner : c \in DOMAIN channels}
              \cup {call[s].user : s \in Calling}
InPlay == (DOMAIN saved \cup {call[s].search : s \in Calling}) \ {None}

Unlinked == \A i \in DOMAIN saved : saved[i] = Plain
Waiting == {s \in Sessions : req[s].at # "idle"}

\* Bound: one of three parts of the system is in use.
\* Searches refer to one another, one user's requests are in flight, and nobody has
\* bookmarked a search of another user.
References ==
    /\ bookmarks \subseteq roles
    /\ Cardinality({req[s].user : s \in Waiting}) <= 1
    /\ DOMAIN channels = {} /\ Quiet

\* Users have searches that refer to none, and bookmark others' searches.
Bookmarking ==
    /\ Unlinked /\ Cardinality(Waiting) <= 1
    /\ \A s \in Waiting : req[s].query = Plain /\ req[s].at \in {"create", "created"}
    /\ DOMAIN channels = {} /\ Quiet

\* Users have channels and subscriptions to one search, which is not edited.
\* Two requests of one user are in flight, or one request of two users.
Subscribing ==
    /\ Cardinality(InPlay \cup {subs[d].search : d \in DOMAIN subs}) <= 1
    /\ bookmarks \subseteq roles
    /\ Cardinality(Calling) <= 1 \/ Cardinality(Parties) <= 1
    /\ Unlinked
    /\ Waiting = {}

OnePartInUse == References \/ Bookmarking \/ Subscribing
=============================================================================
