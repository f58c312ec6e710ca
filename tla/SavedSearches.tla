---------------------------- MODULE SavedSearches ----------------------------
(***************************************************************************)
(* The saved searches of the users: their owners, the bookmarks other      *)
(* users keep of them, and the references of one search to another, which  *)
(* a query makes with the terms saved:<id> and hotlist:<id>.               *)
(*                                                                         *)
(* A request that creates or edits a search validates the references of    *)
(* the new query, then writes it in a transaction, then reads the search   *)
(* back: three steps between which the requests of other sessions run.     *)
(* All other requests are one transaction.                                 *)
(***************************************************************************)
EXTENDS Naturals, FiniteSets, Answers

CONSTANTS
    Users,
    SearchIds,     \* identifiers (UUIDs) of users' searches, scope USER_PUBLIC
    Globals,       \* hotlists: searches of the system, scope SYSTEM_GLOBAL
    Blanks,        \* the hotlists with an empty query, "all" in production
    Inputs,        \* the queries users write
    Sessions,      \* requests in flight
    None,          \* no user, no search
    MaxOwned,      \* maxOwnedSearchesPerUser
    MaxBookmarks,  \* maxBookmarksPerUser
    MaxDepth       \* maxDepth of the expansion

ASSUME IdsAssumption ==
    /\ Blanks \subseteq Globals
    /\ SearchIds \cap Globals = {}
    /\ None \notin SearchIds \cup Globals
ASSUME BoundsAssumption ==
    /\ MaxOwned \in Nat /\ MaxBookmarks \in Nat /\ MaxDepth \in Nat

Ids == SearchIds \cup Globals

\* A query: whether it has terms of its own, and the searches it refers to.
Query == [own : BOOLEAN, refs : SUBSET Ids]
Plain == [own |-> TRUE, refs |-> {}]
Blank == [own |-> FALSE, refs |-> {}]
UserQueries == Query \ {Blank}

ASSUME InputsAssumption == Inputs \subseteq UserQueries

VARIABLES
    saved,      \* SavedSearches of scope USER_PUBLIC: identifier -> query
    roles,      \* SavedSearchUserRoles: <<user, search>>, the only role is OWNER
    bookmarks,  \* UserSavedSearchBookmarks: <<user, search>>
    req,        \* the request of each session that creates or edits a search
    reply       \* the last answer: to whom, with which status code

store == <<saved, roles, bookmarks>>
vars == <<store, req, reply>>

\* In a request, which cannot write an empty query: no new query is given.
Kept == Blank

Idle == [at |-> "idle", user |-> None, id |-> None, query |-> Kept,
         fresh |-> FALSE]

\* fresh: no search has been written since the request was validated.
Requests == [at : {"idle", "create", "update", "created", "updated"},
             user : Users \cup {None}, id : SearchIds \cup {None},
             query : Query, fresh : BOOLEAN]

TypeOK ==
    /\ DOMAIN saved \subseteq SearchIds
    /\ \A i \in DOMAIN saved : saved[i] \in UserQueries
    /\ roles \subseteq Users \X SearchIds
    /\ bookmarks \subseteq Users \X SearchIds
    /\ req \in [Sessions -> Requests]
    /\ reply \in [to : Users \cup {None}, code : Codes]

Init ==
    /\ saved = [i \in {} |-> Plain]
    /\ roles = {}
    /\ bookmarks = {}
    /\ req = [s \in Sessions |-> Idle]
    /\ reply = [to |-> None, code |-> 0]
-----------------------------------------------------------------------------
(* Expansion of references *)

Stored == DOMAIN saved \cup Globals

GlobalQuery(g) == IF g \in Blanks THEN Blank ELSE Plain

\* GetSavedSearch for saved:<id>, GetSystemGlobalSavedSearch for hotlist:<id>.
QueryOf(i) == IF i \in Globals THEN GlobalQuery(i) ELSE saved[i]

\* The errors that stop the expansion of query q found at a depth, under the
\* searches already open.  An empty query is not expanded any further.
Expansion[depth \in Nat] ==
    [open \in SUBSET Ids |-> [q \in Query |->
        IF depth > MaxDepth
          THEN {"depth"}
          ELSE UNION { IF r \in open THEN {"cycle"}
                       ELSE IF r \notin Stored THEN {"not found"}
                       ELSE IF QueryOf(r) = Blank THEN {}
                       ELSE Expansion[depth + 1][open \cup {r}][QueryOf(r)]
                       : r \in q.refs }]]

\* Variant: what a referenced search refers to is not looked at.
ExpandableOneLevel(i) == QueryOf(i).refs \subseteq Stored

\* What FeaturesSearch and the event producer get for a stored search.
Expandable(i) == Expansion[0][{}][QueryOf(i)] = {}

\* Searches whose query contains saved:<i> or hotlist:<i>.
Referencing(i) == {r \in DOMAIN saved : i \in saved[r].refs}

Highest(S) == CHOOSE n \in S : \A k \in S : k <= n

\* How far above search i the farthest search that refers to it is, as far as
\* the limit.
Distance[d \in Nat] ==
    [i \in Ids |->
        IF d >= MaxDepth THEN d
        ELSE Highest({d} \cup {Distance[d + 1][r] : r \in Referencing(i)})]

\* Variant: only the direct referrers are counted.
AncestorDistanceNear(i) == IF Referencing(i) = {} THEN 0 ELSE 1

AncestorDistance(i) == Distance[0][i]

\* A query that is one reference and nothing else.
Bare(q) == ~q.own /\ Cardinality(q.refs) = 1

\* The new query is expanded as deep down as its referrers reach up.
ReferenceErrors(q, i) ==
    IF Bare(q) THEN {"entirely a saved search"}
    ELSE Expansion[IF i = None THEN 0 ELSE AncestorDistance(i)][{}][q]
-----------------------------------------------------------------------------
(* Creating and editing a search *)

IsOwner(u, i) == <<u, i>> \in roles
Owned(u) == {i \in SearchIds : IsOwner(u, i)}

Reply(u, code) == reply' = [to |-> u, code |-> code]

Answer(s, code) ==
    /\ req' = [req EXCEPT ![s] = Idle]
    /\ Reply(req[s].user, code)

\* A UUID nobody has seen.
Unused == {i \in SearchIds \ DOMAIN saved :
              /\ \A j \in DOMAIN saved : i \notin saved[j].refs
              /\ \A s \in Sessions : req[s].id # i /\ i \notin req[s].query.refs}

\* A request to create or edit a search whose fields, or the grammar or the
\* complexity of whose query, are refused, whatever the query refers to.
InvalidSearch(s, u) ==
    /\ req[s].at = "idle"
    /\ Reply(u, 400)
    /\ UNCHANGED <<store, req>>

\* The handler of POST /v1/saved-searches, in a session of S.
CreateSavedSearch(S, q) ==
    LET errors == ReferenceErrors(q, None) IN
    \E s \in S, u \in Users :
        /\ req[s].at = "idle"
        /\ \/ errors # {} /\ Reply(u, 400) /\ UNCHANGED req
           \/ /\ errors = {}
              /\ req' = [req EXCEPT ![s] = [at |-> "create", user |-> u,
                                            id |-> None, query |-> q, fresh |-> TRUE]]
              /\ UNCHANGED reply
        /\ UNCHANGED store

\* Validations under way are outdated by a write.
Outdated == [t \in Sessions |-> [req[t] EXCEPT !.fresh = FALSE]]

\* Variant: the new search is not bookmarked for its owner.
CreateWithoutBookmark(s) ==
    LET u == req[s].user IN
    /\ req[s].at = "create"
    /\ Cardinality(Owned(u)) < MaxOwned
    /\ \E i \in Unused :
          /\ saved' = [j \in DOMAIN saved \cup {i} |->
                          IF j = i THEN req[s].query ELSE saved[j]]
          /\ roles' = roles \cup {<<u, i>>}
          /\ req' = [Outdated EXCEPT ![s].at = "created", ![s].id = i]
    /\ UNCHANGED <<bookmarks, reply>>

\* Variant: the searches that a user owns are not counted.
CreateWithoutLimit(s) ==
    LET u == req[s].user IN
    /\ req[s].at = "create"
    /\ \E i \in Unused :
          /\ saved' = [j \in DOMAIN saved \cup {i} |->
                          IF j = i THEN req[s].query ELSE saved[j]]
          /\ roles' = roles \cup {<<u, i>>}
          /\ bookmarks' = bookmarks \cup {<<u, i>>}
          /\ req' = [Outdated EXCEPT ![s].at = "created", ![s].id = i]
    /\ UNCHANGED reply

\* The transaction: the limit, the search, the role of its owner, a bookmark.
CreateNewUserSavedSearch(s) ==
    LET u == req[s].user IN
    /\ req[s].at = "create"
    /\ \/ /\ Cardinality(Owned(u)) >= MaxOwned
          /\ Answer(s, CreateSavedSearchStatus(CreateUserSavedSearchError("limit")))
          /\ UNCHANGED store
       \/ /\ Cardinality(Owned(u)) < MaxOwned
          /\ \E i \in Unused :
                /\ saved' = [j \in DOMAIN saved \cup {i} |->
                                IF j = i THEN req[s].query ELSE saved[j]]
                /\ roles' = roles \cup {<<u, i>>}
                /\ bookmarks' = bookmarks \cup {<<u, i>>}
                /\ req' = [Outdated EXCEPT ![s].at = "created", ![s].id = i]
          /\ UNCHANGED reply

\* The error of reading a search, with its role and its bookmark if the reader
\* is known: users' searches are public, hotlists are for known readers.
GetUserSavedSearch(u, i) ==
    IF i \in DOMAIN saved \/ (u # None /\ i \in Globals) THEN "none" ELSE "no row"

\* Back in the handler: the search is read, announced (a failure is only
\* logged) and answered.
CreateSavedSearchDone(s) ==
    /\ req[s].at = "created"
    /\ Answer(s, CreateSavedSearchStatus(GetUserSavedSearch(req[s].user, req[s].id)))
    /\ UNCHANGED store

\* The handler of PATCH /v1/saved-searches/{id}.  The references of a new query
\* are validated before it is known whether the user owns the search.
UpdateSavedSearch(S, i, q) ==
    LET errors == IF q = Kept THEN {} ELSE ReferenceErrors(q, i) IN
    \E s \in S, u \in Users :
        /\ req[s].at = "idle"
        /\ \/ errors # {} /\ Reply(u, 400) /\ UNCHANGED req
           \/ /\ errors = {}
              /\ req' = [req EXCEPT ![s] = [at |-> "update", user |-> u,
                                            id |-> i, query |-> q, fresh |-> TRUE]]
              /\ UNCHANGED reply
        /\ UNCHANGED store

\* The transaction: the role, then the search.  A search that is gone has no
\* roles, so that it is answered like one of another owner.
UpdateUserSavedSearch(s) ==
    LET i == req[s].id IN
    /\ req[s].at = "update"
    /\ \/ /\ IsOwner(req[s].user, i)
          /\ saved' = IF req[s].query = Kept
                        THEN saved ELSE [saved EXCEPT ![i] = req[s].query]
          /\ req' = [Outdated EXCEPT ![s].at = "updated"]
          /\ UNCHANGED <<roles, bookmarks, reply>>
       \/ /\ ~IsOwner(req[s].user, i)
          /\ Answer(s, UpdateSavedSearchStatus(UpdateUserSavedSearchError("role")))
          /\ UNCHANGED store

UpdateSavedSearchDone(s) ==
    /\ req[s].at = "updated"
    /\ Answer(s, UpdateSavedSearchStatus(
                     GetSavedSearchError(GetUserSavedSearch(req[s].user, req[s].id))))
    /\ UNCHANGED store
-----------------------------------------------------------------------------
(* Removing a search, bookmarks, reading *)

\* ListUserSavedSearches: what a user has bookmarked, by name, whoever owns it.
ListUserSavedSearches(u) == {i \in DOMAIN saved : <<u, i>> \in bookmarks}

Others(S, i) == {x \in S : x[2] # i}

DeletionError(u, i) ==
    CASE i \notin DOMAIN saved -> "no row"
      [] i \in DOMAIN saved /\ ~IsOwner(u, i) -> "role"
      [] OTHER -> "none"

\* Roles and bookmarks are interleaved in the table and deleted with the search.
\* What refers to the search keeps its reference.
DeleteUserSavedSearch(i) ==
    /\ saved' = [j \in DOMAIN saved \ {i} |-> saved[j]]
    /\ roles' = Others(roles, i)
    /\ bookmarks' = Others(bookmarks, i)
    /\ req' = Outdated

RemoveSavedSearch(s, u, i) ==
    /\ req[s].at = "idle"
    /\ \/ DeletionError(u, i) = "none" /\ DeleteUserSavedSearch(i)
       \/ DeletionError(u, i) # "none" /\ UNCHANGED <<store, req>>
    /\ Reply(u, RemoveSavedSearchStatus(DeleteUserSavedSearchError(DeletionError(u, i))))

\* Bookmarks of searches that others own.
Borrowed(u) == {i \in SearchIds : <<u, i>> \in bookmarks \ roles}

\* The limit is checked even if the bookmark exists.
BookmarkError(u, i) ==
    CASE i \notin DOMAIN saved -> "no row"
      [] i \in DOMAIN saved /\ Cardinality(Borrowed(u)) >= MaxBookmarks -> "limit"
      [] OTHER -> "none"

PutUserSavedSearchBookmark(s, u, i) ==
    /\ req[s].at = "idle"
    /\ bookmarks' = IF BookmarkError(u, i) = "none"
                      THEN bookmarks \cup {<<u, i>>} ELSE bookmarks
    /\ Reply(u, PutBookmarkStatus(PutBookmarkError(BookmarkError(u, i))))
    /\ UNCHANGED <<saved, roles, req>>

UnbookmarkError(u, i) ==
    CASE i \notin DOMAIN saved -> "no row"
      [] IsOwner(u, i) -> "owner"
      [] i \in DOMAIN saved /\ <<u, i>> \notin bookmarks -> "no row"
      [] OTHER -> "none"

RemoveUserSavedSearchBookmark(s, u, i) ==
    /\ req[s].at = "idle"
    /\ bookmarks' = IF UnbookmarkError(u, i) = "none"
                      THEN bookmarks \ {<<u, i>>} ELSE bookmarks
    /\ Reply(u, RemoveBookmarkStatus(RemoveBookmarkError(UnbookmarkError(u, i))))
    /\ UNCHANGED <<saved, roles, req>>
-----------------------------------------------------------------------------
\* The steps of the sessions in S.
SearchesNext(S) ==
    \/ \E s \in S, u \in Users : InvalidSearch(s, u)
    \/ \E q \in Inputs : CreateSavedSearch(S, q)
    \/ \E i \in SearchIds, q \in Inputs \cup {Kept} : UpdateSavedSearch(S, i, q)
    \/ \E s \in S :
          \/ CreateNewUserSavedSearch(s)
          \/ CreateSavedSearchDone(s)
          \/ UpdateUserSavedSearch(s)
          \/ UpdateSavedSearchDone(s)
          \/ \E u \in Users, i \in SearchIds :
                \/ RemoveSavedSearch(s, u, i)
                \/ PutUserSavedSearchBookmark(s, u, i)
                \/ RemoveUserSavedSearchBookmark(s, u, i)

SearchesSpec == Init /\ [][SearchesNext(Sessions)]_vars
-----------------------------------------------------------------------------
(* Safety *)

\* Whatever requests run side by side, a search has one owner, who finds it
\* among the bookmarks, and no role or bookmark outlives its search.
OwnersFindTheirSearches ==
    /\ \A i \in DOMAIN saved : \E u \in Users : <<u, i>> \in roles
    /\ \A x, y \in roles : x[2] = y[2] => x = y
    /\ \A u \in Users : Owned(u) \subseteq ListUserSavedSearches(u)
    /\ \A x \in bookmarks : x[2] \in DOMAIN saved

\* No user gets past a limit by sending requests at the same time.
LimitsHold ==
    \A u \in Users : /\ Cardinality(Owned(u)) <= MaxOwned
                     /\ Cardinality(Borrowed(u)) <= MaxBookmarks

\* The searches n references away from each search.
Away[n \in Nat] ==
    [i \in Ids |->
        IF n = 0 THEN {i} ELSE UNION {QueryOf(r).refs : r \in Away[n - 1][i] \cap Stored}]

\* The recursive expansion succeeds exactly if everything up to one reference
\* beyond the limit exists, and what is beyond the limit is empty.
ExpansionIsBoundedReachability ==
    \A i \in Stored :
        Expandable(i) <=> /\ \A n \in 0 .. MaxDepth + 1 : Away[n][i] \subseteq Stored
                          /\ Away[MaxDepth + 1][i] \subseteq Blanks

\* An edit written before any other write, and not of a query that refers to
\* the search itself, leaves no search unexpandable that was expandable: the
\* distance of the farthest referrer counts against the depth of the new query.
EditsKeepOthersExpandable ==
    [][\A s \in Sessions :
          req[s].at = "update" /\ req'[s].at = "updated" /\ req[s].fresh
          /\ req[s].id \notin req[s].query.refs
             => \A i \in DOMAIN saved : Expandable(i) => Expandable(i)']_vars
-----------------------------------------------------------------------------
(* An expectation of the documentation that the code does not meet; see       *)
(* README.md                                                                  *)

\* No stored query leads back to itself.
CyclesAreIntercepted ==
    \A i \in DOMAIN saved : "cycle" \notin Expansion[0][{}][QueryOf(i)]
=============================================================================
