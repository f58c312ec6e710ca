---------------------------- MODULE AccountsProofs ----------------------------
(***************************************************************************)
(* The accounts are sound, for any users, searches, sessions and limits.   *)
(*                                                                         *)
(* The requests about searches come first, by themselves.  What the        *)
(* properties say of the tables is inductive once it is known that a       *)
(* request on its way to the transaction that creates a search has a user  *)
(* and a query, and that what is counted against the limits is finite.     *)
(***************************************************************************)
EXTENDS Subscriptions, Induction, FiniteSetTheorems, TLAPS

Creating ==
    \A s \in Sessions : req[s].at = "create" =>
        req[s].user \in Users /\ req[s].query \in UserQueries

CountsAreFinite ==
    \A u \in Users : IsFiniteSet(Owned(u)) /\ IsFiniteSet(Borrowed(u))

SearchesInv ==
    TypeOK /\ Creating /\ OwnersFindTheirSearches /\ CountsAreFinite /\ LimitsHold

-----------------------------------------------------------------------------
(* Typing of the requests about searches *)

\* Every answer has a status code of the API.
LEMMA SearchStatuses ==
    \A e : /\ CreateSavedSearchStatus(e) \in Codes
           /\ UpdateSavedSearchStatus(e) \in Codes
           /\ RemoveSavedSearchStatus(e) \in Codes
           /\ PutBookmarkStatus(e) \in Codes
           /\ RemoveBookmarkStatus(e) \in Codes
BY DEF CreateSavedSearchStatus, UpdateSavedSearchStatus, RemoveSavedSearchStatus,
       PutBookmarkStatus, RemoveBookmarkStatus, Usual, Codes

Replies == [to : Users \cup {None}, code : Codes]

LEMMA ReplyTyping ==
    ASSUME NEW u \in Users \cup {None}, NEW code \in Codes, Reply(u, code)
    PROVE  reply' \in Replies
BY DEF Reply, Replies

LEMMA IdleType == Idle \in Requests /\ Idle.at = "idle"
BY DEF Idle, Requests, Kept, Blank, Query

LEMMA AnswerTyping ==
    ASSUME TypeOK, Creating, NEW s \in Sessions, NEW code \in Codes, Answer(s, code)
    PROVE  req' \in [Sessions -> Requests] /\ reply' \in Replies /\ Creating'
<1>1. req \in [Sessions -> Requests] /\ req' = [req EXCEPT ![s] = Idle]
    BY DEF TypeOK, Answer
<1>2. req' \in [Sessions -> Requests]
    BY <1>1, IdleType
<1>3. Creating'
    BY <1>1, IdleType DEF Creating
<1>4. req[s].user \in Users \cup {None}
    BY <1>1 DEF Requests
<1>5. reply' \in Replies
    BY <1>4, ReplyTyping DEF Answer
<1> QED
    BY <1>2, <1>3, <1>5

\* A validation becomes outdated, and nothing else about the request changes.
LEMMA OutdatedType ==
    ASSUME TypeOK
    PROVE  /\ Outdated \in [Sessions -> Requests]
           /\ \A t \in Sessions : /\ Outdated[t].at = req[t].at
                                  /\ Outdated[t].user = req[t].user
                                  /\ Outdated[t].query = req[t].query
<1> SUFFICES ASSUME NEW t \in Sessions
             PROVE  LET o == [req[t] EXCEPT !.fresh = FALSE] IN
                    /\ o \in Requests /\ o.at = req[t].at
                    /\ o.user = req[t].user /\ o.query = req[t].query
    BY DEF Outdated
<1>1. req[t] \in Requests
    BY DEF TypeOK
<1> QED
    BY <1>1 DEF Requests

\* A request that the handler starts.
LEMMA StartTyping ==
    ASSUME TypeOK, Creating, NEW s \in Sessions, NEW r \in Requests,
           req' = [req EXCEPT ![s] = r],
           r.at = "create" => r.user \in Users /\ r.query \in UserQueries
    PROVE  req' \in [Sessions -> Requests] /\ Creating'
<1>1. req \in [Sessions -> Requests]
    BY DEF TypeOK
<1> QED
    BY <1>1 DEF Creating

LEMMA CreateTyping ==
    ASSUME TypeOK, Creating, NEW S \in SUBSET Sessions, NEW q \in Inputs,
           CreateSavedSearch(S, q)
    PROVE  TypeOK' /\ Creating'
<1>1. PICK s \in S, u \in Users :
          /\ \/ Reply(u, 400) /\ UNCHANGED req
             \/ /\ req' = [req EXCEPT ![s] = [at |-> "create", user |-> u,
                                              id |-> None, query |-> q, fresh |-> TRUE]]
                /\ UNCHANGED reply
          /\ UNCHANGED store
    BY DEF CreateSavedSearch
<1>2. q \in UserQueries /\ q \in Query
    BY InputsAssumption DEF UserQueries
<1>3. CASE Reply(u, 400) /\ UNCHANGED req
  <2>1. reply' \in Replies
    BY <1>3, ReplyTyping DEF Codes
  <2> QED
    BY <1>1, <1>3, <2>1 DEF TypeOK, Creating, store, Replies
<1>4. CASE /\ req' = [req EXCEPT ![s] = [at |-> "create", user |-> u,
                                         id |-> None, query |-> q, fresh |-> TRUE]]
           /\ UNCHANGED reply
  <2>1. PICK r : r = [at |-> "create", user |-> u, id |-> None, query |-> q,
                      fresh |-> TRUE]
    OBVIOUS
  <2>2. r \in Requests /\ r.user \in Users /\ r.query \in UserQueries
    BY <1>2, <2>1 DEF Requests
  <2>3. req' = [req EXCEPT ![s] = r]
    BY <1>4, <2>1
  <2>4. req' \in [Sessions -> Requests] /\ Creating'
    BY <2>2, <2>3, StartTyping
  <2> QED
    BY <1>1, <1>4, <2>4 DEF TypeOK, store
<1> QED
    BY <1>1, <1>3, <1>4

LEMMA UpdateTyping ==
    ASSUME TypeOK, Creating, NEW S \in SUBSET Sessions, NEW i \in SearchIds,
           NEW q \in Inputs \cup {Kept}, UpdateSavedSearch(S, i, q)
    PROVE  TypeOK' /\ Creating'
<1>1. PICK s \in S, u \in Users :
          /\ \/ Reply(u, 400) /\ UNCHANGED req
             \/ /\ req' = [req EXCEPT ![s] = [at |-> "update", user |-> u,
                                              id |-> i, query |-> q, fresh |-> TRUE]]
                /\ UNCHANGED reply
          /\ UNCHANGED store
    BY DEF UpdateSavedSearch
<1>2. q \in Query
  <2>1. Kept \in Query
    BY DEF Kept, Blank, Query
  <2> QED
    BY <2>1, InputsAssumption DEF UserQueries
<1>3. CASE Reply(u, 400) /\ UNCHANGED req
  <2>1. reply' \in Replies
    BY <1>3, ReplyTyping DEF Codes
  <2> QED
    BY <1>1, <1>3, <2>1 DEF TypeOK, Creating, store, Replies
<1>4. CASE /\ req' = [req EXCEPT ![s] = [at |-> "update", user |-> u,
                                         id |-> i, query |-> q, fresh |-> TRUE]]
           /\ UNCHANGED reply
  <2>1. PICK r : r = [at |-> "update", user |-> u, id |-> i, query |-> q,
                      fresh |-> TRUE]
    OBVIOUS
  <2>2. r \in Requests /\ r.at # "create"
    BY <1>2, <2>1 DEF Requests
  <2>3. req' = [req EXCEPT ![s] = r]
    BY <1>4, <2>1
  <2>4. req' \in [Sessions -> Requests] /\ Creating'
    BY <2>2, <2>3, StartTyping
  <2> QED
    BY <1>1, <1>4, <2>4 DEF TypeOK, store
<1> QED
    BY <1>1, <1>3, <1>4

\* The transactions and what they write.
LEMMA CreateUserTyping ==
    ASSUME TypeOK, Creating, NEW s \in Sessions, CreateNewUserSavedSearch(s)
    PROVE  TypeOK' /\ Creating'
<1> DEFINE u == req[s].user
<1>1. /\ u \in Users /\ req[s].query \in UserQueries /\ req[s].at = "create"
    BY DEF CreateNewUserSavedSearch, Creating
<1>2. CASE /\ Answer(s, CreateSavedSearchStatus(CreateUserSavedSearchError("limit")))
           /\ UNCHANGED store
    BY <1>2, AnswerTyping, SearchStatuses DEF TypeOK, store, Replies
<1>3. ASSUME NEW i \in Unused,
             saved' = [j \in DOMAIN saved \cup {i} |->
                          IF j = i THEN req[s].query ELSE saved[j]],
             roles' = roles \cup {<<u, i>>}, bookmarks' = bookmarks \cup {<<u, i>>},
             req' = [Outdated EXCEPT ![s].at = "created", ![s].id = i],
             UNCHANGED reply
      PROVE  TypeOK' /\ Creating'
  <2>1. i \in SearchIds
    BY DEF Unused
  <2>2. /\ roles' \subseteq Users \X SearchIds /\ bookmarks' \subseteq Users \X SearchIds
    BY <1>1, <1>3, <2>1 DEF TypeOK
  <2>3. /\ DOMAIN saved' \subseteq SearchIds
        /\ \A j \in DOMAIN saved' : saved'[j] \in UserQueries
    BY <1>1, <1>3, <2>1 DEF TypeOK
  <2>4. PICK r : r = [Outdated[s] EXCEPT !.at = "created", !.id = i]
    OBVIOUS
  <2>5. r \in Requests /\ r.at = "created"
    BY <2>1, <2>4, OutdatedType DEF Requests
  <2>6. req' = [Outdated EXCEPT ![s] = r]
    BY <1>3, <2>4, OutdatedType
  <2>7. req' \in [Sessions -> Requests]
    BY <2>5, <2>6, OutdatedType
  <2>8. Creating'
    BY <2>5, <2>6, OutdatedType DEF Creating
  <2> QED
    BY <1>3, <2>2, <2>3, <2>7, <2>8 DEF TypeOK
<1> QED
    BY <1>2, <1>3 DEF CreateNewUserSavedSearch

LEMMA UpdateUserTyping ==
    ASSUME TypeOK, Creating, NEW s \in Sessions, UpdateUserSavedSearch(s)
    PROVE  TypeOK' /\ Creating'
<1> DEFINE i == req[s].id
<1>1. req[s].query \in Query /\ i \in SearchIds \cup {None}
    BY DEF TypeOK, Requests
<1>2. CASE /\ Answer(s, UpdateSavedSearchStatus(UpdateUserSavedSearchError("role")))
           /\ UNCHANGED store
    BY <1>2, AnswerTyping, SearchStatuses DEF TypeOK, store, Replies
<1>3. ASSUME saved' = IF req[s].query = Kept
                        THEN saved ELSE [saved EXCEPT ![i] = req[s].query],
             req' = [Outdated EXCEPT ![s].at = "updated"],
             UNCHANGED <<roles, bookmarks, reply>>
      PROVE  TypeOK' /\ Creating'
  <2>1. req[s].query # Kept => req[s].query \in UserQueries
    BY <1>1 DEF UserQueries, Kept
  <2>2. /\ DOMAIN saved' \subseteq SearchIds
        /\ \A j \in DOMAIN saved' : saved'[j] \in UserQueries
    BY <1>3, <2>1 DEF TypeOK
  <2>4. PICK r : r = [Outdated[s] EXCEPT !.at = "updated"]
    OBVIOUS
  <2>5. r \in Requests /\ r.at = "updated"
    BY <2>4, OutdatedType DEF Requests
  <2>6. req' = [Outdated EXCEPT ![s] = r]
    BY <1>3, <2>4, OutdatedType
  <2>7. req' \in [Sessions -> Requests]
    BY <2>5, <2>6, OutdatedType
  <2>8. Creating'
    BY <2>5, <2>6, OutdatedType DEF Creating
  <2> QED
    BY <1>3, <2>2, <2>7, <2>8 DEF TypeOK
<1> QED
    BY <1>2, <1>3 DEF UpdateUserSavedSearch

LEMMA RemoveTyping ==
    ASSUME TypeOK, Creating, NEW s \in Sessions, NEW u \in Users, NEW i \in SearchIds,
           RemoveSavedSearch(s, u, i)
    PROVE  TypeOK' /\ Creating'
<1>1. reply' \in Replies
    BY ReplyTyping, SearchStatuses DEF RemoveSavedSearch
<1>2. CASE UNCHANGED <<store, req>>
    BY <1>1, <1>2 DEF TypeOK, Creating, store, Replies
<1>3. CASE DeleteUserSavedSearch(i)
  <2>1. /\ DOMAIN saved' \subseteq SearchIds
        /\ \A j \in DOMAIN saved' : saved'[j] \in UserQueries
    BY <1>3 DEF DeleteUserSavedSearch, TypeOK
  <2>2. roles' \subseteq roles /\ bookmarks' \subseteq bookmarks
    BY <1>3 DEF DeleteUserSavedSearch, Others
  <2>3. req' \in [Sessions -> Requests] /\ Creating'
    BY <1>3, OutdatedType DEF DeleteUserSavedSearch, Creating
  <2> QED
    BY <1>1, <2>1, <2>2, <2>3 DEF TypeOK, Replies
<1> QED
    BY <1>2, <1>3 DEF RemoveSavedSearch

LEMMA BookmarkTyping ==
    ASSUME TypeOK, Creating, NEW s \in Sessions, NEW u \in Users, NEW i \in SearchIds,
           \/ PutUserSavedSearchBookmark(s, u, i)
           \/ RemoveUserSavedSearchBookmark(s, u, i)
    PROVE  TypeOK' /\ Creating'
<1>1. reply' \in Replies
    BY ReplyTyping, SearchStatuses
    DEF PutUserSavedSearchBookmark, RemoveUserSavedSearchBookmark
<1>2. bookmarks' \subseteq bookmarks \cup {<<u, i>>} /\ UNCHANGED <<saved, roles, req>>
    BY DEF PutUserSavedSearchBookmark, RemoveUserSavedSearchBookmark
<1>3. bookmarks' \subseteq Users \X SearchIds
    BY <1>2 DEF TypeOK
<1> QED
    BY <1>1, <1>2, <1>3 DEF TypeOK, Creating, Replies

LEMMA SearchesTyping ==
    ASSUME TypeOK, Creating, NEW S \in SUBSET Sessions, SearchesNext(S)
    PROVE  TypeOK' /\ Creating'
<1>1. ASSUME NEW s \in S, NEW u \in Users, InvalidSearch(s, u)
      PROVE  TypeOK' /\ Creating'
  <2>1. reply' \in Replies
    BY <1>1, ReplyTyping DEF InvalidSearch, Codes
  <2> QED
    BY <1>1, <2>1 DEF InvalidSearch, TypeOK, Creating, store, Replies
<1>2. ASSUME NEW s \in S, CreateSavedSearchDone(s) \/ UpdateSavedSearchDone(s)
      PROVE  TypeOK' /\ Creating'
  <2>1. PICK code \in Codes : Answer(s, code)
    BY <1>2, SearchStatuses DEF CreateSavedSearchDone, UpdateSavedSearchDone
  <2>2. UNCHANGED store
    BY <1>2 DEF CreateSavedSearchDone, UpdateSavedSearchDone
  <2> QED
    BY <2>1, <2>2, AnswerTyping DEF TypeOK, store, Replies
<1> QED
    BY <1>1, <1>2, CreateTyping, UpdateTyping, CreateUserTyping, UpdateUserTyping,
       RemoveTyping, BookmarkTyping
    DEF SearchesNext
-----------------------------------------------------------------------------
(* Counting *)

\* What is within a limit stays within it if nothing is added ...
LEMMA Within ==
    ASSUME NEW S, IsFiniteSet(S), NEW m \in Nat, Cardinality(S) <= m,
           NEW T \in SUBSET S
    PROVE  IsFiniteSet(T) /\ Cardinality(T) <= m
<1>1. /\ IsFiniteSet(T) /\ Cardinality(T) <= Cardinality(S)
      /\ Cardinality(T) \in Nat /\ Cardinality(S) \in Nat
    BY FS_Subset, FS_CardinalityType
<1> QED
    BY <1>1

\* ... and if one element is added where there was room for it.
LEMMA OneMore ==
    ASSUME NEW S, IsFiniteSet(S), NEW m \in Nat, Cardinality(S) < m,
           NEW x, NEW T \in SUBSET (S \cup {x})
    PROVE  IsFiniteSet(T) /\ Cardinality(T) <= m
<1>1. /\ IsFiniteSet(S \cup {x}) /\ Cardinality(S) \in Nat
      /\ Cardinality(S \cup {x}) <= Cardinality(S) + 1
    BY FS_AddElement, FS_CardinalityType
<1>2. Cardinality(S \cup {x}) \in Nat
    BY <1>1, FS_CardinalityType
<1>3. Cardinality(S \cup {x}) <= m
    BY <1>1, <1>2
<1> QED
    BY <1>1, <1>3, Within
-----------------------------------------------------------------------------
(* The tables of the searches *)

Tables == OwnersFindTheirSearches /\ CountsAreFinite /\ LimitsHold

LEMMA CreateTables ==
    ASSUME TypeOK, Tables, NEW u \in Users, NEW i \in Unused, NEW q,
           Cardinality(Owned(u)) < MaxOwned,
           saved' = [j \in DOMAIN saved \cup {i} |-> IF j = i THEN q ELSE saved[j]],
           roles' = roles \cup {<<u, i>>}, bookmarks' = bookmarks \cup {<<u, i>>}
    PROVE  Tables'
<1>1. i \in SearchIds /\ i \notin DOMAIN saved
    BY DEF Unused
<1>2. \A x \in roles : x = <<x[1], x[2]>> /\ x[1] \in Users /\ x[2] \in DOMAIN saved
  <2> SUFFICES ASSUME NEW x \in roles
               PROVE  x = <<x[1], x[2]>> /\ x[1] \in Users /\ x[2] \in DOMAIN saved
    OBVIOUS
  <2>1. x = <<x[1], x[2]>> /\ x[1] \in Users /\ x[2] \in SearchIds
    BY DEF TypeOK
  <2>2. x[2] \in Owned(x[1])
    BY <2>1 DEF Owned, IsOwner
  <2> QED
    BY <2>1, <2>2 DEF Tables, OwnersFindTheirSearches, ListUserSavedSearches
<1>3. OwnersFindTheirSearches'
  <2>1. \A j \in DOMAIN saved' : \E v \in Users : <<v, j>> \in roles'
    BY DEF Tables, OwnersFindTheirSearches
  <2>2. \A x, y \in roles' : x[2] = y[2] => x = y
    <3>1. \A x \in roles : x[2] # i
      BY <1>1, <1>2
    <3>2. <<u, i>>[2] = i
      OBVIOUS
    <3>3. \A x \in roles' : x = <<u, i>> \/ x \in roles
      OBVIOUS
    <3> QED
      BY <3>1, <3>2, <3>3 DEF Tables, OwnersFindTheirSearches
  <2>3. ASSUME NEW v \in Users, NEW j \in Owned(v)'
        PROVE  j \in ListUserSavedSearches(v)'
    <3>1. j \in SearchIds /\ <<v, j>> \in roles \cup {<<u, i>>}
      BY <2>3 DEF Owned, IsOwner
    <3>2. CASE <<v, j>> \in roles
      <4>1. j \in ListUserSavedSearches(v)
        BY <3>1, <3>2 DEF Owned, IsOwner, Tables, OwnersFindTheirSearches
      <4> QED
        BY <4>1 DEF ListUserSavedSearches
    <3>3. CASE <<v, j>> = <<u, i>>
      BY <3>3 DEF ListUserSavedSearches
    <3> QED
      BY <3>1, <3>2, <3>3
  <2>4. \A x \in bookmarks' : x[2] \in DOMAIN saved'
    BY DEF Tables, OwnersFindTheirSearches
  <2> QED
    BY <2>1, <2>2, <2>3, <2>4 DEF OwnersFindTheirSearches
<1>4. ASSUME NEW v \in Users
      PROVE  /\ IsFiniteSet(Owned(v)') /\ Cardinality(Owned(v)') <= MaxOwned
             /\ IsFiniteSet(Borrowed(v)') /\ Cardinality(Borrowed(v)') <= MaxBookmarks
  <2>1. Borrowed(v)' \subseteq Borrowed(v)
    BY DEF Borrowed
  <2>2. IsFiniteSet(Borrowed(v)') /\ Cardinality(Borrowed(v)') <= MaxBookmarks
    BY <2>1, Within, BoundsAssumption DEF Tables, CountsAreFinite, LimitsHold
  <2>3. v = u => Owned(v)' \in SUBSET (Owned(u) \cup {i})
    BY DEF Owned, IsOwner
  <2>4. v # u => Owned(v)' \in SUBSET Owned(v)
    BY DEF Owned, IsOwner
  <2>5. IsFiniteSet(Owned(v)') /\ Cardinality(Owned(v)') <= MaxOwned
    <3>1. CASE v = u
      BY <2>3, <3>1, OneMore, BoundsAssumption DEF Tables, CountsAreFinite
    <3>2. CASE v # u
      BY <2>4, <3>2, Within, BoundsAssumption DEF Tables, CountsAreFinite, LimitsHold
    <3> QED
      BY <3>1, <3>2
  <2> QED
    BY <2>2, <2>5
<1>5. CountsAreFinite' /\ LimitsHold'
    BY <1>4 DEF CountsAreFinite, LimitsHold
<1> QED
    BY <1>3, <1>5 DEF Tables

\* The roles stay, and the bookmarks that are gone are of no owner.
LEMMA BookmarkTables ==
    ASSUME TypeOK, Tables, NEW u \in Users, NEW i \in SearchIds,
           DOMAIN saved' = DOMAIN saved, roles' = roles,
           \/ bookmarks' = bookmarks
           \/ /\ bookmarks' = bookmarks \cup {<<u, i>>}
              /\ i \in DOMAIN saved /\ Cardinality(Borrowed(u)) < MaxBookmarks
           \/ bookmarks' = bookmarks \ {<<u, i>>} /\ ~IsOwner(u, i)
    PROVE  Tables'
<1>1. OwnersFindTheirSearches'
  <2>1. \A x \in bookmarks' : x[2] \in DOMAIN saved'
    BY DEF Tables, OwnersFindTheirSearches
  <2>2. ASSUME NEW v \in Users, NEW j \in Owned(v)
        PROVE  j \in ListUserSavedSearches(v)'
    <3>1. j \in DOMAIN saved /\ <<v, j>> \in bookmarks
      BY <2>2 DEF Tables, OwnersFindTheirSearches, ListUserSavedSearches
    <3>2. IsOwner(v, j)
      BY DEF Owned
    <3>3. <<v, j>> \in bookmarks'
      BY <3>1, <3>2 DEF IsOwner
    <3> QED
      BY <3>1, <3>3 DEF ListUserSavedSearches
  <2>3. \A v \in Users : Owned(v)' = Owned(v)
    BY DEF Owned, IsOwner
  <2> QED
    BY <2>1, <2>2, <2>3 DEF Tables, OwnersFindTheirSearches
<1>2. ASSUME NEW v \in Users
      PROVE  /\ IsFiniteSet(Owned(v)') /\ Cardinality(Owned(v)') <= MaxOwned
             /\ IsFiniteSet(Borrowed(v)') /\ Cardinality(Borrowed(v)') <= MaxBookmarks
  <2>1. Owned(v)' = Owned(v)
    BY DEF Owned, IsOwner
  <2>2. CASE Borrowed(v)' \in SUBSET Borrowed(v)
    BY <2>1, <2>2, Within, BoundsAssumption DEF Tables, CountsAreFinite, LimitsHold
  <2>3. CASE ~(Borrowed(v)' \in SUBSET Borrowed(v))
    <3>1. v = u /\ Cardinality(Borrowed(u)) < MaxBookmarks
      BY <2>3 DEF Borrowed
    <3>2. Borrowed(v)' \in SUBSET (Borrowed(v) \cup {i})
      BY <3>1 DEF Borrowed
    <3>3. IsFiniteSet(Borrowed(v)') /\ Cardinality(Borrowed(v)') <= MaxBookmarks
      BY <3>1, <3>2, OneMore, BoundsAssumption DEF Tables, CountsAreFinite
    <3> QED
      BY <2>1, <3>3 DEF Tables, CountsAreFinite, LimitsHold
  <2> QED
    BY <2>2, <2>3
<1>3. CountsAreFinite' /\ LimitsHold'
    BY <1>2 DEF CountsAreFinite, LimitsHold
<1> QED
    BY <1>1, <1>3 DEF Tables

LEMMA DeleteTables ==
    ASSUME TypeOK, Tables, NEW i \in SearchIds, DeleteUserSavedSearch(i)
    PROVE  Tables'
<1>1. /\ DOMAIN saved' = DOMAIN saved \ {i}
      /\ roles' = {x \in roles : x[2] # i} /\ bookmarks' = {x \in bookmarks : x[2] # i}
    BY DEF DeleteUserSavedSearch, Others
<1>2. OwnersFindTheirSearches'
  <2>1. ASSUME NEW j \in DOMAIN saved' PROVE \E v \in Users : <<v, j>> \in roles'
    BY <1>1, <2>1 DEF Tables, OwnersFindTheirSearches
  <2>2. \A x, y \in roles' : x[2] = y[2] => x = y
    BY <1>1 DEF Tables, OwnersFindTheirSearches
  <2>3. ASSUME NEW v \in Users, NEW j \in Owned(v)'
        PROVE  j \in ListUserSavedSearches(v)'
    <3>1. j \in Owned(v) /\ j # i
      BY <1>1 DEF Owned, IsOwner
    <3>2. j \in DOMAIN saved /\ <<v, j>> \in bookmarks
      BY <3>1 DEF Tables, OwnersFindTheirSearches, ListUserSavedSearches
    <3> QED
      BY <1>1, <3>1, <3>2 DEF ListUserSavedSearches
  <2>4. \A x \in bookmarks' : x[2] \in DOMAIN saved'
    BY <1>1 DEF Tables, OwnersFindTheirSearches
  <2> QED
    BY <2>1, <2>2, <2>3, <2>4 DEF OwnersFindTheirSearches
<1>3. ASSUME NEW v \in Users
      PROVE  /\ IsFiniteSet(Owned(v)') /\ Cardinality(Owned(v)') <= MaxOwned
             /\ IsFiniteSet(Borrowed(v)') /\ Cardinality(Borrowed(v)') <= MaxBookmarks
  <2>1. Owned(v)' \in SUBSET Owned(v)
    BY <1>1 DEF Owned, IsOwner
  <2>2. Borrowed(v)' \in SUBSET Borrowed(v)
    <3> SUFFICES ASSUME NEW j \in Borrowed(v)' PROVE j \in Borrowed(v)
      OBVIOUS
    <3>1. <<v, j>> \in bookmarks /\ <<v, j>> \notin roles /\ j \in SearchIds
      BY <1>1 DEF Borrowed
    <3> QED
      BY <3>1 DEF Borrowed
  <2> QED
    BY <2>1, <2>2, Within, BoundsAssumption DEF Tables, CountsAreFinite, LimitsHold
<1>4. CountsAreFinite' /\ LimitsHold'
    BY <1>3 DEF CountsAreFinite, LimitsHold
<1> QED
    BY <1>2, <1>4 DEF Tables

\* Requests about searches that write no bookmark, role or identifier.
LEMMA KeptTables ==
    ASSUME Tables, DOMAIN saved' = DOMAIN saved, roles' = roles, bookmarks' = bookmarks
    PROVE  Tables'
BY DEF Tables, OwnersFindTheirSearches, ListUserSavedSearches, CountsAreFinite,
       LimitsHold, Owned, IsOwner, Borrowed

LEMMA SearchesStep ==
    ASSUME SearchesInv, NEW S \in SUBSET Sessions, SearchesNext(S)
    PROVE  SearchesInv'
<1> USE DEF SearchesInv
<1>0. Tables
    BY DEF Tables
<1> SUFFICES Tables'
    BY SearchesTyping DEF Tables
<1>1. ASSUME NEW s \in S, NEW u \in Users, InvalidSearch(s, u) PROVE Tables'
    BY <1>0, <1>1, KeptTables DEF InvalidSearch, store
<1>2. ASSUME NEW q \in Inputs, CreateSavedSearch(S, q) PROVE Tables'
    BY <1>0, <1>2, KeptTables DEF CreateSavedSearch, store
<1>3. ASSUME NEW i \in SearchIds, NEW q \in Inputs \cup {Kept}, UpdateSavedSearch(S, i, q)
      PROVE  Tables'
    BY <1>0, <1>3, KeptTables DEF UpdateSavedSearch, store
<1>4. ASSUME NEW s \in S, CreateNewUserSavedSearch(s) PROVE Tables'
  <2>1. CASE UNCHANGED store
    BY <1>0, <2>1, KeptTables DEF store
  <2>2. CASE ~UNCHANGED store
    <3>1. req[s].user \in Users
      BY <1>4 DEF CreateNewUserSavedSearch, Creating
    <3>2. Cardinality(Owned(req[s].user)) < MaxOwned
      BY <1>4, <2>2 DEF CreateNewUserSavedSearch
    <3>3. PICK i \in Unused :
              /\ saved' = [j \in DOMAIN saved \cup {i} |->
                              IF j = i THEN req[s].query ELSE saved[j]]
              /\ roles' = roles \cup {<<req[s].user, i>>}
              /\ bookmarks' = bookmarks \cup {<<req[s].user, i>>}
      BY <1>4, <2>2 DEF CreateNewUserSavedSearch
    <3> QED
      BY <1>0, <3>1, <3>2, <3>3, CreateTables
  <2> QED
    BY <2>1, <2>2
<1>5. ASSUME NEW s \in S, CreateSavedSearchDone(s) \/ UpdateSavedSearchDone(s)
      PROVE  Tables'
    BY <1>0, <1>5, KeptTables DEF CreateSavedSearchDone, UpdateSavedSearchDone, store
<1>6. ASSUME NEW s \in S, UpdateUserSavedSearch(s) PROVE Tables'
  <2>1. DOMAIN saved' = DOMAIN saved /\ roles' = roles /\ bookmarks' = bookmarks
    BY <1>6 DEF UpdateUserSavedSearch, store
  <2> QED
    BY <1>0, <2>1, KeptTables
<1>7. ASSUME NEW s \in S, NEW u \in Users, NEW i \in SearchIds, RemoveSavedSearch(s, u, i)
      PROVE  Tables'
    BY <1>0, <1>7, KeptTables, DeleteTables DEF RemoveSavedSearch, store
<1>8. ASSUME NEW s \in S, NEW u \in Users, NEW i \in SearchIds,
             PutUserSavedSearchBookmark(s, u, i)
      PROVE  Tables'
  <2>1. BookmarkError(u, i) = "none"
            => i \in DOMAIN saved /\ ~(Cardinality(Borrowed(u)) >= MaxBookmarks)
    BY DEF BookmarkError
  <2>2. IsFiniteSet(Borrowed(u)) /\ Cardinality(Borrowed(u)) \in Nat
    BY FS_CardinalityType DEF CountsAreFinite
  <2>3. BookmarkError(u, i) = "none"
            => i \in DOMAIN saved /\ Cardinality(Borrowed(u)) < MaxBookmarks
    BY <2>1, <2>2, BoundsAssumption
  <2> QED
    BY <1>0, <1>8, <2>3, BookmarkTables DEF PutUserSavedSearchBookmark
<1>9. ASSUME NEW s \in S, NEW u \in Users, NEW i \in SearchIds,
             RemoveUserSavedSearchBookmark(s, u, i)
      PROVE  Tables'
  <2>1. IsOwner(u, i) => UnbookmarkError(u, i) # "none"
    BY DEF UnbookmarkError
  <2> QED
    BY <1>0, <1>9, <2>1, BookmarkTables DEF RemoveUserSavedSearchBookmark
<1> QED
    BY <1>1, <1>2, <1>3, <1>4, <1>5, <1>6, <1>7, <1>8, <1>9 DEF SearchesNext

LEMMA SearchesInitially == Init => SearchesInv
<1> SUFFICES ASSUME Init PROVE SearchesInv
    OBVIOUS
<1>1. TypeOK /\ Creating
    BY IdleType DEF Init, TypeOK, Creating, Codes
<1>2. OwnersFindTheirSearches
    BY DEF Init, OwnersFindTheirSearches, Owned, IsOwner
<1>3. \A u \in Users : Owned(u) = {} /\ Borrowed(u) = {}
    BY DEF Init, Owned, IsOwner, Borrowed
<1>4. CountsAreFinite /\ LimitsHold
    BY <1>3, FS_EmptySet, BoundsAssumption DEF CountsAreFinite, LimitsHold
<1> QED
    BY <1>1, <1>2, <1>4 DEF SearchesInv
-----------------------------------------------------------------------------
(***************************************************************************)
(* Channels and subscriptions.  Two things are to be known of the requests *)
(* between their steps: one for a subscription has a user and options, and *)
(* the channel one updates is no address.  Of the tables, that they are    *)
(* finite, and that a user's RSS channels are the same one.                *)
(***************************************************************************)
Subscribing ==
    \A s \in Sessions : call[s].at = "subscribe" =>
        call[s].user \in Users /\ call[s].options \in Options

Updating ==
    \A s \in Sessions : call[s].at = "update" /\ call[s].channel \in DOMAIN channels
        => channels[call[s].channel].type # "email"

CallsInv == call \in [Sessions -> Calls] /\ Subscribing /\ Updating

ChannelsOK ==
    /\ DOMAIN channels \subseteq ChannelIds /\ IsFiniteSet(DOMAIN channels)
    /\ \A c \in DOMAIN channels : channels[c] \in Channel

SubsOK ==
    /\ DOMAIN subs \subseteq SubscriptionIds /\ IsFiniteSet(DOMAIN subs)
    /\ \A d \in DOMAIN subs : subs[d] \in Subscription

Linked ==
    \A d \in DOMAIN subs :
        subs[d].channel \in DOMAIN channels /\ subs[d].search \in Stored

Distinct ==
    \A d, e \in DOMAIN subs :
        subs[d].channel = subs[e].channel /\ subs[d].search = subs[e].search => d = e

OneRSSChannel == \A u \in Users : \A c, e \in RSSChannels(u) : c = e

Webhooks(u) == {c \in ChannelsOf(u) : channels[c].type = "webhook"}

WithinLimits ==
    \A u \in Users : /\ Cardinality(Webhooks(u)) <= MaxChannels
                     /\ Cardinality(SubscriptionsOf(u)) <= MaxSubscriptions

ChannelsInv ==
    ChannelsOK /\ SubsOK /\ Linked /\ Distinct /\ OneRSSChannel /\ WithinLimits

SubscribersInv == SearchesInv /\ CallsInv /\ ChannelsInv

\* The invariant tells what the properties say.
LEMMA SubscribersInvImplies ==
    SubscribersInv => /\ SubscribersTypeOK /\ OwnersFindTheirSearches
                      /\ SubscriptionsAreSound /\ UserLimitsHold
<1> SUFFICES ASSUME SubscribersInv
             PROVE  /\ SubscribersTypeOK /\ OwnersFindTheirSearches
                    /\ SubscriptionsAreSound /\ UserLimitsHold
    OBVIOUS
<1>1. SubscribersTypeOK /\ OwnersFindTheirSearches
    BY DEF SubscribersInv, SearchesInv, CallsInv, ChannelsInv, ChannelsOK, SubsOK,
           SubscribersTypeOK
<1>2. ASSUME NEW u \in Users PROVE Cardinality(RSSChannels(u)) <= 1
  <2>1. CASE RSSChannels(u) = {}
    BY <2>1, FS_EmptySet
  <2>2. CASE RSSChannels(u) # {}
    <3>1. PICK c : c \in RSSChannels(u)
      BY <2>2
    <3>2. RSSChannels(u) = {c}
      BY <3>1 DEF SubscribersInv, ChannelsInv, OneRSSChannel
    <3>3. Cardinality({c}) = 1
      BY FS_Singleton
    <3> QED
      BY <3>2, <3>3
  <2> QED
    BY <2>1, <2>2
<1>3. SubscriptionsAreSound
    BY <1>2 DEF SubscribersInv, ChannelsInv, Linked, Distinct, SubscriptionsAreSound
<1>4. UserLimitsHold
    BY DEF SubscribersInv, SearchesInv, ChannelsInv, WithinLimits, Webhooks, UserLimitsHold
<1> QED
    BY <1>1, <1>3, <1>4
-----------------------------------------------------------------------------
(* What the requests do to the tables *)

\* The counted sets are finite.
LEMMA Counted ==
    ASSUME ChannelsOK, SubsOK, NEW u
    PROVE  /\ IsFiniteSet(Webhooks(u)) /\ IsFiniteSet(Visible(u))
           /\ IsFiniteSet(SubscriptionsOf(u))
           /\ Webhooks(u) \in SUBSET Visible(u)
           /\ Cardinality(Webhooks(u)) <= Cardinality(Visible(u))
           /\ Cardinality(Webhooks(u)) \in Nat /\ Cardinality(Visible(u)) \in Nat
           /\ Cardinality(SubscriptionsOf(u)) \in Nat
<1>1. /\ Webhooks(u) \in SUBSET DOMAIN channels /\ Visible(u) \in SUBSET DOMAIN channels
      /\ SubscriptionsOf(u) \in SUBSET DOMAIN subs
    BY DEF Webhooks, Visible, ChannelsOf, SubscriptionsOf
<1>2. Webhooks(u) \in SUBSET Visible(u)
    BY DEF Webhooks, Visible
<1>3. /\ IsFiniteSet(Webhooks(u)) /\ IsFiniteSet(Visible(u))
      /\ IsFiniteSet(SubscriptionsOf(u))
    BY <1>1, FS_Subset DEF ChannelsOK, SubsOK
<1> QED
    BY <1>2, <1>3, FS_Subset, FS_CardinalityType

\* Rows go, or change their options; what is left refers to what is left.
LEMMA RowsGo ==
    ASSUME ChannelsInv,
           DOMAIN channels' \subseteq DOMAIN channels,
           \A c \in DOMAIN channels' : channels'[c] = channels[c],
           DOMAIN subs' \subseteq DOMAIN subs,
           \A d \in DOMAIN subs' :
               /\ subs'[d] \in Subscription
               /\ subs'[d].channel = subs[d].channel /\ subs'[d].search = subs[d].search
               /\ subs[d].channel \in DOMAIN channels' /\ subs[d].search \in Stored'
    PROVE  ChannelsInv'
<1>1. ChannelsOK' /\ SubsOK'
    BY FS_Subset DEF ChannelsInv, ChannelsOK, SubsOK
<1>2. Linked' /\ Distinct'
    BY DEF ChannelsInv, Linked, Distinct
<1>3. OneRSSChannel'
    BY DEF ChannelsInv, OneRSSChannel, RSSChannels, ChannelsOf
<1>4. ASSUME NEW u \in Users
      PROVE  /\ Cardinality(Webhooks(u)') <= MaxChannels
             /\ Cardinality(SubscriptionsOf(u)') <= MaxSubscriptions
  <2>1. Webhooks(u)' \in SUBSET Webhooks(u)
    BY DEF Webhooks, ChannelsOf
  <2>2. SubscriptionsOf(u)' \in SUBSET SubscriptionsOf(u)
    BY DEF SubscriptionsOf
  <2> QED
    BY <2>1, <2>2, Counted, Within, ChannelsAssumption DEF ChannelsInv, WithinLimits
<1> QED
    BY <1>1, <1>2, <1>3, <1>4 DEF ChannelsInv, WithinLimits

\* Nothing about channels or subscriptions is written.
LEMMA RowsKept ==
    ASSUME ChannelsInv, UNCHANGED <<store, channels, subs>>
    PROVE  ChannelsInv'
<1>1. Stored' = Stored /\ channels' = channels /\ subs' = subs
    BY DEF Stored, store
<1> QED
    BY <1>1, RowsGo DEF ChannelsInv, SubsOK, Linked

\* A user gets addresses, or a webhook within the limit.
LEMMA ChannelsCome ==
    ASSUME ChannelsInv, UNCHANGED <<store, subs>>, NEW u \in Users,
           NEW N \in SUBSET NewChannels, IsFiniteSet(N),
           DOMAIN channels' = DOMAIN channels \cup N,
           \A c \in DOMAIN channels : channels'[c] = channels[c],
           \A c \in N : channels'[c] \in Channel /\ channels'[c].owner = u,
           \/ \A c \in N : channels'[c].type = "email"
           \/ \E c : /\ N = {c} /\ channels'[c].type = "webhook"
                     /\ Cardinality(Visible(u)) < MaxChannels
    PROVE  ChannelsInv'
<1>0. N \cap DOMAIN channels = {} /\ N \subseteq ChannelIds
    BY DEF NewChannels
<1>1. ChannelsOK' /\ SubsOK'
  <2>1. IsFiniteSet(DOMAIN channels')
    BY FS_Union DEF ChannelsInv, ChannelsOK
  <2> QED
    BY <1>0, <2>1 DEF ChannelsInv, ChannelsOK, SubsOK
<1>2. Linked' /\ Distinct'
    BY DEF ChannelsInv, Linked, Distinct, Stored, store
<1>3. OneRSSChannel'
  <2>1. \A c \in N : channels'[c].type # "rss"
    OBVIOUS
  <2>2. \A v \in Users : RSSChannels(v)' \subseteq RSSChannels(v)
    BY <2>1 DEF RSSChannels, ChannelsOf
  <2> QED
    BY <2>2 DEF ChannelsInv, OneRSSChannel
<1>4. ASSUME NEW v \in Users
      PROVE  /\ Cardinality(Webhooks(v)') <= MaxChannels
             /\ Cardinality(SubscriptionsOf(v)') <= MaxSubscriptions
  <2>1. SubscriptionsOf(v)' = SubscriptionsOf(v)
    BY DEF SubscriptionsOf, ChannelsInv, Linked
  <2>2. CASE v # u \/ \A c \in N : channels'[c].type = "email"
    <3>1. Webhooks(v)' \in SUBSET Webhooks(v)
      BY <2>2 DEF Webhooks, ChannelsOf
    <3> QED
      BY <2>1, <3>1, Counted, Within, ChannelsAssumption DEF ChannelsInv, WithinLimits
  <2>3. CASE /\ v = u
             /\ \E c : N = {c} /\ Cardinality(Visible(u)) < MaxChannels
    <3>1. PICK c : N = {c}
      BY <2>3
    <3>2. Webhooks(v)' \in SUBSET (Webhooks(v) \cup {c})
      BY <3>1 DEF Webhooks, ChannelsOf
    <3>3. Cardinality(Webhooks(v)) < MaxChannels
      BY <2>3, Counted, ChannelsAssumption DEF ChannelsInv
    <3> QED
      BY <2>1, <3>2, <3>3, Counted, OneMore, ChannelsAssumption DEF ChannelsInv, WithinLimits
  <2> QED
    BY <2>2, <2>3
<1> QED
    BY <1>1, <1>2, <1>3, <1>4 DEF ChannelsInv, WithinLimits

\* A channel that is no address gets another type, that of RSS if the user has
\* no channel of this type.
LEMMA ChannelChanges ==
    ASSUME ChannelsInv, UNCHANGED <<store, subs>>, NEW u,
           NEW c \in Visible(u), channels[c].type # "email",
           NEW type \in {"webhook", "rss"},
           type = "rss" => RSSChannels(u) = {},
           channels' = [channels EXCEPT ![c].type = type]
    PROVE  ChannelsInv'
<1>1. /\ c \in DOMAIN channels /\ channels[c] \in Channel
      /\ channels[c].owner = u /\ channels[c].type = "webhook"
    BY DEF Visible, ChannelsOf, ChannelsInv, ChannelsOK, Channel, Types
<1>2. PICK r : r = [channels[c] EXCEPT !.type = type]
    OBVIOUS
<1>3. r \in Channel /\ r.owner = u /\ r.type = type
    BY <1>1, <1>2 DEF Channel, Types
<1>4. /\ DOMAIN channels' = DOMAIN channels /\ channels'[c] = r
      /\ \A e \in DOMAIN channels : e # c => channels'[e] = channels[e]
    BY <1>1, <1>2
<1>5. ChannelsOK' /\ SubsOK'
    BY <1>3, <1>4 DEF ChannelsInv, ChannelsOK, SubsOK
<1>6. Linked' /\ Distinct'
    BY <1>4 DEF ChannelsInv, Linked, Distinct, Stored, store
<1>7. \A e \in DOMAIN channels : channels'[e].owner = channels[e].owner
    BY <1>1, <1>3, <1>4
<1>8. OneRSSChannel'
  <2> SUFFICES ASSUME NEW v \in Users, NEW x \in RSSChannels(v)', NEW y \in RSSChannels(v)'
               PROVE  x = y
    BY DEF OneRSSChannel
  <2>1. \A z \in RSSChannels(v)' : z = c \/ z \in RSSChannels(v)
    BY <1>4 DEF RSSChannels, ChannelsOf
  <2>2. c \in RSSChannels(v)' => v = u /\ RSSChannels(u) = {}
    BY <1>1, <1>3, <1>4 DEF RSSChannels, ChannelsOf
  <2> QED
    BY <2>1, <2>2 DEF ChannelsInv, OneRSSChannel
<1>9. ASSUME NEW v \in Users
      PROVE  /\ Cardinality(Webhooks(v)') <= MaxChannels
             /\ Cardinality(SubscriptionsOf(v)') <= MaxSubscriptions
  <2>1. SubscriptionsOf(v)' = SubscriptionsOf(v)
    BY <1>4, <1>7 DEF SubscriptionsOf, ChannelsInv, Linked
  <2>2. Webhooks(v)' \in SUBSET Webhooks(v)
    BY <1>1, <1>4, <1>7 DEF Webhooks, ChannelsOf
  <2> QED
    BY <2>1, <2>2, Counted, Within, ChannelsAssumption DEF ChannelsInv, WithinLimits
<1> QED
    BY <1>5, <1>6, <1>8, <1>9 DEF ChannelsInv, WithinLimits

\* A subscription comes, through a channel that the user has or that comes with
\* it as the user's first RSS channel.
LEMMA SubscriptionComes ==
    ASSUME ChannelsInv, UNCHANGED store, NEW u \in Users,
           NEW c \in ChannelIds,
           c \in ChannelsOf(u) \/ (c \notin DOMAIN channels /\ RSSChannels(u) = {}),
           NEW d \in SubscriptionIds \ DOMAIN subs, NEW x \in Subscription,
           x.channel = c, x.search \in Stored,
           \A e \in DOMAIN subs : ~(subs[e].channel = c /\ subs[e].search = x.search),
           Cardinality(SubscriptionsOf(u)) < MaxSubscriptions,
           subs' = With(subs, d, x),
           channels' = With(channels, c, NewChannel(u, "rss", None))
    PROVE  ChannelsInv'
<1>1. PICK r : r = NewChannel(u, "rss", None)
    OBVIOUS
<1>2. r \in Channel /\ r.owner = u /\ r.type = "rss"
    BY <1>1 DEF NewChannel, Channel, Types
<1>3. /\ DOMAIN channels' = DOMAIN channels \cup {c}
      /\ \A e \in DOMAIN channels : channels'[e] = channels[e]
      /\ c \notin DOMAIN channels => channels'[c] = r
    BY <1>1 DEF With
<1>4. /\ DOMAIN subs' = DOMAIN subs \cup {d} /\ subs'[d] = x
      /\ \A e \in DOMAIN subs : subs'[e] = subs[e]
    BY DEF With
<1>5. ChannelsOK'
    BY <1>2, <1>3, FS_AddElement DEF ChannelsInv, ChannelsOK
<1>6. SubsOK'
    BY <1>4, FS_AddElement DEF ChannelsInv, SubsOK
<1>7. Linked'
    BY <1>3, <1>4 DEF ChannelsInv, Linked, Stored, store
<1>8. Distinct'
    BY <1>4 DEF ChannelsInv, Distinct
<1>9. OneRSSChannel'
  <2>1. CASE c \in DOMAIN channels
    <3>1. \A v \in Users : RSSChannels(v)' = RSSChannels(v)
      BY <1>3, <2>1 DEF RSSChannels, ChannelsOf
    <3> QED
      BY <3>1 DEF ChannelsInv, OneRSSChannel
  <2>2. CASE c \notin DOMAIN channels
    <3>1. RSSChannels(u) = {}
      BY <2>2 DEF ChannelsOf
    <3>2. \A v \in Users : RSSChannels(v)' \subseteq
                               RSSChannels(v) \cup (IF v = u THEN {c} ELSE {})
      BY <1>2, <1>3, <2>2 DEF RSSChannels, ChannelsOf
    <3> QED
      BY <3>1, <3>2 DEF ChannelsInv, OneRSSChannel
  <2> QED
    BY <2>1, <2>2
<1>10. ASSUME NEW v \in Users
       PROVE  /\ Cardinality(Webhooks(v)') <= MaxChannels
              /\ Cardinality(SubscriptionsOf(v)') <= MaxSubscriptions
  <2>1. Webhooks(v)' \in SUBSET Webhooks(v)
    BY <1>2, <1>3 DEF Webhooks, ChannelsOf
  <2>2. channels'[c].owner = u
    BY <1>2, <1>3 DEF ChannelsOf
  <2>3. SubscriptionsOf(v)' \in SUBSET (SubscriptionsOf(v) \cup (IF v = u THEN {d} ELSE {}))
    BY <1>3, <1>4, <2>2 DEF SubscriptionsOf, ChannelsInv, Linked
  <2>4. CASE v = u
    BY <2>1, <2>3, <2>4, Counted, Within, OneMore, ChannelsAssumption
    DEF ChannelsInv, WithinLimits
  <2>5. CASE v # u
    BY <2>1, <2>3, <2>5, Counted, Within, ChannelsAssumption DEF ChannelsInv, WithinLimits
  <2> QED
    BY <2>4, <2>5
<1> QED
    BY <1>5, <1>6, <1>7, <1>8, <1>9, <1>10 DEF ChannelsInv, WithinLimits
-----------------------------------------------------------------------------
(* The requests themselves *)

LEMMA SubscriberStatuses ==
    \A e : /\ CreateChannelStatus(e) \in Codes
           /\ UpdateChannelStatus(e) \in Codes
           /\ DeleteChannelStatus(e) \in Codes
           /\ CreateSubscriptionStatus(e) \in Codes
           /\ UpdateSubscriptionStatus(e) \in Codes
           /\ DeleteSubscriptionStatus(e) \in Codes
BY DEF CreateChannelStatus, UpdateChannelStatus, DeleteChannelStatus,
       CreateSubscriptionStatus, UpdateSubscriptionStatus, DeleteSubscriptionStatus,
       Usual, Codes

LEMMA NoCallType == NoCall \in Calls /\ NoCall.at = "idle"
BY DEF NoCall, Calls

\* What becomes an address was no channel of a request.
NoNewAddress ==
    \A c \in DOMAIN channels' : channels'[c].type = "email" =>
        \/ c \in DOMAIN channels /\ channels[c].type = "email"
        \/ \A t \in Sessions : call[t].channel # c

LEMMA CallChanges ==
    ASSUME CallsInv, NoNewAddress, NEW s \in Sessions, NEW r \in Calls,
           call' = [call EXCEPT ![s] = r],
           r.at = "subscribe" => r.user \in Users /\ r.options \in Options,
           r.at = "update" /\ r.channel \in DOMAIN channels'
               => channels'[r.channel].type # "email"
    PROVE  CallsInv'
<1>1. /\ call' \in [Sessions -> Calls] /\ call'[s] = r
      /\ \A t \in Sessions : t # s => call'[t] = call[t]
    BY DEF CallsInv
<1>2. Subscribing'
    BY <1>1 DEF CallsInv, Subscribing
<1>3. Updating'
    BY <1>1 DEF CallsInv, Updating, NoNewAddress
<1> QED
    BY <1>1, <1>2, <1>3 DEF CallsInv

LEMMA CallsKept == ASSUME CallsInv, NoNewAddress, UNCHANGED call PROVE CallsInv'
BY DEF CallsInv, Subscribing, Updating, NoNewAddress

LEMMA FinishTyping ==
    ASSUME CallsInv, NoNewAddress, NEW s \in Sessions, NEW code \in Codes, Finish(s, code)
    PROVE  CallsInv' /\ reply' \in Replies
<1>1. CallsInv'
    BY NoCallType, CallChanges DEF Finish
<1>2. call[s].user \in Users \cup {None}
    BY DEF CallsInv, Calls
<1> QED
    BY <1>1, <1>2, ReplyTyping DEF Finish

\* The searches are not written.
LEMMA SearchesKept ==
    ASSUME SearchesInv, UNCHANGED <<store, req>>, reply' \in Replies
    PROVE  SearchesInv'
<1>1. Tables'
    BY KeptTables DEF SearchesInv, Tables, store
<1> QED
    BY <1>1 DEF SearchesInv, Tables, TypeOK, Creating, store, Replies

LEMMA ReplyKept == ASSUME SearchesInv, UNCHANGED reply PROVE reply' \in Replies
BY DEF SearchesInv, TypeOK, Replies

\* Only the request moves on.
LEMMA RequestMoves ==
    ASSUME SubscribersInv, UNCHANGED <<store, req, channels, subs>>,
           reply' \in Replies, CallsInv'
    PROVE  SubscribersInv'
<1>1. UNCHANGED <<store, channels, subs>>
    OBVIOUS
<1> QED
    BY <1>1, RowsKept, SearchesKept DEF SubscribersInv

\* A refused request is answered and forgotten.
LEMMA RequestEnds ==
    ASSUME SubscribersInv, UNCHANGED <<store, req, channels, subs>>,
           NEW s \in Sessions, NEW code \in Codes, Finish(s, code)
    PROVE  SubscribersInv'
<1>1. NoNewAddress
    BY DEF NoNewAddress
<1> QED
    BY <1>1, FinishTyping, RequestMoves DEF SubscribersInv

LEMMA RequestRefused ==
    ASSUME SubscribersInv, UNCHANGED <<store, req, channels, subs, call>>,
           NEW u \in Users, NEW code \in Codes, Reply(u, code)
    PROVE  SubscribersInv'
<1>1. NoNewAddress
    BY DEF NoNewAddress
<1>2. CallsInv'
    BY <1>1, CallsKept DEF SubscribersInv
<1> QED
    BY <1>2, ReplyTyping, RequestMoves

LEMMA CreateChannelStep ==
    ASSUME SubscribersInv, NEW s \in Sessions, NEW u \in Users,
           CreateNotificationChannel(s, u)
    PROVE  SubscribersInv'
<1>1. CASE /\ Reply(u, CreateChannelStatus(CreateChannelError("limit")))
           /\ UNCHANGED <<channels, call>>
    BY <1>1, SubscriberStatuses, RequestRefused DEF CreateNotificationChannel
<1>2. ASSUME NEW c \in NewChannels, ChannelCount(u) < MaxChannels,
             channels' = With(channels, c, NewChannel(u, "webhook", None)),
             Begin(s, [NoCall EXCEPT !.at = "created", !.user = u, !.channel = c]),
             UNCHANGED <<reply, store, req, subs>>
      PROVE  SubscribersInv'
  <2>1. PICK x : x = NewChannel(u, "webhook", None)
    OBVIOUS
  <2>2. x \in Channel /\ x.owner = u /\ x.type = "webhook"
    BY <2>1 DEF NewChannel, Channel, Types
  <2>3. c \in ChannelIds /\ c \notin DOMAIN channels
    BY DEF NewChannels
  <2>4. /\ DOMAIN channels' = DOMAIN channels \cup {c} /\ channels'[c] = x
        /\ \A e \in DOMAIN channels : channels'[e] = channels[e]
    BY <1>2, <2>1, <2>3 DEF With
  <2>5. ChannelsInv'
    <3>1. {c} \in SUBSET NewChannels /\ IsFiniteSet({c})
      BY FS_Singleton
    <3>2. UNCHANGED <<store, subs>> /\ Cardinality(Visible(u)) < MaxChannels
      BY <1>2 DEF ChannelCount
    <3> QED
      BY <2>2, <2>4, <3>1, <3>2, ChannelsCome DEF SubscribersInv
  <2>6. NoNewAddress
    BY <2>2, <2>4 DEF NoNewAddress
  <2>7. PICK r : r = [NoCall EXCEPT !.at = "created", !.user = u, !.channel = c]
    OBVIOUS
  <2>8. r \in Calls /\ r.at = "created"
    BY <2>3, <2>7 DEF NoCall, Calls
  <2>9. CallsInv'
    BY <1>2, <2>6, <2>7, <2>8, CallChanges DEF SubscribersInv, Begin
  <2> QED
    BY <1>2, <2>5, <2>9, SearchesKept, ReplyKept DEF SubscribersInv
<1> QED
    BY <1>1, <1>2 DEF CreateNotificationChannel

LEMMA UpdateRequestStep ==
    ASSUME SubscribersInv, NEW s \in Sessions, NEW u \in Users, NEW c \in ChannelIds,
           NEW type \in UpdateTypes, UpdateNotificationChannel(s, u, c, type)
    PROVE  SubscribersInv'
<1>1. ASSUME NEW code \in Codes, Reply(u, code), UNCHANGED <<store, req, channels, subs, call>>
      PROVE  SubscribersInv'
    BY <1>1, RequestRefused
<1>2. CASE /\ c \in Visible(u) /\ channels[c].type # "email"
           /\ Begin(s, [NoCall EXCEPT !.at = "update", !.user = u, !.channel = c,
                                      !.type = type])
           /\ UNCHANGED reply
  <2>1. PICK r : r = [NoCall EXCEPT !.at = "update", !.user = u, !.channel = c,
                                    !.type = type]
    OBVIOUS
  <2>2. r \in Calls /\ r.at = "update" /\ r.channel = c
    BY <2>1 DEF NoCall, Calls, UpdateTypes
  <2>3. UNCHANGED <<store, req, channels, subs>>
    BY DEF UpdateNotificationChannel
  <2>4. NoNewAddress
    BY <2>3 DEF NoNewAddress
  <2>5. CallsInv'
    BY <1>2, <2>1, <2>2, <2>3, <2>4, CallChanges DEF SubscribersInv, Begin
  <2> QED
    BY <1>2, <2>3, <2>5, RequestMoves, ReplyKept DEF SubscribersInv
<1> QED
    BY <1>1, <1>2, SubscriberStatuses DEF UpdateNotificationChannel

LEMMA UpdateChannelStep ==
    ASSUME SubscribersInv, NEW s \in Sessions, UpdateChannel(s)
    PROVE  SubscribersInv'
<1> DEFINE u == call[s].user
           c == call[s].channel
           type == call[s].type
<1>0. call[s] \in Calls /\ call[s].at = "update"
    BY DEF SubscribersInv, CallsInv, UpdateChannel
<1>1. ASSUME NEW e, Finish(s, UpdateChannelStatus(e)), UNCHANGED channels
      PROVE  SubscribersInv'
    BY <1>1, SubscriberStatuses, RequestEnds DEF UpdateChannel
<1>2. CASE /\ UpdateError(u, c, type) = "none"
           /\ channels' = Merged(c, type)
           /\ call' = [call EXCEPT ![s].at = "updated"]
           /\ UNCHANGED reply
  <2>1. UNCHANGED <<store, req, subs>>
    BY DEF UpdateChannel
  <2>2. c \in Visible(u) /\ (type = "rss" => RSSChannels(u) = {})
    BY <1>2 DEF UpdateError, ChannelError
  <2>3. c \in DOMAIN channels /\ channels[c].type # "email"
    BY <1>0, <2>2 DEF SubscribersInv, CallsInv, Updating, Visible, ChannelsOf
  <2>4. ASSUME type = None PROVE ChannelsInv' /\ NoNewAddress
    <3>1. channels' = channels
      BY <1>2, <2>4 DEF Merged
    <3>2. ChannelsInv'
      BY <2>1, <3>1, RowsKept DEF SubscribersInv
    <3>3. NoNewAddress
      BY <3>1 DEF NoNewAddress
    <3> QED
      BY <3>2, <3>3
  <2>5. ASSUME type # None PROVE ChannelsInv' /\ NoNewAddress
    <3>0. type \in {"webhook", "rss"}
      BY <1>0, <2>5 DEF Calls
    <3>1. channels' = [channels EXCEPT ![c].type = type]
      BY <1>2, <2>5 DEF Merged
    <3>2. ChannelsInv'
      BY <2>1, <2>2, <2>3, <3>0, <3>1, ChannelChanges DEF SubscribersInv
    <3>3. channels[c] \in Channel
      BY <2>3 DEF SubscribersInv, ChannelsInv, ChannelsOK
    <3>4. PICK x : x = [channels[c] EXCEPT !.type = type]
      OBVIOUS
    <3>5. x.type = type
      BY <3>3, <3>4 DEF Channel
    <3>6. /\ DOMAIN channels' = DOMAIN channels /\ channels'[c] = x
          /\ \A e \in DOMAIN channels : e # c => channels'[e] = channels[e]
      BY <2>3, <3>1, <3>4
    <3>7. NoNewAddress
      BY <3>0, <3>5, <3>6 DEF NoNewAddress
    <3> QED
      BY <3>2, <3>7
  <2>6. ChannelsInv' /\ NoNewAddress
    BY <2>4, <2>5
  <2>7. PICK r : r = [call[s] EXCEPT !.at = "updated"]
    OBVIOUS
  <2>8. r \in Calls /\ r.at = "updated"
    BY <1>0, <2>7 DEF Calls
  <2>9. call' = [call EXCEPT ![s] = r]
    BY <1>2, <2>7
  <2>10. CallsInv'
    BY <2>6, <2>8, <2>9, CallChanges DEF SubscribersInv
  <2> QED
    BY <1>2, <2>1, <2>6, <2>10, SearchesKept, ReplyKept DEF SubscribersInv
<1> QED
    BY <1>1, <1>2 DEF UpdateChannel

LEMMA DeleteChannelStep ==
    ASSUME SubscribersInv, NEW s \in Sessions, NEW u \in Users, NEW c \in ChannelIds,
           DeleteNotificationChannel(s, u, c)
    PROVE  SubscribersInv'
<1>1. /\ Reply(u, DeleteChannelStatus(DeleteChannelError(ChannelError(u, c))))
      /\ UNCHANGED <<store, req, call>>
    BY DEF DeleteNotificationChannel
<1>2. CASE UNCHANGED <<channels, subs>>
    BY <1>1, <1>2, SubscriberStatuses, RequestRefused
<1>3. CASE /\ channels' = Dropping(channels, {c})
           /\ subs' = Dropping(subs, {d \in DOMAIN subs : subs[d].channel = c})
  <2>1. /\ DOMAIN channels' = DOMAIN channels \ {c}
        /\ \A e \in DOMAIN channels' : channels'[e] = channels[e]
        /\ DOMAIN subs' = {d \in DOMAIN subs : subs[d].channel # c}
        /\ \A d \in DOMAIN subs' : subs'[d] = subs[d]
    BY <1>3 DEF Dropping
  <2>2. Stored' = Stored
    BY <1>1 DEF Stored, store
  <2>3. ChannelsInv'
    BY <2>1, <2>2, RowsGo DEF SubscribersInv, ChannelsInv, SubsOK, Linked
  <2>4. NoNewAddress
    BY <2>1 DEF NoNewAddress
  <2>5. CallsInv'
    BY <1>1, <2>4, CallsKept DEF SubscribersInv
  <2> QED
    BY <1>1, <2>3, <2>5, SubscriberStatuses, ReplyTyping, SearchesKept DEF SubscribersInv
<1> QED
    BY <1>2, <1>3 DEF DeleteNotificationChannel

LEMMA PingStep ==
    ASSUME SubscribersInv, NEW s \in Sessions, NEW u \in Users,
           NEW addresses \in SUBSET Addresses, PingUser(s, u, addresses)
    PROVE  SubscribersInv'
<1>1. UNCHANGED <<store, req, subs, call>>
    BY DEF PingUser
<1>2. ASSUME NEW code \in {403, 500}, Reply(u, code), UNCHANGED channels
      PROVE  SubscribersInv'
    BY <1>1, <1>2, RequestRefused DEF Codes
<1>3. ASSUME NEW new \in SUBSET Addresses, NEW id \in [new -> NewChannels],
             channels' = [c \in DOMAIN channels \cup {id[a] : a \in new} |->
                             IF c \in DOMAIN channels THEN channels[c]
                             ELSE NewChannel(u, "email", CHOOSE a \in new : id[a] = c)],
             Reply(u, 204)
      PROVE  SubscribersInv'
  <2>1. PICK N : N = {id[a] : a \in new}
    OBVIOUS
  <2>2. N \in SUBSET NewChannels
    BY <2>1
  <2>3. IsFiniteSet(N)
    <3>1. IsFiniteSet(new)
      BY FS_Subset, ChannelsAssumption
    <3>2. id \in Surjection(new, N)
      BY <2>1 DEF Surjection
    <3> QED
      BY <3>1, <3>2, FS_Surjection
  <2>4. \A c \in NewChannels : c \notin DOMAIN channels /\ \A t \in Sessions : call[t].channel # c
    BY DEF NewChannels
  <2>5. /\ DOMAIN channels' = DOMAIN channels \cup N
        /\ \A c \in DOMAIN channels : channels'[c] = channels[c]
    BY <1>3, <2>1
  <2>6. ASSUME NEW c \in N
        PROVE  channels'[c] \in Channel /\ channels'[c].owner = u
               /\ channels'[c].type = "email"
    <3>1. PICK a : a = CHOOSE b \in new : id[b] = c
      OBVIOUS
    <3>2. a \in Addresses
      <4>1. \E b \in new : id[b] = c
        BY <2>1
      <4> QED
        BY <3>1, <4>1
    <3>3. channels'[c] = NewChannel(u, "email", a)
      BY <1>3, <2>1, <2>2, <2>4, <3>1
    <3> QED
      BY <3>2, <3>3 DEF NewChannel, Channel, Types
  <2>7. ChannelsInv'
    BY <1>1, <2>2, <2>3, <2>5, <2>6, ChannelsCome DEF SubscribersInv
  <2>8. NoNewAddress
    BY <2>2, <2>4, <2>5 DEF NoNewAddress
  <2>9. CallsInv'
    BY <1>1, <2>8, CallsKept DEF SubscribersInv
  <2>10. reply' \in Replies
    BY <1>3, ReplyTyping DEF Codes
  <2> QED
    BY <1>1, <2>7, <2>9, <2>10, SearchesKept DEF SubscribersInv
<1> QED
  <2>1. addresses \ Known(u) \in SUBSET Addresses
    OBVIOUS
  <2> QED
    BY <1>2, <1>3, <2>1 DEF PingUser

LEMMA CreateSubscriptionStep ==
    ASSUME SubscribersInv, NEW s \in Sessions, NEW u \in Users,
           NEW c \in ChannelIds \cup {None}, NEW i \in Targets, NEW o \in Options,
           CreateSubscription(s, u, c, i, o)
    PROVE  SubscribersInv'
<1>1. PICK r : r = [NoCall EXCEPT !.at = "subscribe", !.user = u, !.channel = c,
                                  !.search = i, !.options = o]
    OBVIOUS
<1>2. r \in Calls /\ r.at = "subscribe" /\ r.user = u /\ r.options = o
    BY <1>1, ChannelsAssumption DEF NoCall, Calls
<1>3. UNCHANGED <<store, req, channels, subs, reply>> /\ call' = [call EXCEPT ![s] = r]
    BY <1>1 DEF CreateSubscription, Begin
<1>4. NoNewAddress
    BY <1>3 DEF NoNewAddress
<1>5. CallsInv'
    BY <1>2, <1>3, <1>4, CallChanges DEF SubscribersInv
<1> QED
    BY <1>3, <1>5, RequestMoves, ReplyKept DEF SubscribersInv

LEMMA AbortStep ==
    ASSUME SubscribersInv, NEW s \in Sessions, SubscribeAborts(s)
    PROVE  SubscribersInv'
<1>1. call[s] \in Calls /\ call[s].at = "subscribe" /\ call[s].user \in Users
      /\ call[s].options \in Options
    BY DEF SubscribersInv, CallsInv, Subscribing, SubscribeAborts
<1>2. PICK c \in FindOrCreateRSSChannel(call[s].user) :
          call' = [call EXCEPT ![s].channel = c, ![s].aborted = TRUE]
    BY DEF SubscribeAborts
<1>3. c \in ChannelIds
    BY <1>2 DEF FindOrCreateRSSChannel, RSSChannels, ChannelsOf, NewChannels,
               SubscribersInv, ChannelsInv, ChannelsOK
<1>4. PICK r : r = [call[s] EXCEPT !.channel = c, !.aborted = TRUE]
    OBVIOUS
<1>5. r \in Calls /\ r.at = "subscribe" /\ r.user \in Users /\ r.options \in Options
    BY <1>1, <1>3, <1>4 DEF Calls
<1>6. call' = [call EXCEPT ![s] = r]
    BY <1>2, <1>4
<1>7. UNCHANGED <<store, req, channels, subs, reply>>
    BY DEF SubscribeAborts
<1>8. NoNewAddress
    BY <1>7 DEF NoNewAddress
<1>9. CallsInv'
    BY <1>5, <1>6, <1>8, CallChanges DEF SubscribersInv
<1> QED
    BY <1>7, <1>9, RequestMoves, ReplyKept DEF SubscribersInv

\* The request has its subscription and will read it.
LEMMA SubscribedTyping ==
    ASSUME CallsInv, NoNewAddress, NEW s \in Sessions, NEW d \in SubscriptionIds,
           call' = [call EXCEPT ![s].at = "subscribed", ![s].id = d]
    PROVE  CallsInv'
<1>1. call[s] \in Calls
    BY DEF CallsInv
<1>2. PICK r : r = [call[s] EXCEPT !.at = "subscribed", !.id = d]
    OBVIOUS
<1>3. r \in Calls /\ r.at = "subscribed"
    BY <1>1, <1>2 DEF Calls
<1>4. call' = [call EXCEPT ![s] = r]
    BY <1>2
<1> QED
    BY <1>3, <1>4, CallChanges

\* The channel through which a request subscribes is one of the user's or about
\* to become the user's first for RSS, or the request is refused.
LEMMA SubscribeStep ==
    ASSUME SubscribersInv, NEW s \in Sessions, CreateSavedSearchSubscription(s)
    PROVE  SubscribersInv'
<1> DEFINE u == call[s].user
           i == call[s].search
           implicit == call[s].channel = None
<1>1. /\ call[s] \in Calls /\ call[s].at = "subscribe"
      /\ u \in Users /\ call[s].options \in Options
    BY DEF SubscribersInv, CallsInv, Subscribing, CreateSavedSearchSubscription
<1>2. UNCHANGED <<store, req>>
    BY DEF CreateSavedSearchSubscription
<1>3. PICK c \in IF implicit THEN FindOrCreateRSSChannel(u) ELSE {call[s].channel} :
          SubscribeThrough(s, c)
    BY DEF CreateSavedSearchSubscription
<1>4. c \in ChannelIds
    BY <1>1, <1>3 DEF Calls, FindOrCreateRSSChannel, RSSChannels, ChannelsOf, NewChannels,
                     SubscribersInv, ChannelsInv, ChannelsOK
<1>5. implicit => c \in ChannelsOf(u) \/ (c \notin DOMAIN channels /\ RSSChannels(u) = {})
    BY <1>3 DEF FindOrCreateRSSChannel, RSSChannels, NewChannels
<1>6. ASSUME NEW e, Refuse(s, e) PROVE SubscribersInv'
    BY <1>2, <1>6, SubscriberStatuses, RequestEnds DEF Refuse
<1>7. ASSUME NEW d \in DOMAIN subs,
             call' = [call EXCEPT ![s].at = "subscribed", ![s].id = d],
             UNCHANGED <<reply, channels, subs>>
      PROVE  SubscribersInv'
  <2>1. d \in SubscriptionIds
    BY DEF SubscribersInv, ChannelsInv, SubsOK
  <2>2. NoNewAddress
    BY <1>7 DEF NoNewAddress
  <2>3. CallsInv'
    BY <1>7, <2>1, <2>2, SubscribedTyping DEF SubscribersInv
  <2> QED
    BY <1>2, <1>7, <2>3, RequestMoves, ReplyKept DEF SubscribersInv
<1>8. ASSUME \A d \in DOMAIN subs : ~(subs[d].channel = c /\ subs[d].search = i),
             Cardinality(SubscriptionsOf(u)) < MaxSubscriptions,
             implicit \/ c \in ChannelsOf(u),
             i \in Stored,
             NEW d \in SubscriptionIds \ DOMAIN subs,
             subs' = With(subs, d, [channel |-> c, search |-> i,
                                    options |-> call[s].options]),
             call' = [call EXCEPT ![s].at = "subscribed", ![s].id = d],
             channels' = With(channels, c, NewChannel(u, "rss", None)),
             UNCHANGED reply
      PROVE  SubscribersInv'
  <2>1. PICK x : x = [channel |-> c, search |-> i, options |-> call[s].options]
    OBVIOUS
  <2>2. i \in Ids
    BY <1>8 DEF Stored, Ids, SubscribersInv, SearchesInv, TypeOK
  <2>3. x \in Subscription /\ x.channel = c /\ x.search = i
    BY <1>1, <1>4, <2>1, <2>2 DEF Subscription
  <2>4. c \in ChannelsOf(u) \/ (c \notin DOMAIN channels /\ RSSChannels(u) = {})
    BY <1>5, <1>8
  <2>5. subs' = With(subs, d, x)
    BY <1>8, <2>1
  <2>6. ChannelsInv'
    <3>1. \A e \in DOMAIN subs : ~(subs[e].channel = c /\ subs[e].search = x.search)
      BY <1>8, <2>3
    <3>2. ChannelsInv /\ UNCHANGED store /\ u \in Users /\ x.search \in Stored
      BY <1>1, <1>2, <1>8, <2>3 DEF SubscribersInv
    <3>3. /\ Cardinality(SubscriptionsOf(u)) < MaxSubscriptions
          /\ channels' = With(channels, c, NewChannel(u, "rss", None))
          /\ d \in SubscriptionIds \ DOMAIN subs
      BY <1>8
    <3> HIDE DEF u, i, implicit
    <3> QED
      BY <1>4, <2>3, <2>4, <2>5, <3>1, <3>2, <3>3, SubscriptionComes
  <2>7. NoNewAddress
    BY <1>8 DEF NoNewAddress, With, NewChannel
  <2>8. CallsInv'
    BY <1>8, <2>7, SubscribedTyping DEF SubscribersInv
  <2> QED
    BY <1>2, <1>8, <2>6, <2>8, SearchesKept, ReplyKept DEF SubscribersInv
<1>9. (\E e : Refuse(s, e))
      \/ (\E d \in DOMAIN subs :
             /\ call' = [call EXCEPT ![s].at = "subscribed", ![s].id = d]
             /\ UNCHANGED <<reply, channels, subs>>)
      \/ /\ \A d \in DOMAIN subs : ~(subs[d].channel = c /\ subs[d].search = i)
         /\ Cardinality(SubscriptionsOf(u)) < MaxSubscriptions
         /\ implicit \/ c \in ChannelsOf(u)
         /\ i \in Stored
         /\ \E d \in SubscriptionIds \ DOMAIN subs :
               /\ subs' = With(subs, d, [channel |-> c, search |-> i,
                                         options |-> call[s].options])
               /\ call' = [call EXCEPT ![s].at = "subscribed", ![s].id = d]
         /\ channels' = With(channels, c, NewChannel(u, "rss", None))
         /\ UNCHANGED reply
    BY <1>3 DEF SubscribeThrough
<1> QED
    BY <1>6, <1>7, <1>8, <1>9

LEMMA UpdateSubscriptionStep ==
    ASSUME SubscribersInv, NEW s \in Sessions, NEW u \in Users, NEW d \in SubscriptionIds,
           NEW o \in Options, UpdateSubscription(s, u, d, o)
    PROVE  SubscribersInv'
<1>1. UNCHANGED <<store, req, channels>>
    BY DEF UpdateSubscription
<1>2. CASE /\ Reply(u, UpdateSubscriptionStatus(
                          UpdateSubscriptionError(SubscriptionError(u, d))))
           /\ UNCHANGED <<subs, call>>
    BY <1>1, <1>2, SubscriberStatuses, RequestRefused
<1>3. CASE /\ d \in SubscriptionsOf(u)
           /\ subs' = [subs EXCEPT ![d].options = o]
           /\ Begin(s, [NoCall EXCEPT !.at = "resubscribed", !.user = u, !.id = d])
           /\ UNCHANGED reply
  <2>1. d \in DOMAIN subs /\ subs[d] \in Subscription
    BY <1>3 DEF SubscriptionsOf, SubscribersInv, ChannelsInv, SubsOK
  <2>2. PICK x : x = [subs[d] EXCEPT !.options = o]
    OBVIOUS
  <2>3. x \in Subscription /\ x.channel = subs[d].channel /\ x.search = subs[d].search
    BY <2>1, <2>2 DEF Subscription
  <2>4. /\ DOMAIN subs' = DOMAIN subs /\ subs'[d] = x
        /\ \A e \in DOMAIN subs : e # d => subs'[e] = subs[e]
    BY <1>3, <2>1, <2>2
  <2>5. Stored' = Stored
    BY <1>1 DEF Stored, store
  <2>6. ChannelsInv'
    BY <1>1, <2>3, <2>4, <2>5, RowsGo DEF SubscribersInv, ChannelsInv, SubsOK, Linked
  <2>7. PICK r : r = [NoCall EXCEPT !.at = "resubscribed", !.user = u, !.id = d]
    OBVIOUS
  <2>8. r \in Calls /\ r.at = "resubscribed"
    BY <2>7 DEF NoCall, Calls
  <2>9. NoNewAddress
    BY <1>1 DEF NoNewAddress
  <2>10. CallsInv'
    BY <1>3, <2>7, <2>8, <2>9, CallChanges DEF SubscribersInv, Begin
  <2> QED
    BY <1>1, <1>3, <2>6, <2>10, SearchesKept, ReplyKept DEF SubscribersInv
<1> QED
    BY <1>2, <1>3 DEF UpdateSubscription

LEMMA DeleteSubscriptionStep ==
    ASSUME SubscribersInv, NEW s \in Sessions, NEW u \in Users, NEW d \in SubscriptionIds,
           DeleteSubscription(s, u, d)
    PROVE  SubscribersInv'
<1>1. /\ UNCHANGED <<store, req, channels, call>>
      /\ Reply(u, DeleteSubscriptionStatus(
                      DeleteSubscriptionError(SubscriptionError(u, d))))
    BY DEF DeleteSubscription
<1>2. CASE UNCHANGED subs
    BY <1>1, <1>2, SubscriberStatuses, RequestRefused
<1>3. CASE subs' = Dropping(subs, {d})
  <2>1. DOMAIN subs' \subseteq DOMAIN subs /\ \A e \in DOMAIN subs' : subs'[e] = subs[e]
    BY <1>3 DEF Dropping
  <2>2. Stored' = Stored
    BY <1>1 DEF Stored, store
  <2>3. ChannelsInv'
    BY <1>1, <2>1, <2>2, RowsGo DEF SubscribersInv, ChannelsInv, SubsOK, Linked
  <2>4. NoNewAddress
    BY <1>1 DEF NoNewAddress
  <2>5. CallsInv'
    BY <1>1, <2>4, CallsKept DEF SubscribersInv
  <2> QED
    BY <1>1, <2>3, <2>5, SubscriberStatuses, ReplyTyping, SearchesKept DEF SubscribersInv
<1> QED
    BY <1>2, <1>3 DEF DeleteSubscription

\* Subscriptions go with their search.
LEMMA SearchRequestsStep == ASSUME SubscribersInv, SearchRequests PROVE SubscribersInv'
<1>1. SearchesInv'
  <2>1. {s \in Sessions : call[s].at = "idle"} \in SUBSET Sessions
    OBVIOUS
  <2> QED
    BY <2>1, SearchesStep DEF SearchRequests, SubscribersInv
<1>2. UNCHANGED <<channels, call>>
    BY DEF SearchRequests
<1>3. /\ \A d \in DOMAIN subs' : subs'[d] = subs[d] /\ d \in DOMAIN subs
      /\ \A d \in DOMAIN subs' : subs[d].search \notin DOMAIN saved \ DOMAIN saved'
    BY DEF SearchRequests, Dropping
<1>4. \A d \in DOMAIN subs' : subs[d].search \in Stored'
    BY <1>3 DEF SubscribersInv, ChannelsInv, Linked, Stored
<1>5. ChannelsInv'
    BY <1>2, <1>3, <1>4, RowsGo DEF SubscribersInv, ChannelsInv, SubsOK, Linked
<1>6. NoNewAddress
    BY <1>2 DEF NoNewAddress
<1>7. CallsInv'
    BY <1>2, <1>6, CallsKept DEF SubscribersInv
<1> QED
    BY <1>1, <1>5, <1>7 DEF SubscribersInv

LEMMA SubscribersStep == SubscribersInv /\ [SubscribersNext]_allVars => SubscribersInv'
<1> SUFFICES ASSUME SubscribersInv, [SubscribersNext]_allVars PROVE SubscribersInv'
    OBVIOUS
<1>1. CASE UNCHANGED allVars
  <2>1. UNCHANGED <<store, req, channels, subs, call, reply>>
    BY <1>1 DEF allVars, vars, subscribers
  <2>2. NoNewAddress
    BY <2>1 DEF NoNewAddress
  <2>3. CallsInv'
    BY <2>1, <2>2, CallsKept DEF SubscribersInv
  <2> QED
    BY <2>1, <2>3, RequestMoves, ReplyKept DEF SubscribersInv
<1>2. ASSUME NEW s \in Sessions, NEW u \in Users, ChannelRequests(s, u)
      PROVE  SubscribersInv'
  <2>1. CASE InvalidChannel(s, u)
    BY <2>1, RequestRefused DEF InvalidChannel, subscribers, Codes
  <2>2. CASE CreateNotificationChannel(s, u)
    BY <2>2, CreateChannelStep
  <2>3. ASSUME NEW addresses \in SUBSET Addresses, PingUser(s, u, addresses)
        PROVE  SubscribersInv'
    BY <2>3, PingStep
  <2>4. ASSUME NEW c \in ChannelIds, DeleteNotificationChannel(s, u, c)
        PROVE  SubscribersInv'
    BY <2>4, DeleteChannelStep
  <2>5. ASSUME NEW c \in ChannelIds, NEW type \in UpdateTypes,
               UpdateNotificationChannel(s, u, c, type)
        PROVE  SubscribersInv'
    BY <2>5, UpdateRequestStep
  <2> QED
    BY <1>2, <2>1, <2>2, <2>3, <2>4, <2>5 DEF ChannelRequests
<1>3. ASSUME NEW s \in Sessions, NEW u \in Users, SubscriptionRequests(s, u)
      PROVE  SubscribersInv'
  <2>1. CASE InvalidSubscription(s, u)
    BY <2>1, RequestRefused DEF InvalidSubscription, subscribers, Codes
  <2>2. ASSUME NEW c \in ChannelIds \cup {None}, NEW i \in Targets, NEW o \in Options,
               CreateSubscription(s, u, c, i, o)
        PROVE  SubscribersInv'
    BY <2>2, CreateSubscriptionStep
  <2>3. ASSUME NEW d \in SubscriptionIds, NEW o \in Options, UpdateSubscription(s, u, d, o)
        PROVE  SubscribersInv'
    BY <2>3, UpdateSubscriptionStep
  <2>4. ASSUME NEW d \in SubscriptionIds, DeleteSubscription(s, u, d)
        PROVE  SubscribersInv'
    BY <2>4, DeleteSubscriptionStep
  <2> QED
    BY <1>3, <2>1, <2>2, <2>3, <2>4 DEF SubscriptionRequests
<1>4. ASSUME NEW s \in Sessions,
             GetNotificationChannel(s) \/ GetSavedSearchSubscription(s)
      PROVE  SubscribersInv'
  <2>1. PICK code \in Codes : Finish(s, code)
    BY <1>4, SubscriberStatuses DEF GetNotificationChannel, GetSavedSearchSubscription
  <2>2. UNCHANGED <<store, req, channels, subs>>
    BY <1>4 DEF GetNotificationChannel, GetSavedSearchSubscription
  <2> QED
    BY <2>1, <2>2, RequestEnds
<1> QED
    BY <1>1, <1>2, <1>3, <1>4, SearchRequestsStep, UpdateChannelStep, AbortStep, SubscribeStep
    DEF SubscribersNext

LEMMA SubscribersInitially == SubscribersInit => SubscribersInv
<1> SUFFICES ASSUME SubscribersInit PROVE SubscribersInv
    OBVIOUS
<1>1. SearchesInv
    BY SearchesInitially DEF SubscribersInit
<1>2. DOMAIN channels = {} /\ DOMAIN subs = {} /\ call = [s \in Sessions |-> NoCall]
    BY DEF SubscribersInit
<1>3. CallsInv
    BY <1>2, NoCallType DEF CallsInv, Subscribing, Updating
<1>4. \A u : Webhooks(u) = {} /\ RSSChannels(u) = {} /\ SubscriptionsOf(u) = {}
    BY <1>2 DEF Webhooks, RSSChannels, ChannelsOf, SubscriptionsOf
<1>5. ChannelsOK /\ SubsOK /\ Linked /\ Distinct /\ OneRSSChannel
    BY <1>2, <1>4, FS_EmptySet
    DEF ChannelsOK, SubsOK, Linked, Distinct, OneRSSChannel
<1>6. WithinLimits
    BY <1>4, FS_EmptySet, ChannelsAssumption DEF WithinLimits
<1> QED
    BY <1>1, <1>3, <1>5, <1>6 DEF SubscribersInv, ChannelsInv

LEMMA SubscribersInvariant == SubscribersSpec => []SubscribersInv
BY SubscribersInitially, SubscribersStep, PTL DEF SubscribersSpec
-----------------------------------------------------------------------------
(* What follows *)

\* Every table and every request is what its columns and its handler make it.
THEOREM SubscribersTyped == SubscribersSpec => []SubscribersTypeOK
BY SubscribersInvariant, SubscribersInvImplies, PTL

\* However requests of any number of users interleave, a search has one owner,
\* who finds it, and roles and bookmarks go with it.
THEOREM OwnersFind == SubscribersSpec => []OwnersFindTheirSearches
BY SubscribersInvariant, SubscribersInvImplies, PTL

\* Subscriptions have their channel and their search, there is one per pair, and
\* a user has at most one RSS channel.
THEOREM SubscriptionsSound == SubscribersSpec => []SubscriptionsAreSound
BY SubscribersInvariant, SubscribersInvImplies, PTL

\* The four limits hold, whatever they are and however requests race.
THEOREM LimitsAreKept == SubscribersSpec => []UserLimitsHold
BY SubscribersInvariant, SubscribersInvImplies, PTL

\* A request for the RSS channel of a user whose attempts are not aborted finds
\* or creates it: a new identifier is of no subscription, so that the request is
\* refused only for a reason of its own.
THEOREM RSSFound == SubscribersSpec => RSSChannelIsFoundOrCreated
<1> DEFINE Reason(s) ==
        \/ Cardinality(SubscriptionsOf(call[s].user)) >= MaxSubscriptions
        \/ call[s].search \notin Stored
        \/ \E d \in DOMAIN subs :
              /\ subs[d].channel \in RSSChannels(call[s].user)
              /\ subs[d].search = call[s].search
              /\ subs[d].options # call[s].options
           Ends(s) ==
        call[s].at = "subscribe" /\ call[s].channel = None /\ call'[s].at = "idle"
<1>1. ASSUME SubscribersInv, [SubscribersNext]_allVars, NEW s \in Sessions, Ends(s)
      PROVE  Reason(s)
  <2>1. /\ call \in [Sessions -> Calls]
        /\ \A d \in DOMAIN subs : subs[d].channel \in DOMAIN channels
    BY <1>1 DEF SubscribersInv, CallsInv, ChannelsInv, Linked
  <2>2. call'[s] # call[s]
    BY <1>1
  <2>3. \A t \in Sessions : \A r : call' = [call EXCEPT ![t] = r] => s = t
    BY <2>1, <2>2
  <2>4. CreateSavedSearchSubscription(s)
    <3>1. ~SearchRequests /\ call' # call
      BY <2>2 DEF SearchRequests
    <3>2. ASSUME NEW t \in Sessions, NEW u \in Users, ChannelRequests(t, u)
          PROVE  FALSE
      BY <1>1, <2>3, <3>1, <3>2 DEF ChannelRequests, InvalidChannel,
         CreateNotificationChannel, PingUser, UpdateNotificationChannel,
         DeleteNotificationChannel, subscribers, Begin, Free
    <3>3. ASSUME NEW t \in Sessions, NEW u \in Users, SubscriptionRequests(t, u)
          PROVE  FALSE
      BY <1>1, <2>3, <3>1, <3>3 DEF SubscriptionRequests, InvalidSubscription,
         CreateSubscription, UpdateSubscription, DeleteSubscription, subscribers, Begin, Free
    <3>4. ASSUME NEW t \in Sessions,
                 GetNotificationChannel(t) \/ GetSavedSearchSubscription(t)
          PROVE  FALSE
      BY <1>1, <2>3, <3>4 DEF GetNotificationChannel, GetSavedSearchSubscription, Finish
    <3>5. ASSUME NEW t \in Sessions, UpdateChannel(t) PROVE FALSE
      <4>1. call[t].at = "update" /\ t # s
        BY <1>1, <3>5 DEF UpdateChannel
      <4> QED
        BY <2>1, <2>2, <3>5, <4>1 DEF UpdateChannel, Finish
    <3>6. ASSUME NEW t \in Sessions, SubscribeAborts(t) PROVE FALSE
      <4>1. PICK c : call' = [call EXCEPT ![t].channel = c, ![t].aborted = TRUE]
        BY <3>6 DEF SubscribeAborts
      <4>2. call'[s].at = call[s].at
        BY <2>1, <4>1 DEF Calls
      <4> QED
        BY <1>1, <4>2
    <3>7. ASSUME NEW t \in Sessions, CreateSavedSearchSubscription(t) PROVE t = s
      <4>1. call[t].at = "subscribe"
        BY <3>7 DEF CreateSavedSearchSubscription
      <4>2. PICK c : SubscribeThrough(t, c)
        BY <3>7 DEF CreateSavedSearchSubscription
      <4>3. \/ call' = [call EXCEPT ![t] = NoCall]
            \/ \E d : call' = [call EXCEPT ![t].at = "subscribed", ![t].id = d]
        BY <4>2 DEF SubscribeThrough, Refuse, Finish
      <4> QED
        BY <2>1, <2>2, <4>3
    <3>8. SubscribersNext
      BY <1>1, <3>1 DEF allVars, subscribers
    <3> QED
      BY <3>1, <3>2, <3>3, <3>4, <3>5, <3>6, <3>7, <3>8 DEF SubscribersNext
  <2>5. PICK c \in FindOrCreateRSSChannel(call[s].user) : SubscribeThrough(s, c)
    BY <1>1, <2>4 DEF CreateSavedSearchSubscription
  <2>6. (\E d \in DOMAIN subs : subs[d].channel = c) => c \in RSSChannels(call[s].user)
    BY <2>1, <2>5 DEF FindOrCreateRSSChannel, NewChannels
  <2>7. \A d : call' # [call EXCEPT ![s].at = "subscribed", ![s].id = d]
    BY <1>1, <2>1 DEF Calls
  <2> QED
    BY <1>1, <2>5, <2>6, <2>7 DEF SubscribeThrough
<1>2. SubscribersInv /\ [SubscribersNext]_allVars
          => [\A s \in Sessions : Ends(s) => Reason(s)]_allVars
    BY <1>1
<1> QED
    BY <1>2, SubscribersInvariant, PTL DEF SubscribersSpec, RSSChannelIsFoundOrCreated
-----------------------------------------------------------------------------
(* Expansion: the recursive functions are what their equations say *)

LEMMA QueriesAreTyped ==
    ASSUME TypeOK, NEW r \in Stored
    PROVE  /\ r \in Ids /\ QueryOf(r) \in Query
           /\ (QueryOf(r) = Blank <=> r \in Blanks)
<1>1. Plain \in Query /\ Blank \in Query /\ Plain # Blank
    BY DEF Plain, Blank, Query
<1>2. CASE r \in Globals
    BY <1>1, <1>2 DEF QueryOf, GlobalQuery, Ids
<1>3. CASE r \notin Globals
    BY <1>3, IdsAssumption DEF QueryOf, TypeOK, UserQueries, Stored, Ids
<1> QED
    BY <1>2, <1>3

LEMMA AwayIs ==
    ASSUME TypeOK, NEW i \in Ids
    PROVE  /\ Away[0][i] = {i}
           /\ \A n \in Nat : Away[n + 1][i] = UNION {QueryOf(r).refs : r \in Away[n][i] \cap Stored}
<1> DEFINE Maps == [Ids -> SUBSET Ids]
           On(a, j) == UNION {QueryOf(r).refs : r \in a[j] \cap Stored}
           Step == [a \in Maps |-> [j \in Ids |-> On(a, j)]]
           Here == [j \in Ids |-> {j}]
           IsAway(h) == h = [n \in Nat |-> [j \in Ids |-> IF n = 0 THEN {j} ELSE On(h[n - 1], j)]]
<1>1. \A r \in Stored : QueryOf(r).refs \subseteq Ids
    BY QueriesAreTyped DEF Query
<1>2. Step \in [Maps -> Maps] /\ Here \in Maps
    <2>1. ASSUME NEW a \in Maps
          PROVE  [j \in Ids |-> On(a, j)] \in Maps
        BY <1>1
    <2> QED
        BY <2>1
<1>3. PICK h \in [Nat -> Maps] : h[0] = Here /\ \A n \in Nat : h[n + 1] = Step[h[n]]
    <2>1. \E h : AreIterates(h, Maps, Step, Here)
        <3> HIDE DEF Maps, Step, Here
        <3> QED
            BY <1>2, Iterates
    <2> HIDE DEF Maps, Step, Here
    <2> QED
        BY <2>1 DEF AreIterates
<1>4. ASSUME NEW n \in Nat
      PROVE  h[n + 1] = [j \in Ids |-> On(h[n], j)]
    <2> HIDE DEF Maps, On
    <2> QED
        BY <1>3
<1>5. ASSUME NEW n \in Nat
      PROVE  h[n] = [j \in Ids |-> IF n = 0 THEN {j} ELSE On(h[n - 1], j)]
    <2>1. CASE n = 0
        BY <1>3, <2>1
    <2>2. CASE n # 0
        <3>1. n - 1 \in Nat /\ (n - 1) + 1 = n
            BY <2>2
        <3>2. h[n] = [j \in Ids |-> On(h[n - 1], j)]
            BY <3>1, <1>4
        <3> HIDE DEF On
        <3> QED
            BY <2>2, <3>2
    <2> QED
        BY <2>1, <2>2
<1>6. IsAway(h)
    <2> HIDE DEF On, Maps
    <2>1. h = [n \in Nat |-> h[n]]
        BY <1>3
    <2> QED
        BY <1>5, <2>1
<1>7. IsAway(Away)
    <2>1. Away = CHOOSE f : IsAway(f)
        BY DEF Away
    <2> HIDE DEF IsAway
    <2> QED
        BY <1>6, <2>1
<1>8. Away[0][i] = {i}
    BY <1>7
<1>9. ASSUME NEW n \in Nat
      PROVE  Away[n + 1][i] = On(Away[n], i)
    <2>1. n + 1 \in Nat /\ n + 1 # 0 /\ (n + 1) - 1 = n
        OBVIOUS
    <2> HIDE DEF On
    <2>2. Away[n + 1] = [j \in Ids |-> IF n + 1 = 0 THEN {j} ELSE On(Away[(n + 1) - 1], j)]
        BY <1>7, <2>1
    <2> QED
        BY <2>1, <2>2
<1> QED
    BY <1>8, <1>9

ExpansionErrors == {"depth", "cycle", "not found"}

\* The errors of query q, if those of the queries it leads to are in f.
ErrorsUnder(f, open, q) ==
    UNION { IF r \in open THEN {"cycle"}
            ELSE IF r \notin Stored THEN {"not found"}
            ELSE IF QueryOf(r) = Blank THEN {}
            ELSE f[open \cup {r}][QueryOf(r)]
            : r \in q.refs }

LEMMA ExpansionIs ==
    ASSUME TypeOK
    PROVE  \A depth \in Nat, open \in SUBSET Ids : \A q \in Query :
               Expansion[depth][open][q] =
                   IF depth > MaxDepth THEN {"depth"} ELSE ErrorsUnder(Expansion[depth + 1], open, q)
<1> DEFINE Maps == [SUBSET Ids -> [Query -> SUBSET ExpansionErrors]]
           Step == [f \in Maps |-> [open \in SUBSET Ids |->
                       [q \in Query |-> ErrorsUnder(f, open, q)]]]
           Deepest == [open \in SUBSET Ids |-> [q \in Query |-> {"depth"}]]
           At(f, depth) == [open \in SUBSET Ids |-> [q \in Query |->
                       IF depth > MaxDepth THEN {"depth"} ELSE ErrorsUnder(f, open, q)]]
           IsExpansion(h) == h = [depth \in Nat |-> At(h[depth + 1], depth)]
<1>1. Step \in [Maps -> Maps] /\ Deepest \in Maps
    <2>1. ASSUME NEW f \in Maps, NEW open \in SUBSET Ids, NEW q \in Query
          PROVE  ErrorsUnder(f, open, q) \in SUBSET ExpansionErrors
        <3>1. ASSUME NEW r \in q.refs, r \in Stored
              PROVE  f[open \cup {r}][QueryOf(r)] \in SUBSET ExpansionErrors
            BY <3>1, QueriesAreTyped
        <3> QED
            BY <3>1 DEF ErrorsUnder, ExpansionErrors
    <2> QED
        BY <2>1 DEF ExpansionErrors
<1>2. PICK h \in [Nat -> Maps] : h[0] = Deepest /\ \A n \in Nat : h[n + 1] = Step[h[n]]
    <2>1. \E h : AreIterates(h, Maps, Step, Deepest)
        <3> HIDE DEF Maps, Step, Deepest
        <3> QED
            BY <1>1, Iterates
    <2> HIDE DEF Maps, Step, Deepest
    <2> QED
        BY <2>1 DEF AreIterates
<1>3. PICK e : e = [depth \in Nat |-> IF depth > MaxDepth THEN Deepest ELSE h[(MaxDepth + 1) - depth]]
    OBVIOUS
<1>4. ASSUME NEW depth \in Nat
      PROVE  e[depth] = At(e[depth + 1], depth)
    <2>1. CASE depth > MaxDepth
        BY <1>3, <2>1
    <2>2. CASE depth <= MaxDepth
        <3>1. PICK n \in Nat : n = MaxDepth - depth
            BY <2>2, BoundsAssumption
        <3>2. (MaxDepth + 1) - depth = n + 1 /\ ~(depth > MaxDepth) /\ depth + 1 \in Nat
            BY <2>2, <3>1, BoundsAssumption
        <3>3. e[depth] = Step[h[n]]
            <4> HIDE DEF Step, Deepest, Maps
            <4> QED
                BY <1>2, <1>3, <3>2
        <3>4. e[depth + 1] = h[n]
            <4>1. CASE n = 0
                <5>1. depth + 1 > MaxDepth
                    BY <4>1, <3>1, BoundsAssumption
                <5> HIDE DEF Step, Deepest, Maps
                <5> QED
                    BY <5>1, <4>1, <1>2, <1>3, <3>2
            <4>2. CASE n # 0
                <5>1. ~(depth + 1 > MaxDepth) /\ (MaxDepth + 1) - (depth + 1) = n
                    BY <4>2, <3>1, BoundsAssumption
                <5> HIDE DEF Step, Deepest, Maps
                <5> QED
                    BY <5>1, <1>3, <3>2
            <4> QED
                BY <4>1, <4>2
        <3>5. Step[h[n]] = [open \in SUBSET Ids |-> [q \in Query |-> ErrorsUnder(h[n], open, q)]]
            <4>1. h[n] \in Maps
                BY <1>2
            <4> HIDE DEF Maps
            <4> QED
                BY <4>1
        <3>6. At(h[n], depth) = [open \in SUBSET Ids |-> [q \in Query |-> ErrorsUnder(h[n], open, q)]]
            BY <3>2
        <3> HIDE DEF At, Step
        <3> QED
            BY <3>3, <3>4, <3>5, <3>6
    <2> QED
        BY <2>1, <2>2, BoundsAssumption
<1>5. IsExpansion(e)
    <2> HIDE DEF At, Deepest
    <2>1. e = [depth \in Nat |-> e[depth]]
        BY <1>3
    <2> QED
        BY <1>4, <2>1
<1>6. IsExpansion(Expansion)
    <2>1. Expansion = CHOOSE f : IsExpansion(f)
        BY DEF Expansion, ErrorsUnder
    <2> HIDE DEF IsExpansion
    <2> QED
        BY <1>5, <2>1
<1>7. ASSUME NEW depth \in Nat
      PROVE  Expansion[depth] = At(Expansion[depth + 1], depth)
    <2> HIDE DEF At
    <2> QED
        BY <1>6
<1>8. ASSUME NEW depth \in Nat, NEW open \in SUBSET Ids, NEW q \in Query
      PROVE  Expansion[depth][open][q] =
                 IF depth > MaxDepth THEN {"depth"} ELSE ErrorsUnder(Expansion[depth + 1], open, q)
    <2>1. Expansion[depth][open] =
              [r \in Query |-> IF depth > MaxDepth THEN {"depth"}
                               ELSE ErrorsUnder(Expansion[depth + 1], open, r)]
        BY <1>7
    <2> QED
        BY <2>1
<1> QED
    BY <1>8
-----------------------------------------------------------------------------
(***************************************************************************)
(* Expansion succeeds exactly if what is within the limit exists and what  *)
(* is at it is empty.  By induction over the references that are left:     *)
(* under the open searches, each of which leads to another of them or to   *)
(* the query that is expanded, a cycle is what never gets away from them.   *)
(***************************************************************************)

Told == Stored \ Blanks

\* One reference first, and then n.
LEMMA AwayFromReferences ==
    ASSUME TypeOK, NEW n \in Nat
    PROVE  \A i \in Stored : Away[n + 1][i] = UNION {Away[n][r] : r \in QueryOf(i).refs}
<1> DEFINE T == {m \in Nat : \A i \in Stored :
                    Away[m + 1][i] = UNION {Away[m][r] : r \in QueryOf(i).refs}}
<1>1. \A i \in Stored : i \in Ids /\ QueryOf(i).refs \subseteq Ids
    BY QueriesAreTyped DEF Query
<1>2. ASSUME NEW i \in Ids
      PROVE  /\ Away[0][i] = {i}
             /\ \A m \in Nat : Away[m + 1][i] = UNION {QueryOf(r).refs : r \in Away[m][i] \cap Stored}
    BY AwayIs
<1>3. 0 \in T
    <2> SUFFICES ASSUME NEW i \in Stored
                 PROVE  Away[0 + 1][i] = UNION {Away[0][r] : r \in QueryOf(i).refs}
        OBVIOUS
    <2>1. Away[0 + 1][i] = QueryOf(i).refs
        <3>1. Away[0][i] \cap Stored = {i}
            BY <1>1, <1>2
        <3>2. Away[0 + 1][i] = UNION {QueryOf(r).refs : r \in Away[0][i] \cap Stored}
            BY <1>1, <1>2
        <3> QED
            BY <3>1, <3>2
    <2>2. UNION {Away[0][r] : r \in QueryOf(i).refs} = QueryOf(i).refs
        <3>1. \A r \in QueryOf(i).refs : Away[0][r] = {r}
            BY <1>1, <1>2
        <3> QED
            BY <3>1
    <2> QED
        BY <2>1, <2>2
<1>4. ASSUME NEW m \in T
      PROVE  m + 1 \in T
    <2>1. m \in Nat /\ m + 1 \in Nat
        OBVIOUS
    <2> SUFFICES ASSUME NEW i \in Stored
                 PROVE  Away[(m + 1) + 1][i] = UNION {Away[m + 1][r] : r \in QueryOf(i).refs}
        BY <2>1
    <2>2. Away[m + 1][i] = UNION {Away[m][r] : r \in QueryOf(i).refs}
        OBVIOUS
    <2>3. Away[(m + 1) + 1][i] = UNION {QueryOf(t).refs : t \in Away[m + 1][i] \cap Stored}
        BY <1>1, <1>2, <2>1
    <2>4. ASSUME NEW r \in QueryOf(i).refs
          PROVE  Away[m + 1][r] = UNION {QueryOf(t).refs : t \in Away[m][r] \cap Stored}
        BY <1>1, <1>2, <2>1
    <2> HIDE DEF T
    <2> QED
        BY <2>2, <2>3, <2>4
<1>5. T = Nat
    <2>1. T \in SUBSET Nat
        OBVIOUS
    <2> HIDE DEF T
    <2> QED
        BY <1>3, <1>4, <2>1, ByInduction
<1> QED
    BY <1>5

\* Nothing is away from an empty search.
LEMMA NothingAwayFromBlanks ==
    ASSUME TypeOK, NEW r \in Blanks, NEW n \in Nat
    PROVE  r \in Stored /\ Away[n][r] \subseteq {r}
<1>1. r \in Stored /\ r \in Ids /\ QueryOf(r).refs = {}
    <2>1. r \in Stored
        BY IdsAssumption DEF Stored
    <2> QED
        BY <2>1, QueriesAreTyped DEF Blank
<1>2. CASE n = 0
    BY <1>1, <1>2, AwayIs
<1>3. CASE n # 0
    <2>1. n - 1 \in Nat /\ (n - 1) + 1 = n
        BY <1>3
    <2>2. Away[n][r] = UNION {Away[n - 1][x] : x \in QueryOf(r).refs}
        BY <1>1, <2>1, AwayFromReferences
    <2> QED
        BY <1>1, <2>2
<1> QED
    BY <1>1, <1>2, <1>3

\* Each of the open searches refers to another, or is the one being expanded.
Chained(open, i) ==
    /\ open \in SUBSET Told
    /\ \A o \in open : QueryOf(o) = QueryOf(i) \/ QueryOf(o).refs \cap open # {}

\* A cycle is never left.
LEMMA CyclesGoOn ==
    ASSUME TypeOK, NEW i \in Told, NEW open, Chained(open, i), QueryOf(i).refs \cap open # {},
           NEW n \in Nat
    PROVE  ~(Away[n + 1][i] \subseteq Blanks)
<1> DEFINE T == {m \in Nat : Away[m + 1][i] \cap open # {}}
<1>1. i \in Stored /\ i \in Ids
    BY QueriesAreTyped DEF Told
<1>2. open \subseteq Stored /\ \A o \in open : QueryOf(o).refs \cap open # {}
    BY DEF Chained, Told
<1>3. /\ Away[0][i] = {i}
      /\ \A m \in Nat : Away[m + 1][i] = UNION {QueryOf(r).refs : r \in Away[m][i] \cap Stored}
    BY <1>1, AwayIs
<1>4. 0 \in T
    <2>1. Away[0 + 1][i] = QueryOf(i).refs
        <3>1. Away[0][i] \cap Stored = {i}
            BY <1>1, <1>3
        <3>2. Away[0 + 1][i] = UNION {QueryOf(r).refs : r \in Away[0][i] \cap Stored}
            BY <1>3
        <3> QED
            BY <3>1, <3>2
    <2> QED
        BY <2>1
<1>5. ASSUME NEW m \in T
      PROVE  m + 1 \in T
    <2>1. m \in Nat /\ m + 1 \in Nat
        OBVIOUS
    <2>2. PICK o \in open : o \in Away[m + 1][i]
        OBVIOUS
    <2>3. PICK p \in open : p \in QueryOf(o).refs
        BY <1>2
    <2>4. p \in Away[(m + 1) + 1][i]
        BY <1>2, <1>3, <2>1, <2>2, <2>3
    <2> QED
        BY <2>1, <2>4
<1>6. n \in T
    <2>1. T \in SUBSET Nat
        OBVIOUS
    <2> HIDE DEF T
    <2> QED
        BY <1>4, <1>5, <2>1, ByInduction
<1> QED
    BY <1>6 DEF Chained, Told

\* All that is up to n references away exists, and what is n away is empty.
EndsWithin(n, i) ==
    (\A k \in 0 .. n : Away[k][i] \subseteq Stored) /\ Away[n][i] \subseteq Blanks

LEMMA BlanksEnd ==
    ASSUME TypeOK, NEW r \in Blanks, NEW n \in Nat
    PROVE  EndsWithin(n, r)
BY NothingAwayFromBlanks DEF EndsWithin

LEMMA EndsOneFurther ==
    ASSUME TypeOK, NEW i \in Stored, NEW n \in Nat
    PROVE  EndsWithin(n + 1, i) <=> \A r \in QueryOf(i).refs : EndsWithin(n, r)
<1>1. i \in Ids /\ Away[0][i] \subseteq Stored
    BY QueriesAreTyped, AwayIs
<1>2. ASSUME NEW k \in Nat
      PROVE  Away[k + 1][i] = UNION {Away[k][r] : r \in QueryOf(i).refs}
    BY AwayFromReferences
<1>3. ASSUME EndsWithin(n + 1, i), NEW r \in QueryOf(i).refs
      PROVE  EndsWithin(n, r)
    <2>1. ASSUME NEW k \in 0 .. n
          PROVE  Away[k][r] \subseteq Stored
        <3>1. k \in Nat /\ k + 1 \in 0 .. n + 1
            OBVIOUS
        <3>2. Away[k + 1][i] \subseteq Stored
            BY <1>3, <3>1 DEF EndsWithin
        <3> QED
            BY <1>2, <3>1, <3>2
    <2>2. Away[n][r] \subseteq Blanks
        BY <1>2, <1>3 DEF EndsWithin
    <2> QED
        BY <2>1, <2>2 DEF EndsWithin
<1>4. ASSUME \A r \in QueryOf(i).refs : EndsWithin(n, r)
      PROVE  EndsWithin(n + 1, i)
    <2>1. ASSUME NEW k \in 0 .. n + 1
          PROVE  Away[k][i] \subseteq Stored
        <3>1. CASE k = 0
            BY <1>1, <3>1
        <3>2. CASE k # 0
            <4>1. k - 1 \in 0 .. n /\ k - 1 \in Nat /\ (k - 1) + 1 = k
                BY <3>2
            <4>2. \A r \in QueryOf(i).refs : Away[k - 1][r] \subseteq Stored
                BY <1>4, <4>1 DEF EndsWithin
            <4>3. Away[k][i] = UNION {Away[k - 1][r] : r \in QueryOf(i).refs}
                BY <1>2, <4>1
            <4> QED
                BY <4>2, <4>3
        <3> QED
            BY <3>1, <3>2
    <2>2. Away[n + 1][i] \subseteq Blanks
        <3>1. Away[n + 1][i] = UNION {Away[n][r] : r \in QueryOf(i).refs}
            BY <1>2
        <3>2. \A r \in QueryOf(i).refs : Away[n][r] \subseteq Blanks
            BY <1>4 DEF EndsWithin
        <3> QED
            BY <3>1, <3>2
    <2> QED
        BY <2>1, <2>2 DEF EndsWithin
<1> QED
    BY <1>3, <1>4

Expands(depth, open, i) == Expansion[depth][open][QueryOf(i)] = {}

\* One step of the expansion.
LEMMA ExpandsOneFurther ==
    ASSUME TypeOK, NEW i \in Stored, NEW open \in SUBSET Ids, NEW depth \in Nat, depth <= MaxDepth
    PROVE  Expands(depth, open, i) <=>
               \A r \in QueryOf(i).refs :
                   /\ r \notin open /\ r \in Stored
                   /\ r \in Blanks \/ Expands(depth + 1, open \cup {r}, r)
<1>1. QueryOf(i) \in Query /\ ~(depth > MaxDepth)
    BY QueriesAreTyped, BoundsAssumption
<1>2. Expansion[depth][open][QueryOf(i)] = ErrorsUnder(Expansion[depth + 1], open, QueryOf(i))
    BY <1>1, ExpansionIs
<1>3. \A r \in Stored : QueryOf(r) = Blank <=> r \in Blanks
    BY QueriesAreTyped
<1> DEFINE ErrorsOf(r) ==
        IF r \in open THEN {"cycle"}
        ELSE IF r \notin Stored THEN {"not found"}
        ELSE IF QueryOf(r) = Blank THEN {}
        ELSE Expansion[depth + 1][open \cup {r}][QueryOf(r)]
<1>4. ErrorsUnder(Expansion[depth + 1], open, QueryOf(i)) = UNION {ErrorsOf(r) : r \in QueryOf(i).refs}
    BY DEF ErrorsUnder
<1>5. ASSUME NEW r \in QueryOf(i).refs
      PROVE  ErrorsOf(r) = {} <=>
                 /\ r \notin open /\ r \in Stored
                 /\ r \in Blanks \/ Expands(depth + 1, open \cup {r}, r)
    BY <1>3 DEF Expands
<1> HIDE DEF ErrorsOf
<1>6. UNION {ErrorsOf(r) : r \in QueryOf(i).refs} = {} <=> \A r \in QueryOf(i).refs : ErrorsOf(r) = {}
    OBVIOUS
<1>7. Expands(depth, open, i) <=> \A r \in QueryOf(i).refs : ErrorsOf(r) = {}
    BY <1>2, <1>4, <1>6 DEF Expands
<1> QED
    BY <1>5, <1>7

\* The recursion, with n depths left.
LEMMA ExpansionEnds ==
    ASSUME TypeOK, NEW n \in 0 .. MaxDepth + 1
    PROVE  \A i \in Told : \A open \in SUBSET Told :
               Chained(open, i) => (Expands((MaxDepth + 1) - n, open, i) <=> EndsWithin(n, i))
<1> DEFINE Is(m) == \A i \in Told : \A open \in SUBSET Told :
               Chained(open, i) => (Expands((MaxDepth + 1) - m, open, i) <=> EndsWithin(m, i))
           T == {m \in Nat : m <= MaxDepth + 1 => Is(m)}
<1>1. \A i \in Told : i \in Stored /\ i \in Ids /\ i \notin Blanks
    BY QueriesAreTyped DEF Told
<1>2. 0 \in T
    <2> SUFFICES ASSUME NEW i \in Told, NEW open \in SUBSET Told
                 PROVE  ~Expands((MaxDepth + 1) - 0, open, i) /\ ~EndsWithin(0, i)
        OBVIOUS
    <2>1. Expansion[MaxDepth + 1][open][QueryOf(i)] = {"depth"}
        <3>1. MaxDepth + 1 \in Nat /\ MaxDepth + 1 > MaxDepth
            BY BoundsAssumption
        <3>2. QueryOf(i) \in Query /\ open \in SUBSET Ids
            BY <1>1, QueriesAreTyped
        <3> QED
            BY <3>1, <3>2, ExpansionIs
    <2>2. (MaxDepth + 1) - 0 = MaxDepth + 1
        BY BoundsAssumption
    <2>3. Away[0][i] = {i}
        BY <1>1, AwayIs
    <2> QED
        BY <1>1, <2>1, <2>2, <2>3 DEF Expands, EndsWithin
<1>3. ASSUME NEW m \in T
      PROVE  m + 1 \in T
    <2>1. m \in Nat /\ m + 1 \in Nat
        OBVIOUS
    <2> SUFFICES ASSUME m + 1 <= MaxDepth + 1, NEW i \in Told, NEW open \in SUBSET Told,
                        Chained(open, i)
                 PROVE  Expands((MaxDepth + 1) - (m + 1), open, i) <=> EndsWithin(m + 1, i)
        BY <2>1
    <2>2. PICK depth \in Nat : depth = (MaxDepth + 1) - (m + 1)
        BY <2>1, BoundsAssumption
    <2>3. depth <= MaxDepth /\ depth + 1 = (MaxDepth + 1) - m /\ m <= MaxDepth + 1
        BY <2>1, <2>2, BoundsAssumption
    <2>4. Expands(depth, open, i) <=>
              \A r \in QueryOf(i).refs :
                  /\ r \notin open /\ r \in Stored
                  /\ r \in Blanks \/ Expands(depth + 1, open \cup {r}, r)
        <3>1. open \in SUBSET Ids /\ i \in Stored
            BY <1>1
        <3> QED
            BY <2>3, <3>1, ExpandsOneFurther
    <2>5. ASSUME NEW r \in QueryOf(i).refs, r \in Told
          PROVE  Expands(depth + 1, open \cup {r}, r) <=> EndsWithin(m, r)
        <3>1. Chained(open \cup {r}, r) /\ open \cup {r} \in SUBSET Told
            BY <2>5 DEF Chained
        <3>2. Is(m)
            BY <2>3
        <3> HIDE DEF T
        <3> QED
            BY <2>3, <2>5, <3>1, <3>2
    <2>6. ASSUME NEW r \in Blanks
          PROVE  r \in Stored /\ EndsWithin(m, r)
        BY <2>1, BlanksEnd, NothingAwayFromBlanks
    <2>7. ASSUME NEW r \in QueryOf(i).refs, EndsWithin(m, r)
          PROVE  r \in Stored
        <3>1. r \in Ids
            BY <1>1, QueriesAreTyped DEF Query
        <3>2. Away[0][r] \subseteq Stored
            BY <2>1, <2>7 DEF EndsWithin
        <3> QED
            BY <3>1, <3>2, AwayIs
    <2>8. EndsWithin(m + 1, i) <=> \A r \in QueryOf(i).refs : EndsWithin(m, r)
        BY <1>1, <2>1, EndsOneFurther
    <2>9. EndsWithin(m + 1, i) => \A r \in QueryOf(i).refs : r \notin open
        <3>1. QueryOf(i).refs \cap open # {} => ~(Away[m + 1][i] \subseteq Blanks)
            BY <2>1, CyclesGoOn
        <3> QED
            BY <3>1 DEF EndsWithin
    <2> HIDE DEF T, Is
    <2>10. Expands(depth, open, i) <=> EndsWithin(m + 1, i)
        BY <2>4, <2>5, <2>6, <2>7, <2>8, <2>9 DEF Told
    <2> QED
        BY <2>2, <2>10
<1>4. n \in T
    <2>1. T \in SUBSET Nat /\ n \in Nat
        BY BoundsAssumption
    <2> HIDE DEF T
    <2> QED
        BY <1>2, <1>3, <2>1, ByInduction
<1> QED
    BY <1>4, BoundsAssumption

LEMMA ExpansionIsReachability ==
    ASSUME TypeOK
    PROVE  ExpansionIsBoundedReachability
<1> SUFFICES ASSUME NEW i \in Stored
             PROVE  Expandable(i) <=> EndsWithin(MaxDepth + 1, i)
    BY DEF ExpansionIsBoundedReachability, EndsWithin
<1>1. (MaxDepth + 1) - (MaxDepth + 1) = 0 /\ MaxDepth + 1 \in 0 .. MaxDepth + 1
      /\ MaxDepth + 1 \in Nat
    BY BoundsAssumption
<1>2. CASE i \in Blanks
    <2>1. EndsWithin(MaxDepth + 1, i)
        BY <1>1, <1>2, BlanksEnd
    <2>2. Expands(0, {}, i)
        <3>1. QueryOf(i).refs = {}
            BY <1>2, QueriesAreTyped DEF Blank
        <3>2. 0 <= MaxDepth
            BY BoundsAssumption
        <3> QED
            BY <3>1, <3>2, ExpandsOneFurther
    <2> QED
        BY <2>1, <2>2 DEF Expandable, Expands
<1>3. CASE i \notin Blanks
    <2>1. i \in Told /\ Chained({}, i)
        BY <1>3 DEF Told, Chained
    <2>2. Expands(0, {}, i) <=> EndsWithin(MaxDepth + 1, i)
        BY <1>1, <2>1, ExpansionEnds
    <2> QED
        BY <2>2 DEF Expandable, Expands
<1> QED
    BY <1>2, <1>3

\* Whatever is stored and whatever refers to what: the recursive expansion of a
\* search fails for a cycle, a missing search or its depth exactly if a search
\* within the limit is missing or what is left at the limit is not empty.
THEOREM ExpansionReaches == SubscribersSpec => []ExpansionIsBoundedReachability
<1>1. SubscribersInv => ExpansionIsBoundedReachability
    BY ExpansionIsReachability DEF SubscribersInv, SearchesInv
<1> QED
    BY <1>1, SubscribersInvariant, PTL
-----------------------------------------------------------------------------
(* Edits: an edit that is still fresh is of the searches as it was validated *)

\* What the expansion and the distances are depends on the searches only.
QueryIn(table, i) == IF i \in Globals THEN GlobalQuery(i) ELSE table[i]

ExpansionIn(table) == CHOOSE f : f =
    [depth \in Nat |->
        [open \in SUBSET Ids |-> [q \in Query |->
            IF depth > MaxDepth
              THEN {"depth"}
              ELSE UNION { IF r \in open THEN {"cycle"}
                           ELSE IF r \notin DOMAIN table \cup Globals THEN {"not found"}
                           ELSE IF QueryIn(table, r) = Blank THEN {}
                           ELSE f[depth + 1][open \cup {r}][QueryIn(table, r)]
                           : r \in q.refs }]]]

DistanceIn(table) == CHOOSE f : f =
    [d \in Nat |->
        [i \in Ids |->
            IF d >= MaxDepth THEN d
            ELSE Highest({d} \cup {f[d + 1][r] : r \in {x \in DOMAIN table : i \in table[x].refs}})]]

ErrorsIn(table, q, i) ==
    IF Bare(q) THEN {"entirely a saved search"}
    ELSE ExpansionIn(table)[IF i = None THEN 0 ELSE DistanceIn(table)[0][i]][{}][q]

LEMMA ErrorsAreOfTables ==
    \A q, i : ReferenceErrors(q, i) = ErrorsIn(saved, q, i)
<1>1. Expansion = ExpansionIn(saved)
    BY DEF Expansion, ExpansionIn, Stored, QueryOf, QueryIn
<1>2. Distance = DistanceIn(saved)
    BY DEF Distance, DistanceIn, Referencing
<1> QED
    BY <1>1, <1>2 DEF ReferenceErrors, ErrorsIn, AncestorDistance

\* Either of a new query that passes the validation as the searches are, or of
\* none.
EditOK(r, table) ==
    r.at = "update" /\ r.fresh =>
        r.id \in SearchIds /\ (r.query = Kept \/ ErrorsIn(table, r.query, r.id) = {})

EditsInv == \A s \in Sessions : EditOK(req[s], saved)

LEMMA OthersLeaveSearches ==
    ASSUME [SubscribersNext]_allVars, ~SearchRequests
    PROVE  saved' = saved /\ req' = req
<1>1. CASE UNCHANGED allVars
    BY <1>1 DEF allVars, vars, store
<1>2. CASE SubscribersNext
    <2>1. ASSUME NEW s \in Sessions, NEW u \in Users, ChannelRequests(s, u)
          PROVE  saved' = saved /\ req' = req
        BY <2>1 DEF ChannelRequests, InvalidChannel, CreateNotificationChannel, PingUser,
                    UpdateNotificationChannel, DeleteNotificationChannel, store
    <2>2. ASSUME NEW s \in Sessions, NEW u \in Users, SubscriptionRequests(s, u)
          PROVE  saved' = saved /\ req' = req
        BY <2>2 DEF SubscriptionRequests, InvalidSubscription, CreateSubscription,
                    UpdateSubscription, DeleteSubscription, store
    <2>3. ASSUME NEW s \in Sessions,
                 \/ UpdateChannel(s) \/ GetNotificationChannel(s) \/ SubscribeAborts(s)
                 \/ CreateSavedSearchSubscription(s) \/ GetSavedSearchSubscription(s)
          PROVE  saved' = saved /\ req' = req
        BY <2>3 DEF UpdateChannel, GetNotificationChannel, SubscribeAborts,
                    CreateSavedSearchSubscription, GetSavedSearchSubscription, store
    <2> QED
        BY <1>2, <2>1, <2>2, <2>3 DEF SubscribersNext
<1> QED
    BY <1>1, <1>2

LEMMA RequestsKept ==
    ASSUME EditsInv, saved' = saved,
           \A t \in Sessions : req'[t] = req[t] \/ EditOK(req'[t], saved)
    PROVE  EditsInv'
BY DEF EditsInv

LEMMA WritesOutdate ==
    ASSUME TypeOK, NEW s \in Sessions, NEW r,
           req' = [Outdated EXCEPT ![s] = r] \/ req' = Outdated, r.fresh = FALSE
    PROVE  EditsInv'
<1>1. \A t \in Sessions : Outdated[t].fresh = FALSE
    BY DEF Outdated, TypeOK, Requests
<1>2. \A t \in Sessions : req'[t].fresh = FALSE
    BY <1>1 DEF Outdated
<1> QED
    BY <1>2 DEF EditsInv, EditOK

LEMMA EditsStep ==
    ASSUME SubscribersInv, EditsInv, [SubscribersNext]_allVars
    PROVE  EditsInv'
<1>1. CASE ~SearchRequests
    BY <1>1, OthersLeaveSearches, RequestsKept
<1>2. CASE SearchRequests
    <2>1. PICK S \in SUBSET Sessions : SearchesNext(S)
        BY <1>2 DEF SearchRequests
    <2>2. TypeOK /\ req \in [Sessions -> Requests]
        BY DEF SubscribersInv, SearchesInv, TypeOK
    <2>3. ASSUME NEW s \in Sessions, NEW r, req' = [req EXCEPT ![s] = r], saved' = saved,
                 EditOK(r, saved)
          PROVE  EditsInv'
        BY <2>2, <2>3, RequestsKept
    <2>4. EditOK(Idle, saved)
        BY DEF EditOK, Idle
    <2>5. ASSUME NEW s \in S, NEW u \in Users, InvalidSearch(s, u)
          PROVE  EditsInv'
        BY <2>5, RequestsKept DEF InvalidSearch, store
    <2>6. ASSUME NEW q \in Inputs, CreateSavedSearch(S, q)
          PROVE  EditsInv'
        <3>1. PICK s \in S, u \in Users :
                  /\ saved' = saved
                  /\ \/ req' = req
                     \/ req' = [req EXCEPT ![s] = [at |-> "create", user |-> u, id |-> None,
                                                   query |-> q, fresh |-> TRUE]]
            BY <2>6 DEF CreateSavedSearch, store
        <3>2. EditOK([at |-> "create", user |-> u, id |-> None, query |-> q, fresh |-> TRUE], saved)
            BY DEF EditOK
        <3> QED
            BY <2>3, <3>1, <3>2, RequestsKept
    <2>7. ASSUME NEW i \in SearchIds, NEW q \in Inputs \cup {Kept}, UpdateSavedSearch(S, i, q)
          PROVE  EditsInv'
        <3>1. PICK s \in S, u \in Users :
                  /\ saved' = saved
                  /\ \/ req' = req
                     \/ /\ (IF q = Kept THEN {} ELSE ReferenceErrors(q, i)) = {}
                        /\ req' = [req EXCEPT ![s] = [at |-> "update", user |-> u, id |-> i,
                                                      query |-> q, fresh |-> TRUE]]
            BY <2>7 DEF UpdateSavedSearch, store
        <3>2. CASE req' = req
            BY <3>1, <3>2, RequestsKept
        <3>3. CASE req' # req
            <4>1. q = Kept \/ ErrorsIn(saved, q, i) = {}
                BY <3>1, <3>3, ErrorsAreOfTables
            <4>2. EditOK([at |-> "update", user |-> u, id |-> i, query |-> q, fresh |-> TRUE],
                         saved)
                BY <4>1 DEF EditOK
            <4> QED
                BY <2>3, <3>1, <3>3, <4>2
        <3> QED
            BY <3>2, <3>3
    <2>8. ASSUME NEW s \in S, CreateNewUserSavedSearch(s)
          PROVE  EditsInv'
        <3>1. CASE Answer(s, CreateSavedSearchStatus(CreateUserSavedSearchError("limit")))
                      /\ UNCHANGED store
            BY <2>3, <2>4, <3>1 DEF Answer, store
        <3>2. CASE \E i \in Unused : req' = [Outdated EXCEPT ![s].at = "created", ![s].id = i]
            <4>1. PICK i : req' = [Outdated EXCEPT ![s].at = "created", ![s].id = i]
                BY <3>2
            <4>2. PICK r : r = [[req[s] EXCEPT !.fresh = FALSE] EXCEPT !.at = "created", !.id = i]
                OBVIOUS
            <4>3. req' = [Outdated EXCEPT ![s] = r] /\ r.fresh = FALSE
                BY <2>2, <4>1, <4>2 DEF Outdated, Requests
            <4> QED
                BY <2>2, <4>3, WritesOutdate
        <3> QED
            BY <2>8, <3>1, <3>2 DEF CreateNewUserSavedSearch
    <2>9. ASSUME NEW s \in S, CreateSavedSearchDone(s) \/ UpdateSavedSearchDone(s)
          PROVE  EditsInv'
        BY <2>3, <2>4, <2>9 DEF CreateSavedSearchDone, UpdateSavedSearchDone, Answer, store
    <2>10. ASSUME NEW s \in S, UpdateUserSavedSearch(s)
           PROVE  EditsInv'
        <3>1. CASE Answer(s, UpdateSavedSearchStatus(UpdateUserSavedSearchError("role")))
                      /\ UNCHANGED store
            BY <2>3, <2>4, <3>1 DEF Answer, store
        <3>2. CASE req' = [Outdated EXCEPT ![s].at = "updated"]
            <4>1. PICK r : r = [[req[s] EXCEPT !.fresh = FALSE] EXCEPT !.at = "updated"]
                OBVIOUS
            <4>2. req' = [Outdated EXCEPT ![s] = r] /\ r.fresh = FALSE
                BY <2>2, <3>2, <4>1 DEF Outdated, Requests
            <4> QED
                BY <2>2, <4>2, WritesOutdate
        <3> QED
            BY <2>10, <3>1, <3>2 DEF UpdateUserSavedSearch
    <2>11. ASSUME NEW s \in S, NEW u \in Users, NEW i \in SearchIds, RemoveSavedSearch(s, u, i)
           PROVE  EditsInv'
        <3>1. CASE UNCHANGED <<store, req>>
            BY <3>1, RequestsKept DEF store
        <3>2. CASE req' = Outdated
            <4>1. Idle.fresh = FALSE
                BY DEF Idle
            <4> QED
                BY <2>2, <3>2, <4>1, WritesOutdate
        <3> QED
            BY <2>11, <3>1, <3>2 DEF RemoveSavedSearch, DeleteUserSavedSearch
    <2>12. ASSUME NEW s \in S, NEW u \in Users, NEW i \in SearchIds,
                  \/ PutUserSavedSearchBookmark(s, u, i)
                  \/ RemoveUserSavedSearchBookmark(s, u, i)
           PROVE  EditsInv'
        BY <2>12, RequestsKept DEF PutUserSavedSearchBookmark, RemoveUserSavedSearchBookmark
    <2> QED
        BY <2>1, <2>5, <2>6, <2>7, <2>8, <2>9, <2>10, <2>11, <2>12 DEF SearchesNext
<1> QED
    BY <1>1, <1>2

LEMMA EditsInvariant == SubscribersSpec => []EditsInv
<1>1. SubscribersInit => EditsInv
    <2>1. Idle.at # "update"
        BY DEF Idle
    <2> QED
        BY <2>1 DEF SubscribersInit, Init, EditsInv, EditOK
<1>2. SubscribersInv /\ EditsInv /\ [SubscribersNext]_allVars => EditsInv'
    BY EditsStep
<1> QED
    BY <1>1, <1>2, SubscribersInvariant, PTL DEF SubscribersSpec
-----------------------------------------------------------------------------
(***************************************************************************)
(* Edits keep others expandable, with the limit of two that the expansion  *)
(* has.  Reachability says it of any two states of the references: what is *)
(* validated is that the new query ends in as many references as are left  *)
(* under the farthest referrer; and it cannot lead back to the search, for *)
(* then the search would refer to itself or have a referrer too many.       *)
(***************************************************************************)

\* What ends within n references.
Ending == [n \in Nat |-> {i \in Ids : EndsWithin(n, i)}]
References == [i \in Stored |-> QueryOf(i).refs]

\* ends and refs are those of the stored searches S.
ReferenceLaws(ends, refs, S) ==
    /\ Blanks \subseteq S
    /\ \A i \in Ids : i \in ends[0] <=> i \in Blanks
    /\ \A n \in Nat, i \in S : i \in ends[n + 1] <=> refs[i] \subseteq ends[n]
    /\ \A n \in Nat : Blanks \subseteq ends[n] /\ ends[n] \subseteq S /\ ends[n] \subseteq ends[n + 1]

LEMMA ReferencesObey == TypeOK => ReferenceLaws(Ending, References, Stored)
<1> SUFFICES ASSUME TypeOK
             PROVE  ReferenceLaws(Ending, References, Stored)
    OBVIOUS
<1>1. Blanks \subseteq Stored /\ \A i \in Stored : i \in Ids /\ QueryOf(i).refs \subseteq Ids
    BY IdsAssumption, QueriesAreTyped DEF Stored, Query
<1>2. ASSUME NEW i \in Ids
      PROVE  i \in Ending[0] <=> i \in Blanks
    <2>1. Away[0][i] = {i}
        BY AwayIs
    <2> QED
        BY <1>1, <2>1 DEF Ending, EndsWithin
<1>3. ASSUME NEW n \in Nat, NEW i \in Stored
      PROVE  i \in Ending[n + 1] <=> References[i] \subseteq Ending[n]
    <2>1. i \in Ids /\ n + 1 \in Nat /\ References[i] = QueryOf(i).refs
        BY <1>1 DEF References
    <2>2. EndsWithin(n + 1, i) <=> \A r \in QueryOf(i).refs : EndsWithin(n, r)
        BY EndsOneFurther
    <2> QED
        BY <1>1, <2>1, <2>2 DEF Ending
<1>4. ASSUME NEW n \in Nat
      PROVE  Blanks \subseteq Ending[n] /\ Ending[n] \subseteq Stored /\ Ending[n] \subseteq Ending[n + 1]
    <2>1. ASSUME NEW i \in Ids, EndsWithin(n, i)
          PROVE  i \in Stored
        <3>1. Away[0][i] = {i} /\ Away[0][i] \subseteq Stored
            BY <2>1, AwayIs DEF EndsWithin
        <3> QED
            BY <3>1
    <2>2. ASSUME NEW i \in Ids, EndsWithin(n, i)
          PROVE  EndsWithin(n + 1, i)
        <3>1. Away[n + 1][i] = UNION {QueryOf(r).refs : r \in Away[n][i] \cap Stored}
            BY AwayIs
        <3>2. Away[n][i] \subseteq Blanks
            BY <2>2 DEF EndsWithin
        <3>3. \A r \in Blanks : QueryOf(r).refs = {}
            BY <1>1, QueriesAreTyped DEF Blank
        <3>4. Away[n + 1][i] = {}
            BY <3>1, <3>2, <3>3
        <3>5. \A k \in 0 .. n + 1 : k \in 0 .. n \/ k = n + 1
            OBVIOUS
        <3> QED
            BY <2>2, <3>4, <3>5 DEF EndsWithin
    <2>3. \A i \in Blanks : EndsWithin(n, i) /\ i \in Ids
        BY <1>1, BlanksEnd
    <2> QED
        BY <2>1, <2>2, <2>3 DEF Ending
<1> QED
    BY <1>1, <1>2, <1>3, <1>4 DEF ReferenceLaws

\* R and T are the references before and after the query of i is written.
Rewritten(S, R, E, T, F, i, d) ==
    /\ S \subseteq Ids /\ ReferenceLaws(E, R, S) /\ ReferenceLaws(F, T, S)
    /\ i \in S \ Blanks /\ i \notin T[i] /\ \A j \in S \ {i} : T[j] = R[j]
    /\ d \in 0 .. 2 /\ T[i] \subseteq E[2 - d]
    /\ \A j \in S : i \in R[j] => d # 0
    /\ \A j, k \in S : i \in R[k] /\ k \in R[j] => d = 2

LEMMA EditKeepsEnds ==
    \A S, R, E, T, F, i, d : Rewritten(S, R, E, T, F, i, d) => E[3] \subseteq F[3]
<1> SUFFICES ASSUME NEW S, NEW R, NEW E, NEW T, NEW F, NEW i, NEW d,
                    Rewritten(S, R, E, T, F, i, d)
             PROVE  E[3] \subseteq F[3]
    OBVIOUS
<1> USE DEF Rewritten
<1>1. /\ \A j \in Ids : (j \in E[0] <=> j \in Blanks) /\ (j \in F[0] <=> j \in Blanks)
      /\ \A j \in S : /\ j \in E[1] <=> R[j] \subseteq E[0]
                      /\ j \in E[2] <=> R[j] \subseteq E[1]
                      /\ j \in E[3] <=> R[j] \subseteq E[2]
                      /\ j \in F[1] <=> T[j] \subseteq F[0]
                      /\ j \in F[2] <=> T[j] \subseteq F[1]
                      /\ j \in F[3] <=> T[j] \subseteq F[2]
      /\ E[0] \subseteq S /\ E[1] \subseteq S /\ E[2] \subseteq S /\ E[3] \subseteq S
      /\ F[0] \subseteq F[1] /\ F[1] \subseteq F[2] /\ F[2] \subseteq F[3]
    <2>1. \A n \in Nat : 0 + 1 = 1 /\ 1 + 1 = 2 /\ 2 + 1 = 3
        OBVIOUS
    <2>2. 0 \in Nat /\ 1 \in Nat /\ 2 \in Nat /\ 3 \in Nat
        OBVIOUS
    <2>3. \A n \in Nat, j \in S : /\ j \in E[n + 1] <=> R[j] \subseteq E[n]
                                  /\ j \in F[n + 1] <=> T[j] \subseteq F[n]
        BY DEF ReferenceLaws
    <2>4. \A n \in Nat : E[n] \subseteq S /\ F[n] \subseteq F[n + 1]
        BY DEF ReferenceLaws
    <2>5. \A j \in Ids : (j \in E[0] <=> j \in Blanks) /\ (j \in F[0] <=> j \in Blanks)
        BY DEF ReferenceLaws
    <2> QED
        BY <2>1, <2>2, <2>3, <2>4, <2>5
<1>2. E[0] \subseteq F[0]
    BY <1>1
<1>3. \A j \in S \ {i} : R[j] \subseteq E[0] => j \in F[1]
    BY <1>1, <1>2
<1>4. T[i] \subseteq F[2 - d]
    <2>1. CASE d = 2
        <3>1. 2 - d = 0
            BY <2>1
        <3> QED
            BY <1>2, <3>1
    <2>2. CASE d = 1
        <3>1. 2 - d = 1
            BY <2>2
        <3>2. T[i] \subseteq E[1] /\ T[i] \subseteq S \ {i}
            BY <1>1, <3>1
        <3> QED
            BY <1>1, <1>3, <3>1, <3>2
    <2>3. CASE d = 0
        <3>1. 2 - d = 2
            BY <2>3
        <3>2. T[i] \subseteq E[2] /\ T[i] \subseteq S \ {i}
            BY <1>1, <3>1
        <3>3. ASSUME NEW r \in T[i]
              PROVE  r \in F[2]
            <4>1. r \in S \ {i} /\ R[r] \subseteq E[1] /\ T[r] = R[r]
                BY <1>1, <3>2
            <4>2. R[r] \subseteq S \ {i}
                BY <1>1, <2>3, <4>1
            <4>3. R[r] \subseteq F[1]
                BY <1>1, <1>3, <4>1, <4>2
            <4> QED
                BY <1>1, <4>1, <4>3
        <3> QED
            BY <3>1, <3>3
    <2> QED
        BY <2>1, <2>2, <2>3
\* The search ends with what is left under its farthest referrer.
<1>5. /\ d = 2 => i \in F[1]
      /\ d # 0 => i \in F[2]
      /\ i \in F[3]
    <2>1. CASE d = 2
        <3>1. 2 - d = 0
            BY <2>1
        <3> QED
            BY <1>1, <1>4, <2>1, <3>1
    <2>2. CASE d = 1
        <3>1. 2 - d = 1
            BY <2>2
        <3> QED
            BY <1>1, <1>4, <2>2, <3>1
    <2>3. CASE d = 0
        <3>1. 2 - d = 2
            BY <2>3
        <3> QED
            BY <1>1, <1>4, <2>3, <3>1
    <2> QED
        BY <2>1, <2>2, <2>3
<1>6. ASSUME NEW j \in E[3]
      PROVE  j \in F[3]
    <2>1. j \in S /\ R[j] \subseteq E[2]
        BY <1>1
    <2>2. CASE j = i
        BY <1>5, <2>2
    <2>3. CASE j # i
        <3>1. ASSUME NEW k \in R[j]
              PROVE  k \in F[2]
            <4>1. k \in S /\ R[k] \subseteq E[1]
                BY <1>1, <2>1
            <4>2. CASE k = i
                BY <1>5, <2>1, <4>2
            <4>3. CASE k # i
                <5>1. ASSUME NEW l \in R[k]
                      PROVE  l \in F[1]
                    <6>1. l \in S /\ R[l] \subseteq E[0]
                        BY <1>1, <4>1
                    <6>2. CASE l = i
                        BY <1>5, <2>1, <4>1, <6>2
                    <6>3. CASE l # i
                        BY <1>3, <6>1, <6>3
                    <6> QED
                        BY <6>2, <6>3
                <5> QED
                    BY <1>1, <4>1, <4>3, <5>1
            <4> QED
                BY <4>2, <4>3
        <3> QED
            BY <1>1, <2>1, <2>3, <3>1
    <2> QED
        BY <2>2, <2>3
<1> QED
    BY <1>6
-----------------------------------------------------------------------------
(* What the validation of an edit leaves under the search *)

LEMMA HighestIs ==
    ASSUME NEW S \in SUBSET (0 .. 2), S # {}
    PROVE  Highest(S) \in S /\ \A k \in S : k <= Highest(S)
<1>1. \E n \in S : \A k \in S : k <= n
    <2>1. CASE 2 \in S
        BY <2>1
    <2>2. CASE 2 \notin S /\ 1 \in S
        <3>1. \A k \in S : k <= 1
            BY <2>2
        <3> QED
            BY <2>2, <3>1
    <2>3. CASE 2 \notin S /\ 1 \notin S
        <3>1. \A k \in S : k = 0 /\ k <= 0
            BY <2>3
        <3>2. 0 \in S
            BY <3>1
        <3> QED
            BY <3>1, <3>2
    <2> QED
        BY <2>1, <2>2, <2>3
<1> QED
    BY <1>1 DEF Highest

\* How far up the referrers of a search reach, up to two.
LEMMA DistanceIs ==
    ASSUME MaxDepth = 2, TypeOK, NEW i \in Ids
    PROVE  /\ AncestorDistance(i) \in 0 .. 2
           /\ \A j \in Stored : i \in QueryOf(j).refs => AncestorDistance(i) # 0
           /\ \A j, k \in Stored : i \in QueryOf(k).refs /\ k \in QueryOf(j).refs
                                       => AncestorDistance(i) = 2
<1> DEFINE Over(f, d, x) == Highest({d} \cup {f[r] : r \in Referencing(x)})
           At(f, d) == [x \in Ids |-> IF d >= MaxDepth THEN d ELSE Over(f, d, x)]
           IsDistance(h) == h = [d \in Nat |-> At(h[d + 1], d)]
<1>1. PICK two : two = [x \in Ids |-> 2]
    OBVIOUS
<1>2. PICK one : one = [x \in Ids |-> Over(two, 1, x)]
    OBVIOUS
<1>3. PICK zero : zero = [x \in Ids |-> Over(one, 0, x)]
    OBVIOUS
<1>4. PICK e : e = [d \in Nat |-> IF d = 0 THEN zero ELSE IF d = 1 THEN one ELSE [x \in Ids |-> d]]
    OBVIOUS
<1>5. ASSUME NEW d \in Nat
      PROVE  e[d] = At(e[d + 1], d)
    <2>1. CASE d = 0
        <3>1. e[d] = zero /\ e[d + 1] = one /\ ~(d >= MaxDepth)
            BY <1>4, <2>1
        <3> HIDE DEF Over
        <3> QED
            BY <1>3, <2>1, <3>1
    <2>2. CASE d = 1
        <3>1. e[d] = one /\ e[d + 1] = two /\ ~(d >= MaxDepth)
            BY <1>1, <1>4, <2>2
        <3> HIDE DEF Over
        <3> QED
            BY <1>2, <2>2, <3>1
    <2>3. CASE d # 0 /\ d # 1
        <3>1. d >= MaxDepth /\ e[d] = [x \in Ids |-> d]
            BY <1>4, <2>3
        <3> HIDE DEF Over
        <3> QED
            BY <3>1
    <2> QED
        BY <2>1, <2>2, <2>3
<1>6. IsDistance(e)
    <2> HIDE DEF At
    <2>1. e = [d \in Nat |-> e[d]]
        BY <1>4
    <2> QED
        BY <1>5, <2>1
<1>7. IsDistance(Distance)
    <2>1. Distance = CHOOSE f : IsDistance(f)
        BY DEF Distance
    <2> HIDE DEF IsDistance
    <2> QED
        BY <1>6, <2>1
<1>8. \A d \in Nat : Distance[d] = At(Distance[d + 1], d)
    <2> HIDE DEF At
    <2> QED
        BY <1>7
<1>9. \A x \in Ids : Distance[2][x] = 2
    <2> HIDE DEF Over
    <2>1. Distance[2] = At(Distance[2 + 1], 2) /\ 2 >= MaxDepth
        BY <1>8
    <2> QED
        BY <2>1
<1>10. \A x \in Ids : Distance[1][x] = Over(Distance[2], 1, x)
    <2> HIDE DEF Over
    <2>1. Distance[1] = At(Distance[1 + 1], 1) /\ 1 + 1 = 2 /\ ~(1 >= MaxDepth)
        BY <1>8
    <2> QED
        BY <2>1
<1>11. \A x \in Ids : Distance[0][x] = Over(Distance[1], 0, x)
    <2> HIDE DEF Over
    <2>1. Distance[0] = At(Distance[0 + 1], 0) /\ 0 + 1 = 1 /\ ~(0 >= MaxDepth)
        BY <1>8
    <2> QED
        BY <2>1
<1>12. \A x \in Ids : Referencing(x) \subseteq Ids
    BY DEF Referencing, TypeOK, Ids
<1>13. ASSUME NEW x \in Ids
       PROVE  Distance[1][x] \in 1 .. 2 /\ (Referencing(x) # {} => Distance[1][x] = 2)
    <2>1. PICK V : V = {1} \cup {Distance[2][r] : r \in Referencing(x)}
        OBVIOUS
    <2>2. V \in SUBSET (0 .. 2) /\ V # {} /\ 1 \in V /\ (Referencing(x) # {} => 2 \in V)
        BY <1>9, <1>12, <2>1
    <2>3. Distance[1][x] = Highest(V)
        BY <1>10, <2>1
    <2>4. Highest(V) \in V /\ \A k \in V : k <= Highest(V)
        BY <2>2, HighestIs
    <2>5. PICK h \in V : h = Highest(V)
        BY <2>4
    <2>6. h \in 0 .. 2 /\ 1 <= h /\ (Referencing(x) # {} => 2 <= h)
        BY <2>2, <2>4, <2>5
    <2> QED
        BY <2>3, <2>5, <2>6
<1>14. PICK V : V = {0} \cup {Distance[1][r] : r \in Referencing(i)}
    OBVIOUS
<1>15. V \in SUBSET (0 .. 2) /\ V # {}
    BY <1>12, <1>13, <1>14
<1>16. AncestorDistance(i) = Highest(V)
    BY <1>11, <1>14 DEF AncestorDistance
<1>17. AncestorDistance(i) \in V /\ \A k \in V : k <= AncestorDistance(i)
    BY <1>15, <1>16, HighestIs
<1>18. ASSUME NEW j \in Stored, NEW x \in Ids, x \in QueryOf(j).refs
       PROVE  j \in Referencing(x)
    BY <1>18 DEF QueryOf, GlobalQuery, Plain, Blank, Stored, Referencing
<1>19. AncestorDistance(i) \in 0 .. 2
    BY <1>15, <1>17
<1>20. ASSUME NEW j \in Stored, i \in QueryOf(j).refs
       PROVE  AncestorDistance(i) # 0
    <2>1. j \in Referencing(i) /\ j \in Ids
        BY <1>12, <1>18, <1>20
    <2>2. Distance[1][j] \in V /\ Distance[1][j] \in 1 .. 2
        BY <1>13, <1>14, <2>1
    <2> QED
        BY <1>15, <1>17, <2>2
<1>21. ASSUME NEW j \in Stored, NEW k \in Stored, i \in QueryOf(k).refs, k \in QueryOf(j).refs
       PROVE  AncestorDistance(i) = 2
    <2>1. k \in Referencing(i) /\ k \in Ids
        BY <1>12, <1>18, <1>21
    <2>2. j \in Referencing(k)
        BY <1>18, <1>21, <2>1
    <2>3. 2 \in V
        BY <1>13, <1>14, <2>1, <2>2
    <2> QED
        BY <1>17, <1>19, <2>3
<1>22. \A j \in Stored : i \in QueryOf(j).refs => AncestorDistance(i) # 0
    BY <1>20
<1>23. \A j, k \in Stored : i \in QueryOf(k).refs /\ k \in QueryOf(j).refs
                                => AncestorDistance(i) = 2
    BY <1>21
<1> QED
    BY <1>19, <1>22, <1>23

LEMMA ValidatedQueriesEnd ==
    ASSUME MaxDepth = 2, TypeOK, NEW i \in SearchIds, NEW q \in Query, ReferenceErrors(q, i) = {}
    PROVE  q.refs \subseteq Ending[2 - AncestorDistance(i)]
<1>1. i \in Ids /\ i # None
    BY IdsAssumption DEF Ids
<1>2. PICK d \in 0 .. 2 : d = AncestorDistance(i)
    BY <1>1, DistanceIs
<1>3. Expansion[d][{}][q] = {}
    BY <1>1, <1>2 DEF ReferenceErrors
<1>4. ErrorsUnder(Expansion[d + 1], {}, q) = {}
    <2>1. d \in Nat /\ {} \in SUBSET Ids /\ ~(d > MaxDepth)
        OBVIOUS
    <2> QED
        BY <1>3, <2>1, ExpansionIs
<1>5. ASSUME NEW r \in q.refs
      PROVE  r \in Ending[2 - d]
    <2> DEFINE ErrorsOf(x) ==
            IF x \in {} THEN {"cycle"}
            ELSE IF x \notin Stored THEN {"not found"}
            ELSE IF QueryOf(x) = Blank THEN {}
            ELSE Expansion[d + 1][{} \cup {x}][QueryOf(x)]
    <2>1. ErrorsUnder(Expansion[d + 1], {}, q) = UNION {ErrorsOf(x) : x \in q.refs}
        BY DEF ErrorsUnder
    <2>2. ErrorsOf(r) = {}
        <3> HIDE DEF ErrorsOf
        <3> QED
            BY <1>4, <2>1
    <2>3. r \in Stored
        BY <2>2
    <2>4. r \in Ids /\ (QueryOf(r) = Blank <=> r \in Blanks)
        BY <2>3, QueriesAreTyped
    <2>5. 2 - d \in Nat /\ 2 - d \in 0 .. MaxDepth + 1 /\ (MaxDepth + 1) - (2 - d) = d + 1
        OBVIOUS
    <2>6. CASE r \in Blanks
        <3>1. EndsWithin(2 - d, r)
            BY <2>5, <2>6, BlanksEnd
        <3> QED
            BY <2>4, <2>5, <3>1 DEF Ending
    <2>7. CASE r \notin Blanks
        <3>1. Expands(d + 1, {r}, r)
            <4>1. {} \cup {r} = {r}
                OBVIOUS
            <4> QED
                BY <2>2, <2>3, <2>4, <2>7, <4>1 DEF Expands
        <3>2. r \in Told /\ {r} \in SUBSET Told
            BY <2>3, <2>7 DEF Told
        <3>3. Chained({r}, r)
            BY <3>2 DEF Chained
        <3>4. Expands((MaxDepth + 1) - (2 - d), {r}, r) <=> EndsWithin(2 - d, r)
            BY <2>5, <3>2, <3>3, ExpansionEnds
        <3>5. EndsWithin(2 - d, r)
            BY <2>5, <3>1, <3>4
        <3> QED
            BY <2>4, <2>5, <3>5 DEF Ending
    <2> QED
        BY <2>6, <2>7
<1> QED
    BY <1>2, <1>5

\* What can be expanded depends on the searches only.
OfTables == \A j : Expandable(j) <=> ExpansionIn(saved)[0][{}][QueryIn(saved, j)] = {}

LEMMA ExpandableIsOfTables == OfTables
<1>1. Expansion = ExpansionIn(saved)
    BY DEF Expansion, ExpansionIn, Stored, QueryOf, QueryIn
<1> QED
    BY <1>1 DEF OfTables, Expandable, QueryOf, QueryIn

ExpandableEnds == \A j \in Stored : Expandable(j) <=> j \in Ending[3]

LEMMA ExpandableIsEnding == MaxDepth = 2 => (TypeOK => ExpandableEnds)
<1> SUFFICES ASSUME MaxDepth = 2, TypeOK, NEW i \in Stored
             PROVE  Expandable(i) <=> i \in Ending[3]
    BY DEF ExpandableEnds
<1>1. i \in Ids
    BY QueriesAreTyped
<1>2. MaxDepth + 1 = 3 /\ 3 \in Nat
    OBVIOUS
<1>3. Expandable(i) <=> EndsWithin(3, i)
    BY <1>2, ExpansionIsReachability DEF ExpansionIsBoundedReachability, EndsWithin
<1> QED
    BY <1>1, <1>2, <1>3 DEF Ending

\* The one step that writes an edit.
LEMMA EditIsWritten ==
    ASSUME SubscribersInv, [SubscribersNext]_allVars, NEW s \in Sessions,
           req[s].at = "update", req'[s].at = "updated"
    PROVE  /\ IsOwner(req[s].user, req[s].id)
           /\ saved' = IF req[s].query = Kept
                         THEN saved ELSE [saved EXCEPT ![req[s].id] = req[s].query]
<1>1. TypeOK /\ req \in [Sessions -> Requests]
    BY DEF SubscribersInv, SearchesInv, TypeOK
<1>2. SearchRequests
    BY OthersLeaveSearches
<1>3. PICK S \in SUBSET Sessions : SearchesNext(S)
    BY <1>2 DEF SearchRequests
<1>4. \A t \in Sessions : Outdated[t].at = req[t].at
    BY <1>1, OutdatedType
<1>5. ASSUME NEW t \in Sessions, NEW r, req' = [req EXCEPT ![t] = r], r.at # "updated"
      PROVE  FALSE
    BY <1>1, <1>5
<1>6. ASSUME NEW t \in S, NEW u \in Users, InvalidSearch(t, u)
      PROVE  FALSE
    BY <1>6 DEF InvalidSearch
<1>7. ASSUME NEW q \in Inputs, CreateSavedSearch(S, q)
      PROVE  FALSE
    <2>1. PICK t \in S, u \in Users :
              \/ req' = req
              \/ req' = [req EXCEPT ![t] = [at |-> "create", user |-> u, id |-> None,
                                            query |-> q, fresh |-> TRUE]]
        BY <1>7 DEF CreateSavedSearch
    <2> QED
        BY <1>5, <2>1
<1>8. ASSUME NEW i \in SearchIds, NEW q \in Inputs \cup {Kept}, UpdateSavedSearch(S, i, q)
      PROVE  FALSE
    <2>1. PICK t \in S, u \in Users :
              \/ req' = req
              \/ req' = [req EXCEPT ![t] = [at |-> "update", user |-> u, id |-> i,
                                            query |-> q, fresh |-> TRUE]]
        BY <1>8 DEF UpdateSavedSearch
    <2> QED
        BY <1>5, <2>1
<1>9. ASSUME NEW t \in S, NEW code, Answer(t, code)
      PROVE  FALSE
    <2>1. Idle.at # "updated"
        BY DEF Idle
    <2> QED
        BY <1>5, <1>9, <2>1 DEF Answer
<1>10. ASSUME NEW t \in S, NEW i, req[t].at = "create",
              req' = [Outdated EXCEPT ![t].at = "created", ![t].id = i]
       PROVE  FALSE
    <2>1. t # s
        BY <1>10
    <2>2. req'[s] = Outdated[s]
        BY <1>10, <2>1 DEF Outdated
    <2> QED
        BY <1>4, <2>2
<1>11. ASSUME NEW t \in S, CreateNewUserSavedSearch(t)
       PROVE  FALSE
    BY <1>9, <1>10, <1>11 DEF CreateNewUserSavedSearch
<1>12. ASSUME NEW t \in S, CreateSavedSearchDone(t) \/ UpdateSavedSearchDone(t)
       PROVE  FALSE
    BY <1>9, <1>12 DEF CreateSavedSearchDone, UpdateSavedSearchDone
<1>13. ASSUME NEW t \in S, NEW u \in Users, NEW i \in SearchIds, RemoveSavedSearch(t, u, i)
       PROVE  FALSE
    <2>1. req' = req \/ req' = Outdated
        BY <1>13 DEF RemoveSavedSearch, DeleteUserSavedSearch
    <2> QED
        BY <1>4, <2>1
<1>14. ASSUME NEW t \in S, NEW u \in Users, NEW i \in SearchIds,
              \/ PutUserSavedSearchBookmark(t, u, i)
              \/ RemoveUserSavedSearchBookmark(t, u, i)
       PROVE  FALSE
    BY <1>14 DEF PutUserSavedSearchBookmark, RemoveUserSavedSearchBookmark
<1>15. PICK t \in S : UpdateUserSavedSearch(t)
    BY <1>3, <1>6, <1>7, <1>8, <1>11, <1>12, <1>13, <1>14 DEF SearchesNext
<1>16. /\ IsOwner(req[t].user, req[t].id)
       /\ saved' = IF req[t].query = Kept
                     THEN saved ELSE [saved EXCEPT ![req[t].id] = req[t].query]
       /\ req' = [Outdated EXCEPT ![t].at = "updated"]
    BY <1>9, <1>15 DEF UpdateUserSavedSearch
<1>17. t = s
    <2>1. CASE t # s
        <3>1. req'[s] = Outdated[s]
            BY <1>16, <2>1 DEF Outdated
        <3> QED
            BY <1>4, <3>1
    <2> QED
        BY <2>1
<1> QED
    BY <1>16, <1>17

LEMMA EditKeepsExpandable ==
    ASSUME MaxDepth = 2, SubscribersInv, SubscribersInv', EditsInv, [SubscribersNext]_allVars,
           NEW s \in Sessions, req[s].at = "update", req'[s].at = "updated", req[s].fresh,
           req[s].id \notin req[s].query.refs
    PROVE  \A j \in DOMAIN saved : Expandable(j) => Expandable(j)'
<1>1. PICK i \in SearchIds, q \in Query : i = req[s].id /\ q = req[s].query
    BY DEF SubscribersInv, SearchesInv, TypeOK, Requests, EditsInv, EditOK
<1>2. TypeOK /\ TypeOK' /\ (q = Kept \/ ErrorsIn(saved, q, i) = {})
    BY <1>1 DEF SubscribersInv, SearchesInv, EditsInv, EditOK
<1>3. i \in DOMAIN saved
    <2>1. <<req[s].user, i>> \in roles
        BY <1>1, EditIsWritten DEF IsOwner
    <2>2. req[s].user \in Users
        BY <1>2, <2>1 DEF TypeOK
    <2>3. i \in Owned(req[s].user)
        BY <2>1 DEF Owned, IsOwner
    <2> QED
        BY <2>2, <2>3
        DEF SubscribersInv, SearchesInv, OwnersFindTheirSearches, ListUserSavedSearches
<1>4. CASE q = Kept
    <2>1. saved' = saved
        BY <1>1, <1>4, EditIsWritten
    <2>2. OfTables'
        BY ExpandableIsOfTables, PTL
    <2>3. \A j : Expandable(j)' <=> ExpansionIn(saved')[0][{}][QueryIn(saved', j)] = {}
        BY <2>2 DEF OfTables, ExpansionIn, QueryIn, GlobalQuery
    <2> QED
        BY <2>1, <2>3, ExpandableIsOfTables DEF OfTables
<1>5. CASE q # Kept
    <2>1. saved' = [saved EXCEPT ![i] = q]
        BY <1>1, <1>5, EditIsWritten
    <2>2. ReferenceErrors(q, i) = {}
        BY <1>2, <1>5, ErrorsAreOfTables
    <2>3. PICK S, R, E : S = Stored /\ R = References /\ E = Ending
        OBVIOUS
    <2>4. PICK T, F : T = References' /\ F = Ending'
        OBVIOUS
    <2>5. ReferenceLaws(E, R, S)
        BY <1>2, <2>3, ReferencesObey
    <2>6. Stored' = S
        BY <1>3, <2>1, <2>3 DEF Stored
    <2>7. ReferenceLaws(F, T, S)
        <3>1. (TypeOK => ReferenceLaws(Ending, References, Stored))'
            BY ReferencesObey, PTL
        <3>2. ReferenceLaws(Ending', References', Stored')
            BY <1>2, <3>1 DEF ReferenceLaws
        <3> QED
            BY <2>4, <2>6, <3>2
    <2>8. i \in S /\ i \notin Blanks /\ i \notin Globals
        BY <1>3, <2>3, IdsAssumption DEF Stored
    <2>9. \A j \in S : /\ R[j] = QueryOf(j).refs
                       /\ T[j] = QueryOf(j)'.refs
        BY <2>3, <2>4, <2>6 DEF References
    <2>10. T[i] = q.refs /\ \A j \in S \ {i} : T[j] = R[j]
        BY <1>3, <2>1, <2>3, <2>6, <2>8, <2>9 DEF QueryOf, GlobalQuery, Stored
    <2>11. S \in SUBSET Ids /\ i \in Ids
        BY <1>2, <2>3 DEF Stored, TypeOK, Ids
    <2>12. PICK d : d = AncestorDistance(i)
        OBVIOUS
    <2>13. /\ d \in 0 .. 2
           /\ \A j \in S : i \in R[j] => d # 0
           /\ \A j, k \in S : i \in R[k] /\ k \in R[j] => d = 2
        BY <1>2, <2>3, <2>9, <2>11, <2>12, DistanceIs
    <2>14. T[i] \subseteq E[2 - d]
        BY <1>2, <2>2, <2>3, <2>10, <2>12, ValidatedQueriesEnd
    <2>15. i \notin T[i]
        BY <1>1, <2>10
    <2>16. Rewritten(S, R, E, T, F, i, d)
        BY <2>5, <2>7, <2>8, <2>10, <2>11, <2>13, <2>14, <2>15 DEF Rewritten
    <2>17. E[3] \subseteq F[3]
        BY <2>16, EditKeepsEnds
    <2>18. \A j \in Stored : Expandable(j) <=> j \in Ending[3]
        BY <1>2, ExpandableIsEnding DEF ExpandableEnds
    <2>19. (MaxDepth = 2 => (TypeOK => ExpandableEnds))'
        BY ExpandableIsEnding, PTL
    <2>20. \A j \in S : Expandable(j)' <=> j \in F[3]
        BY <1>2, <2>4, <2>6, <2>19 DEF ExpandableEnds
    <2> QED
        BY <2>3, <2>17, <2>18, <2>20 DEF Stored
<1> QED
    BY <1>4, <1>5

\* With the limit of two that the expansion has (maxDepth), for any users and
\* searches: an edit that no other write comes before leaves each search
\* expandable that was, though only the new query and the distance of its
\* farthest referrer are looked at.
THEOREM EditsKeep == MaxDepth = 2 => (SubscribersSpec => EditsKeepOthersExpandable)
<1> SUFFICES ASSUME MaxDepth = 2
             PROVE  SubscribersSpec => EditsKeepOthersExpandable
    OBVIOUS
<1>1. SubscribersInv /\ SubscribersInv' /\ EditsInv /\ [SubscribersNext]_allVars =>
        [\A s \in Sessions :
            req[s].at = "update" /\ req'[s].at = "updated" /\ req[s].fresh
            /\ req[s].id \notin req[s].query.refs
               => \A i \in DOMAIN saved : Expandable(i) => Expandable(i)']_vars
    BY EditKeepsExpandable
<1> QED
    BY <1>1, SubscribersInvariant, EditsInvariant, PTL DEF SubscribersSpec, EditsKeepOthersExpandable
=============================================================================
