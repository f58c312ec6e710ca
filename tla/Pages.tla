-------------------------------- MODULE Pages --------------------------------
(***************************************************************************)
(* Lists that are read page by page.  Every page is a query of its own, so *)
(* that rows come, go and change in between; what ties the pages together  *)
(* is a token: the last row of a page, or its date and a count up to it,   *)
(* or the number of rows to skip.  The order of a list and the condition   *)
(* under which a row comes after a token are written down separately.      *)
(***************************************************************************)
EXTENDS Naturals, Sequences, FiniteSets

CONSTANTS
    ListRows,   \* rows: a name, a date or a position, and an identifier
    PageSize,
    MaxChanges  \* bound: rows that come or go while a list is read

ASSUME ListRowsAssumption == ListRows \subseteq Nat \X Nat /\ IsFiniteSet(ListRows)
ASSUME PageSizeAssumption == PageSize \in Nat \ {0}
ASSUME MaxChangesAssumption == MaxChanges \in Nat

VARIABLES
    stored,   \* the rows that belong in the list
    reading,  \* the list that is being read, or was last
    stayed,   \* (history) the rows stored all along
    came,     \* (history) how many rows have come since, and how many have gone
    gone

pagesVars == <<stored, reading, stayed, came, gone>>

\* The directions in which the columns are sorted; in which they are compared
\* with the row of a token; and what a token holds.
List(order, after, holds) == [order |-> order, after |-> after, holds |-> holds]

\* Variant: searches of one name are not told apart.
UserSavedSearchesByName == List(<<"asc", "asc">>, <<"asc">>, "row")
UserSavedSearches == List(<<"asc", "asc">>, <<"asc", "asc">>, "row")
GlobalSavedSearches == List(<<"desc", "asc">>, <<"desc", "asc">>, "row")
NotificationChannels == List(<<"desc", "asc">>, <<"desc", "asc">>, "row")
Subscriptions == List(<<"desc", "asc">>, <<"desc", "asc">>, "row")
DeliveryAttempts == List(<<"desc", "asc">>, <<"desc", "asc">>, "row")
NotificationEvents == List(<<"desc", "asc">>, <<"desc", "asc">>, "row")
FeatureMetrics == List(<<"desc", "desc">>, <<"desc", "desc">>, "row")
AggregatedMetrics == List(<<"desc", "desc">>, <<"desc", "desc">>, "row")
DailyUsage == List(<<"desc">>, <<"desc">>, "row")
MissingOneImplCounts == List(<<"desc">>, <<"desc">>, "row")
BrowserFeatureCounts == List(<<"asc">>, <<"asc">>, "count")
BaselineStatusCounts == List(<<"asc">>, <<"asc">>, "count")

\* Features are sorted by a column and then by their key: upwards, but for the
\* sort by the date of their support.
buildFullClause(direction) == <<direction, "asc">>
NewFeatureNameSort(direction) == buildFullClause(direction)
NewBrowserFeatureSupportSort(direction) == <<direction, direction>>
getFeatureSearchSortOrder ==
    {NewFeatureNameSort(d) : d \in {"asc", "desc"}}
        \cup {NewBrowserFeatureSupportSort(d) : d \in {"asc", "desc"}}

FoundFeatures == {List(order, <<>>, "offset") : order \in getFeatureSearchSortOrder}
MissingOneImplFeatures == List(<<"asc">>, <<>>, "offset")

Lists ==
    {UserSavedSearches, GlobalSavedSearches, NotificationChannels, Subscriptions,
     DeliveryAttempts, NotificationEvents, FeatureMetrics, AggregatedMetrics,
     DailyUsage, MissingOneImplCounts, BrowserFeatureCounts, BaselineStatusCounts,
     MissingOneImplFeatures} \cup FoundFeatures

Goes(direction, x, y) == IF direction = "asc" THEN x < y ELSE x > y

\* s comes after r.
InOrder(columns, r, s) ==
    \/ Goes(columns[1], r[1], s[1])
    \/ Len(columns) = 2 /\ r[1] = s[1] /\ Goes(columns[2], r[2], s[2])

\* A list with one column has an entry for each date.
Entries(list, rows) ==
    IF Len(list.order) = 1 THEN {<<r[1], 0>> : r \in rows} ELSE rows

\* LIMIT: P are the first n of S, or all if there are fewer.
IsFirst(P, n, S, order) ==
    /\ P \subseteq S
    /\ \A r \in P, s \in S \ P : InOrder(order, r, s)
    /\ \/ Cardinality(P) = n
       \/ P = S /\ Cardinality(S) < n

NoReading ==
    [list |-> UserSavedSearches, open |-> FALSE, started |-> FALSE, cursor |-> <<0, 0>>,
     offset |-> 0, count |-> 0, got |-> {}, repeated |-> 0]

PagesInit ==
    /\ stored \in SUBSET ListRows
    /\ reading = NoReading
    /\ stayed = {}
    /\ came = 0
    /\ gone = 0

\* The first page is asked for, without a token.
StartList(list) ==
    /\ ~reading.open /\ reading.got = {}
    /\ reading' = [NoReading EXCEPT !.list = list, !.open = TRUE]
    /\ stayed' = stored
    /\ UNCHANGED <<stored, came, gone>>

\* A page that is full has a token, and its reader, a user or the worker that
\* takes a snapshot, asks for the next.
HasMore(P) == Cardinality(P) = PageSize

Took(P, more) ==
    [reading EXCEPT !.started = TRUE, !.open = more, !.got = @ \cup P,
                    !.repeated = @ + Cardinality(P \cap reading.got)]

IsLast(last, P, order) == last \in P /\ \A r \in P : ~InOrder(order, last, r)

\* What comes after the token's row, or everything on the first page.
PageAfterRow ==
    LET list == reading.list
        rest == {e \in Entries(list, stored) :
                    reading.started => InOrder(list.after, reading.cursor, e)}
    IN
    /\ reading.open /\ list.holds \in {"row", "count"}
    /\ \E P \in SUBSET rest :
          /\ IsFirst(P, PageSize, rest, list.order)
          /\ \/ /\ HasMore(P)
                /\ \E last \in P :
                      /\ IsLast(last, P, list.order)
                      /\ reading' = [Took(P, TRUE) EXCEPT
                              !.cursor = last,
                              !.count = @ + Cardinality({r \in stored : <<r[1], 0>> \in P})]
             \/ /\ ~HasMore(P)
                /\ reading' = [Took(P, FALSE) EXCEPT
                        !.count = @ + Cardinality({r \in stored : <<r[1], 0>> \in P})]
    /\ UNCHANGED <<stored, stayed, came, gone>>

PageAtOffset ==
    LET order == reading.list.order
        rows == Entries(reading.list, stored)
    IN
    /\ reading.open /\ reading.list.holds = "offset"
    /\ \E skipped \in SUBSET rows :
          /\ IsFirst(skipped, reading.offset, rows, order)
          /\ \E P \in SUBSET (rows \ skipped) :
                /\ IsFirst(P, PageSize, rows \ skipped, order)
                /\ reading' = [Took(P, HasMore(P)) EXCEPT
                                  !.offset = @ + PageSize]
    /\ UNCHANGED <<stored, stayed, came, gone>>

\* A row that changes its place goes and comes.
Come(r) ==
    /\ reading.open /\ came + gone < MaxChanges
    /\ r \notin stored
    /\ stored' = stored \cup {r}
    /\ came' = came + 1
    /\ UNCHANGED <<reading, stayed, gone>>

Go(r) ==
    /\ reading.open /\ came + gone < MaxChanges
    /\ r \in stored
    /\ stored' = stored \ {r}
    /\ stayed' = stayed \ {r}
    /\ gone' = gone + 1
    /\ UNCHANGED <<reading, came>>

PagesNext ==
    \/ \E list \in Lists : StartList(list)
    \/ PageAfterRow
    \/ PageAtOffset
    \/ \E r \in ListRows : Come(r) \/ Go(r)

PagesSpec == PagesInit /\ [][PagesNext]_pagesVars
-----------------------------------------------------------------------------
Missed == Entries(reading.list, stayed) \ reading.got

\* Reading a list to its end shows every row that was there all along.  With
\* the token of a row none is shown twice either; with an offset no more rows
\* are missed than have gone, and no more shown again than have come; and a
\* count is wrong by no more than the rows that have come and gone.
PagesShowWhatStays ==
    LET holds == reading.list.holds IN
    /\ holds \in {"row", "count"} => reading.repeated = 0
    /\ holds = "offset" => reading.repeated <= came
    /\ reading.started /\ ~reading.open =>
          /\ holds \in {"row", "count"} => Missed = {}
          /\ holds = "offset" => Cardinality(Missed) <= gone
          /\ holds = "count" =>
                /\ Cardinality(stored) <= reading.count + came + gone
                /\ reading.count <= Cardinality(stored) + came + gone
=============================================================================
