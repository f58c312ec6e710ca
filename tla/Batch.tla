-------------------------------- MODULE Batch --------------------------------
(***************************************************************************)
(* The batches of a frequency, which have every saved search refreshed,    *)
(* against users who write searches meanwhile.  What they write asks for a *)
(* refresh of another frequency, and fails to if that message is not       *)
(* published; everything else is left to the batches.  A batch that fails  *)
(* half-way is delivered again and lists the searches anew.                *)
(***************************************************************************)
EXTENDS Naturals

CONSTANTS
    BatchSearches,   \* identifiers of saved searches
    Batches,         \* messages of the scheduler
    MaxRevision,     \* bound: how often the query of a search is written
    MaxTries         \* max_delivery_attempts of the batch subscription

ASSUME TriesAssumption == MaxTries \in Nat \ {0}
ASSUME RevisionAssumption == MaxRevision \in Nat

VARIABLES
    queryRevision,    \* per search, the revision of its query, 0 if there is none
    deletedSearches,  \* the searches that were deleted
    refreshes,        \* what the batches asked for: a search and a revision of its query
    message,          \* per message: its state, its deliveries and what is left to publish
    since             \* (history) the revisions when the batch was asked for

batchVars == <<queryRevision, deletedSearches, refreshes, message, since>>

Present == {s \in BatchSearches : queryRevision[s] > 0} \ deletedSearches

BatchInit ==
    /\ queryRevision = [s \in BatchSearches |-> 0]
    /\ deletedSearches = {} /\ refreshes = {}
    /\ message = [b \in Batches |-> [st |-> "unsent", tries |-> 0, todo |-> {}]]
    /\ since = [b \in Batches |-> queryRevision]

\* A search is created or edited.
WriteSearch(s) ==
    /\ s \notin deletedSearches /\ queryRevision[s] < MaxRevision
    /\ queryRevision' = [queryRevision EXCEPT ![s] = @ + 1]
    /\ UNCHANGED <<deletedSearches, refreshes, message, since>>

DeleteSearch(s) ==
    /\ s \in Present
    /\ deletedSearches' = deletedSearches \cup {s}
    /\ UNCHANGED <<queryRevision, refreshes, message, since>>

TriggerBatch(b) ==
    /\ message[b].st = "unsent"
    /\ message' = [message EXCEPT ![b].st = "pending"]
    /\ since' = [since EXCEPT ![b] = queryRevision]
    /\ UNCHANGED <<queryRevision, deletedSearches, refreshes>>

\* Delivered again, unless that was the last time.
Returned(r) ==
    [r EXCEPT !.st = IF r.tries >= MaxTries THEN "dead" ELSE "pending", !.todo = {}]

ListAllSavedSearches(b) ==
    /\ message[b].st = "pending"
    /\ LET delivered == [message[b] EXCEPT !.tries = @ + 1]
           listed == [delivered EXCEPT !.st = "fanout",
                                       !.todo = {<<s, queryRevision[s]>> : s \in Present}]
       IN \E r \in {listed, Returned(delivered)} : message' = [message EXCEPT ![b] = r]
    /\ UNCHANGED <<queryRevision, deletedSearches, refreshes, since>>

\* The searches come in any order.
PublishRefresh(b) ==
    /\ message[b].st = "fanout"
    /\ \E x \in message[b].todo :
          /\ refreshes' = refreshes \cup {x}
          /\ message' = [message EXCEPT ![b].todo = @ \ {x}]
    /\ UNCHANGED <<queryRevision, deletedSearches, since>>

\* Variant: the failure is logged, and the loop goes on.
RefreshFailsQuietly(b) ==
    /\ message[b].st = "fanout"
    /\ \E x \in message[b].todo : message' = [message EXCEPT ![b].todo = @ \ {x}]
    /\ UNCHANGED <<queryRevision, deletedSearches, refreshes, since>>

\* The loop ends, whether the message was accepted or not; so it does when the
\* process dies.
RefreshFails(b) ==
    /\ message[b].st = "fanout"
    /\ \/ UNCHANGED refreshes
       \/ \E x \in message[b].todo : refreshes' = refreshes \cup {x}
    /\ message' = [message EXCEPT ![b] = Returned(@)]
    /\ UNCHANGED <<queryRevision, deletedSearches, since>>

CompleteBatch(b) ==
    /\ message[b].st = "fanout" /\ message[b].todo = {}
    /\ message' = [message EXCEPT ![b].st = "acked"]
    /\ UNCHANGED <<queryRevision, deletedSearches, refreshes, since>>

BatchNext ==
    \/ \E s \in BatchSearches : WriteSearch(s) \/ DeleteSearch(s)
    \/ \E b \in Batches :
          \/ TriggerBatch(b) \/ ListAllSavedSearches(b) \/ PublishRefresh(b)
          \/ RefreshFails(b) \/ CompleteBatch(b)

BatchSpec == BatchInit /\ [][BatchNext]_batchVars
-----------------------------------------------------------------------------
\* A batch that is done has asked for the refresh of every search that was there
\* when the batch was asked for and has not been deleted, with its query of then
\* or a later one: a refresh whose message was lost when the query was queryRevision is
\* made good by the next batch, however often that was cut short.
BatchReachesEverySearch ==
    \A b \in Batches : message[b].st = "acked" =>
        \A s \in Present : since[b][s] > 0 =>
            \E q \in since[b][s] .. MaxRevision : <<s, q>> \in refreshes
=============================================================================
