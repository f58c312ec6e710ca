------------------------------ MODULE Responses ------------------------------
(***************************************************************************)
(* The cache of the backend's answers.  A handler looks for an answer to    *)
(* the same request, otherwise it reads the database and leaves what it     *)
(* read in the cache, which drops it after a time.  Nothing that changes    *)
(* the database removes an answer from the cache, and what is left there    *)
(* may have been read before a change that is already visible to others.    *)
(***************************************************************************)
EXTENDS Naturals, Sequences, FiniteSets

CONSTANTS
    Handlers,        \* requests that are handled side by side
    Params,          \* what requests can ask an operation for
    AskedOperations, \* the operations that are asked
    DefaultTTL,      \* CACHE_TTL
    AggregatedTTL,   \* AGGREGATED_FEATURE_STATS_TTL
    MaxHandling,     \* bound: ticks that handling a request takes
    MaxTime,         \* bound: ticks of the clock
    MaxAnswers       \* bound: answers that the database has to a request in turn

ASSUME TTLAssumption == {DefaultTTL, AggregatedTTL} \subseteq Nat \ {0}
ASSUME BoundsAssumption == {MaxHandling, MaxTime, MaxAnswers} \subseteq Nat

VARIABLES
    now,
    truth,    \* what the database answered to a request, and from when, the latest last
    cached,   \* under each key an answer and when it is dropped
    handler,  \* per handler: how far it is and what it has
    reply     \* the last answer that any of them has given

responsesVars == <<now, truth, cached, handler, reply>>

\* The statuses an operation answers with as the database changes, the ones it
\* refuses a request with for good (a token or a browser it does not know), and
\* the time its answers are kept.
Operation(id, statuses, refusals, ttl) ==
    [id |-> id, statuses |-> statuses, refusals |-> refusals, ttl |-> ttl]

GetFeature == Operation("getFeature", {200, 301, 404, 410}, {}, DefaultTTL)
ListFeatures == Operation("listFeatures", {200, 400}, {}, DefaultTTL)
GetFeatureMetadata == Operation("getFeatureMetadata", {200, 404}, {}, DefaultTTL)
ListFeatureWPTMetrics == Operation("listFeatureWPTMetrics", {200}, {400}, DefaultTTL)
ListChromeDailyUsageStats ==
    Operation("listChromeDailyUsageStats", {200}, {400}, DefaultTTL)
ListAggregatedWPTMetrics ==
    Operation("listAggregatedWPTMetrics", {200}, {400}, DefaultTTL)
ListAggregatedFeatureSupport ==
    Operation("listAggregatedFeatureSupport", {200}, {400}, AggregatedTTL)
ListMissingOneImplementationCounts ==
    Operation("ListMissingOneImplementationCounts", {200}, {400}, AggregatedTTL)
ListAggregatedBaselineStatusCounts ==
    Operation("listAggregatedBaselineStatusCounts", {200}, {400}, AggregatedTTL)
ListGlobalSavedSearches ==
    Operation("listGlobalSavedSearches", {200}, {400}, AggregatedTTL)

Operations ==
    {GetFeature, ListFeatures, GetFeatureMetadata, ListFeatureWPTMetrics,
     ListChromeDailyUsageStats, ListAggregatedWPTMetrics, ListAggregatedFeatureSupport,
     ListMissingOneImplementationCounts, ListAggregatedBaselineStatusCounts,
     ListGlobalSavedSearches}

Requests == {[op |-> op, params |-> p] : op \in {o \in Operations : o.id \in AskedOperations}, p \in Params}

\* Variant: operations share their keys.
SharedKey(request) == <<request.params>>
Key(request) == <<request.op.id, request.params>>

\* An answer to a request is one of those the database had to it in turn.
StatusOf(answer) == truth[answer[1]][answer[2]].status
\* It was so at t or later.
TrueSince(answer, t) ==
    answer[2] = Len(truth[answer[1]]) \/ truth[answer[1]][answer[2] + 1].since >= t

Nothing == [expires |-> 0]
IdleHandler == [at |-> "idle"]
NoReply == <<>>

ResponsesInit ==
    /\ now = 0
    /\ truth \in [Requests -> {<<[status |-> s, since |-> 0]>> : s \in {200, 400, 404}}]
    /\ \A r \in Requests : truth[r][1].status \in r.op.statuses \cup r.op.refusals
    /\ cached = [k \in {Key(r) : r \in Requests} |-> Nothing]
    /\ handler = [h \in Handlers |-> IdleHandler]
    /\ reply = NoReply

\* Ingestion, a user or a workflow changes what the database answers.
Change(r) ==
    /\ Len(truth[r]) < MaxAnswers
    /\ truth[r][1].status \notin r.op.refusals
    /\ \E s \in r.op.statuses :
          truth' = [truth EXCEPT ![r] = Append(@, [status |-> s, since |-> now])]
    /\ UNCHANGED <<now, cached, handler, reply>>

\* Bound: nobody is kept waiting for longer than MaxHandling.  Valkey drops what
\* has been kept for its time.
Tick ==
    /\ now < MaxTime
    /\ \A h \in Handlers :
          handler[h].at # "idle" => now < handler[h].began + MaxHandling
    /\ now' = now + 1
    /\ cached' = [k \in DOMAIN cached |->
                      IF cached[k].expires > now' THEN cached[k] ELSE Nothing]
    /\ UNCHANGED <<truth, handler, reply>>

Answer(h, r, began, answer, hit) ==
    /\ reply' = [request |-> r, began |-> began, answer |-> answer, hit |-> hit]
    /\ handler' = [handler EXCEPT ![h] = IdleHandler]

\* A cache that cannot be reached is a miss.
Lookup(h, r) ==
    /\ handler[h].at = "idle"
    /\ \/ /\ cached[Key(r)] # Nothing
          /\ Answer(h, r, now, cached[Key(r)].answer, TRUE)
       \/ /\ handler' = [handler EXCEPT ![h] = [at |-> "query", request |-> r, began |-> now]]
          /\ UNCHANGED reply
    /\ UNCHANGED <<now, truth, cached>>

\* Only a 200 is left in the cache; a failing query ends the request.
Query(h) ==
    LET r == handler[h].request
        answer == <<r, Len(truth[r])>>
    IN
    /\ handler[h].at = "query"
    /\ \/ /\ StatusOf(answer) = 200
          /\ handler' = [handler EXCEPT ![h] = [at |-> "cache", request |-> r,
                             began |-> handler[h].began, answer |-> answer]]
          /\ UNCHANGED reply
       \/ /\ StatusOf(answer) # 200
          /\ Answer(h, r, handler[h].began, answer, FALSE)
       \/ handler' = [handler EXCEPT ![h] = IdleHandler] /\ UNCHANGED reply
    /\ UNCHANGED <<now, truth, cached>>

\* The answer goes out whether or not it could be left in the cache.
AttemptCache(h) ==
    LET r == handler[h].request IN
    /\ handler[h].at = "cache"
    /\ \/ cached' = [cached EXCEPT ![Key(r)] =
                         [answer |-> handler[h].answer, expires |-> now + r.op.ttl]]
       \/ UNCHANGED cached
    /\ Answer(h, r, handler[h].began, handler[h].answer, FALSE)
    /\ UNCHANGED <<now, truth>>

ResponsesNext ==
    \/ Tick
    \/ \E r \in Requests : Change(r)
    \/ \E h \in Handlers :
          \/ \E r \in Requests : Lookup(h, r)
          \/ Query(h) \/ AttemptCache(h)

ResponsesSpec == ResponsesInit /\ [][ResponsesNext]_responsesVars
-----------------------------------------------------------------------------
\* An answer to a request was the database's answer to it while the request was
\* handled; or it is a 200 from the cache, and was the answer no longer ago
\* than such answers are kept and the handler that left it there can have taken.
AnswersAreRecent ==
    reply # NoReply =>
        /\ reply.answer[1] = reply.request
        /\ IF reply.hit
           THEN /\ StatusOf(reply.answer) = 200
                /\ \E t \in 0 .. MaxTime :
                      /\ reply.began < t + reply.request.op.ttl + MaxHandling
                      /\ TrueSince(reply.answer, t)
           ELSE TrueSince(reply.answer, reply.began)
=============================================================================
