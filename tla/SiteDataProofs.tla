---------------------------- MODULE SiteDataProofs ----------------------------
(***************************************************************************)
(* The data of the site: what is proved of its parts, each of which has a  *)
(* specification of its own.                                               *)
(***************************************************************************)
EXTENDS Attempts, Responses, BulkWrite, Batch, Usage, Pages, FeatureSearch, Induction,
        FiniteSetTheorems, SequenceTheorems, TLAPS

-----------------------------------------------------------------------------
(***************************************************************************)
(* The latest attempts are kept, for any number that is kept and any times  *)
(* of the attempts.  The invariant adds to the property that places are     *)
(* given once and in turn, so that a new attempt is a row of its own.       *)
(***************************************************************************)

Places ==
    /\ recorded \in Nat /\ IsFiniteSet(attempts)
    /\ \A a \in attempts : a.place \in 1 .. recorded /\ a.stamp \in Nat
    /\ \A p \in pruned : p.until \in 0 .. recorded

AttemptsInv == Places /\ LatestAttemptsAreKept

LEMMA Remainder ==
    ASSUME NEW S, IsFiniteSet(S), NEW D \in SUBSET S
    PROVE  IsFiniteSet(S \ D) /\ Cardinality(S \ D) = Cardinality(S) - Cardinality(D)
<1>1. PICK R : R = S \ D
    OBVIOUS
<1>2. /\ IsFiniteSet(D) /\ IsFiniteSet(R)
      /\ Cardinality(D) \in Nat /\ Cardinality(R) \in Nat
    BY <1>1, FS_Subset, FS_CardinalityType
<1>3. Cardinality(D \cup R) = Cardinality(D) + Cardinality(R) - Cardinality(D \cap R)
    BY <1>2, FS_Union
<1>4. D \cap R = {} /\ D \cup R = S
    BY <1>1
<1>5. Cardinality(S) = Cardinality(D) + Cardinality(R)
    BY <1>2, <1>3, <1>4, FS_EmptySet
<1> QED
    BY <1>1, <1>2, <1>5

LEMMA AttemptsStep == AttemptsInv /\ [AttemptsNext]_attemptsVars => AttemptsInv'
<1> SUFFICES ASSUME AttemptsInv, [AttemptsNext]_attemptsVars PROVE AttemptsInv'
    OBVIOUS
<1>1. CASE UNCHANGED attemptsVars
    BY <1>1 DEF attemptsVars, AttemptsInv, Places, LatestAttemptsAreKept
<1>2. ASSUME NEW stamp \in Stamps, CreateAttempt(stamp) PROVE AttemptsInv'
  <2> DEFINE new == [stamp |-> stamp, place |-> recorded + 1]
  <2>1. PICK D \in SUBSET attempts :
            /\ IsOldest(D, DeleteCount(Cardinality(attempts)))
            /\ attempts' = (attempts \ D) \cup {new}
            /\ pruned' = pruned \cup {[stamp |-> d.stamp, until |-> recorded] : d \in D}
      BY <1>2 DEF CreateAttempt
  <2>2. /\ recorded' = recorded + 1 /\ recorded \in Nat
        /\ new.place = recorded + 1 /\ new.stamp = stamp
      BY <1>2 DEF CreateAttempt, AttemptsInv, Places
  <2>3. new \notin attempts
      BY <2>2 DEF AttemptsInv, Places
  <2> HIDE DEF new
  <2>4. Places'
    <3>1. IsFiniteSet(attempts')
        BY <2>1, Remainder, FS_AddElement DEF AttemptsInv, Places
    <3>2. \A a \in attempts' : a.place \in 1 .. recorded' /\ a.stamp \in Nat
        BY <2>1, <2>2, StampsAssumption DEF AttemptsInv, Places
    <3>3. \A p \in pruned' : p.until \in 0 .. recorded'
        BY <2>1, <2>2 DEF AttemptsInv, Places
    <3> QED
        BY <2>2, <3>1, <3>2, <3>3 DEF Places
  <2>5. Cardinality(attempts') = IF recorded' < MaxKept THEN recorded' ELSE MaxKept
    <3>1. Cardinality(attempts) = IF recorded < MaxKept THEN recorded ELSE MaxKept
        BY DEF AttemptsInv, LatestAttemptsAreKept
    <3>2. Cardinality(D) = IF recorded < MaxKept THEN 0 ELSE 1
        BY <2>1, <2>2, <3>1, MaxKeptAssumption DEF IsOldest, DeleteCount
    <3>3. /\ IsFiniteSet(attempts \ D)
          /\ Cardinality(attempts \ D) = Cardinality(attempts) - Cardinality(D)
        BY Remainder DEF AttemptsInv, Places
    <3>4. Cardinality(attempts') = Cardinality(attempts \ D) + 1
        BY <2>1, <2>3, <3>3, FS_AddElement
    <3> QED
        BY <2>2, <3>1, <3>2, <3>3, <3>4, MaxKeptAssumption
  <2>6. \E a \in attempts' : a.place = recorded'
      BY <2>1, <2>2
  <2>7. ASSUME NEW a \in attempts', NEW p \in pruned', a.stamp < p.stamp
        PROVE  a.place > p.until
    <3>1. CASE a = new
        BY <2>1, <2>2, <3>1 DEF AttemptsInv, Places
    <3>2. CASE a \in attempts \ D /\ p \in pruned
        BY <2>7, <3>2 DEF AttemptsInv, LatestAttemptsAreKept
    <3>3. CASE a \in attempts \ D /\ p \notin pruned
      <4>1. PICK d \in D : p.stamp = d.stamp
          BY <2>1, <3>3
      <4>2. d.stamp <= a.stamp
          BY <2>1, <3>3 DEF IsOldest
      <4>3. a.stamp \in Nat /\ d.stamp \in Nat
          BY <2>1, <3>3 DEF AttemptsInv, Places
      <4> QED
          BY <2>7, <4>1, <4>2, <4>3
    <3> QED
        BY <2>1, <3>1, <3>2, <3>3
  <2> QED
      BY <2>4, <2>5, <2>6, <2>7 DEF AttemptsInv, LatestAttemptsAreKept
<1> QED
    BY <1>1, <1>2 DEF AttemptsNext

\* However many attempts a channel keeps and in whatever order they are
\* recorded, the log fills up, stays full with the last one recorded in it, and
\* prunes no attempt before an older one that was there.
THEOREM LatestAttemptsAreKeptHolds == AttemptsSpec => []LatestAttemptsAreKept
<1>1. AttemptsInit => AttemptsInv
    BY FS_EmptySet, MaxKeptAssumption
    DEF AttemptsInit, AttemptsInv, Places, LatestAttemptsAreKept
<1>2. AttemptsSpec => []AttemptsInv
    BY <1>1, AttemptsStep, PTL DEF AttemptsSpec
<1>3. AttemptsInv => LatestAttemptsAreKept
    BY DEF AttemptsInv
<1> QED
    BY <1>2, <1>3, PTL

-----------------------------------------------------------------------------
(***************************************************************************)
(* Answers are recent, for any requests handled side by side and any times *)
(* for which they are kept.  The invariant says of what is on its way what *)
(* the property says of a reply: an answer read was true when it was read, *)
(* and what is in the cache is dropped within its time of being true.      *)
(***************************************************************************)

Known(a) == a[1] \in Requests /\ a[2] \in 1 .. Len(truth[a[1]])

Clock == now \in 0 .. MaxTime

TruthOK ==
    /\ truth \in [Requests -> Seq([status : Nat, since : Nat])]
    /\ \A r \in Requests : Len(truth[r]) > 0

InTime(s) ==
    s.request \in Requests /\ s.began \in 0 .. now /\ now <= s.began + MaxHandling

HasRead(s) ==
    /\ Known(s.answer) /\ s.answer[1] = s.request
    /\ StatusOf(s.answer) = 200 /\ TrueSince(s.answer, s.began)

HandlerOK(s) ==
    \/ s = IdleHandler
    \/ s.at = "query" /\ InTime(s)
    \/ s.at = "cache" /\ InTime(s) /\ HasRead(s)

HandlersOK ==
    /\ DOMAIN handler = Handlers
    /\ \A h \in Handlers : HandlerOK(handler[h])

\* until is a time by which an entry must be gone.
TrueUntil(a, until, r) ==
    \E t \in 0 .. now : until <= t + r.op.ttl + MaxHandling /\ TrueSince(a, t)

EntryOK(e, r) ==
    /\ Known(e.answer) /\ e.answer[1] = r /\ StatusOf(e.answer) = 200
    /\ e.expires \in Nat /\ now < e.expires
    /\ TrueUntil(e.answer, e.expires, r)

CacheOK ==
    /\ DOMAIN cached = {Key(r) : r \in Requests}
    /\ \A r \in Requests : cached[Key(r)] = Nothing \/ EntryOK(cached[Key(r)], r)

ReplyOK ==
    reply = NoReply \/
        /\ Known(reply.answer) /\ reply.answer[1] = reply.request
        /\ reply.began \in 0 .. now
        /\ IF reply.hit
           THEN StatusOf(reply.answer) = 200
                /\ TrueUntil(reply.answer, reply.began + 1, reply.request)
           ELSE TrueSince(reply.answer, reply.began)

ResponsesInv == Clock /\ TruthOK /\ HandlersOK /\ CacheOK /\ ReplyOK

LEMMA TTLType == \A r \in Requests : r.op.ttl \in Nat \ {0}
<1> SUFFICES ASSUME NEW op \in Operations PROVE op.ttl \in Nat \ {0}
    BY DEF Requests
<1> QED
    BY TTLAssumption
    DEF Operations, Operation, GetFeature, ListFeatures, GetFeatureMetadata,
        ListFeatureWPTMetrics, ListChromeDailyUsageStats, ListAggregatedWPTMetrics,
        ListAggregatedFeatureSupport, ListMissingOneImplementationCounts,
        ListAggregatedBaselineStatusCounts, ListGlobalSavedSearches

\* No two operations share a prefix, so that a key has one request.
LEMMA KeysDiffer == \A r, s \in Requests : Key(r) = Key(s) => r = s
<1>1. \A o, p \in Operations : o.id = p.id => o = p
    BY DEF Operations, Operation, GetFeature, ListFeatures, GetFeatureMetadata,
        ListFeatureWPTMetrics, ListChromeDailyUsageStats, ListAggregatedWPTMetrics,
        ListAggregatedFeatureSupport, ListMissingOneImplementationCounts,
        ListAggregatedBaselineStatusCounts, ListGlobalSavedSearches
<1>2. SUFFICES ASSUME NEW o \in Operations, NEW u \in Params,
                      NEW p \in Operations, NEW v \in Params,
                      Key([op |-> o, params |-> u]) = Key([op |-> p, params |-> v])
               PROVE  o = p /\ u = v
    BY DEF Requests
<1> QED
    BY <1>1, <1>2 DEF Key

LEMMA StatusType ==
    ASSUME NEW r \in Requests
    PROVE  r.op.statuses \subseteq Nat
<1> SUFFICES ASSUME NEW op \in Operations PROVE op.statuses \subseteq Nat
    BY DEF Requests
<1> QED
    BY DEF Operations, Operation, GetFeature, ListFeatures, GetFeatureMetadata,
        ListFeatureWPTMetrics, ListChromeDailyUsageStats, ListAggregatedWPTMetrics,
        ListAggregatedFeatureSupport, ListMissingOneImplementationCounts,
        ListAggregatedBaselineStatusCounts, ListGlobalSavedSearches

LEMMA ResponsesInitially == ResponsesInit => ResponsesInv
<1> SUFFICES ASSUME ResponsesInit PROVE ResponsesInv
    OBVIOUS
<1>1. Clock
    BY BoundsAssumption DEF ResponsesInit, Clock
<1>2. TruthOK
  <2> DEFINE T == {<<[status |-> s, since |-> 0]>> : s \in {200, 400, 404}}
  <2>1. ASSUME NEW s \in {200, 400, 404}
        PROVE  /\ <<[status |-> s, since |-> 0]>> \in Seq([status : Nat, since : Nat])
               /\ Len(<<[status |-> s, since |-> 0]>>) > 0
    <3>1. [status |-> s, since |-> 0] \in [status : Nat, since : Nat]
      OBVIOUS
    <3> QED
      BY <3>1
  <2>2. ASSUME NEW f \in T PROVE f \in Seq([status : Nat, since : Nat]) /\ Len(f) > 0
    <3>1. PICK s \in {200, 400, 404} : f = <<[status |-> s, since |-> 0]>>
      OBVIOUS
    <3> HIDE DEF T
    <3> QED
      BY <2>1, <3>1
  <2>3. truth \in [Requests -> T]
    BY DEF ResponsesInit
  <2> HIDE DEF T
  <2> QED
    BY <2>2, <2>3 DEF TruthOK
<1>3. HandlersOK /\ CacheOK /\ ReplyOK
    BY DEF ResponsesInit, HandlersOK, HandlerOK, CacheOK, ReplyOK
<1> QED
    BY <1>1, <1>2, <1>3 DEF ResponsesInv

\* What an answer was stays, whatever the database answers next.
Stays ==
    \A a : Known(a) =>
        /\ Known(a)'
        /\ StatusOf(a)' = StatusOf(a)
        /\ \A t \in 0 .. now : TrueSince(a, t) => TrueSince(a, t)'

LEMMA UnchangedStays == truth' = truth => Stays
    BY DEF Stays, Known, StatusOf, TrueSince

LEMMA ChangeStays ==
    ASSUME ResponsesInv, NEW r \in Requests, Change(r)
    PROVE  Stays /\ TruthOK'
<1> DEFINE S == [status : Nat, since : Nat]
<1>1. PICK s \in r.op.statuses :
          truth' = [truth EXCEPT ![r] = Append(@, [status |-> s, since |-> now])]
    BY DEF Change
<1>2. [status |-> s, since |-> now] \in S
    BY StatusType DEF ResponsesInv, Clock
<1>3. truth[r] \in Seq(S)
    BY DEF ResponsesInv, TruthOK
<1>9. truth'[r] \in Seq(S)
    BY <1>1, <1>2, <1>3 DEF ResponsesInv, TruthOK
<1>4. /\ Len(truth'[r]) = Len(truth[r]) + 1
      /\ \A i \in 1 .. Len(truth[r]) : truth'[r][i] = truth[r][i]
      /\ truth'[r][Len(truth[r]) + 1].since = now
    BY <1>1, <1>2, <1>3 DEF ResponsesInv, TruthOK
<1>5. \A q \in Requests : q # r => truth'[q] = truth[q]
    BY <1>1 DEF ResponsesInv, TruthOK
<1>6. TruthOK'
    BY <1>1, <1>3, <1>4, <1>5, <1>9 DEF ResponsesInv, TruthOK
<1>7. ASSUME NEW a, Known(a), a[1] = r
      PROVE  /\ Known(a)' /\ StatusOf(a)' = StatusOf(a)
             /\ \A t \in 0 .. now : TrueSince(a, t) => TrueSince(a, t)'
  <2>1. Len(truth[r]) \in Nat /\ a[2] \in 1 .. Len(truth[r])
    BY <1>3, <1>7 DEF Known
  <2>2. a[2] \in 1 .. Len(truth'[r]) /\ truth'[r][a[2]] = truth[r][a[2]]
    BY <1>4, <2>1
  <2>3. Known(a)' /\ StatusOf(a)' = StatusOf(a)
    BY <1>7, <2>2 DEF Known, StatusOf, Requests
  <2>4. ASSUME NEW t \in 0 .. now, TrueSince(a, t) PROVE TrueSince(a, t)'
    <3>1. CASE a[2] = Len(truth[r])
      BY <1>4, <1>7, <3>1, <2>4 DEF TrueSince, ResponsesInv, Clock
    <3>2. CASE a[2] # Len(truth[r])
      <4>1. a[2] + 1 \in 1 .. Len(truth[r])
        BY <2>1, <3>2
      <4>2. truth[r][a[2] + 1].since >= t
        BY <1>7, <2>4, <3>2 DEF TrueSince
      <4> QED
        BY <1>4, <1>7, <4>1, <4>2 DEF TrueSince
    <3> QED
      BY <3>1, <3>2
  <2> QED
    BY <2>3, <2>4
<1>8. ASSUME NEW a, Known(a), a[1] # r
      PROVE  /\ Known(a)' /\ StatusOf(a)' = StatusOf(a)
             /\ \A t \in 0 .. now : TrueSince(a, t) => TrueSince(a, t)'
    BY <1>5, <1>8 DEF Known, StatusOf, TrueSince
<1> QED
    BY <1>6, <1>7, <1>8 DEF Stays

\* A handler that does nothing while the clock stands still.
LEMMA HandlerStays ==
    ASSUME HandlersOK, Stays, now' = now, Clock,
           NEW h \in Handlers, handler'[h] = handler[h]
    PROVE  HandlerOK(handler[h])'
<1>1. HandlerOK(handler[h])
    BY DEF HandlersOK
<1>2. CASE handler[h] = IdleHandler
    BY <1>1, <1>2 DEF HandlerOK
<1>3. CASE InTime(handler[h])
  <2>1. InTime(handler[h])'
    BY <1>1, <1>3 DEF InTime
  <2>2. HasRead(handler[h]) => HasRead(handler[h])'
    BY <1>1, <1>3 DEF HasRead, InTime, Stays
  <2> QED
    BY <1>1, <2>1, <2>2 DEF HandlerOK, IdleHandler
<1> QED
    BY <1>1, <1>2, <1>3 DEF HandlerOK

LEMMA HandlersStay ==
    ASSUME HandlersOK, Stays, now' = now, handler' = handler, Clock
    PROVE  HandlersOK'
<1>1. \A h \in Handlers : HandlerOK(handler[h])'
    BY HandlerStays
<1> QED
    BY <1>1 DEF HandlersOK

\* One that starts, goes on or ends.
LEMMA OneHandler ==
    ASSUME HandlersOK, Clock, UNCHANGED <<now, truth>>, NEW h \in Handlers, NEW s,
           handler' = [handler EXCEPT ![h] = s], HandlerOK(handler[h])'
    PROVE  HandlersOK'
<1>1. Stays
    BY UnchangedStays
<1>2. ASSUME NEW g \in Handlers PROVE HandlerOK(handler[g])'
  <2>1. CASE g = h
    BY <2>1
  <2>2. CASE g # h
    <3>1. handler'[g] = handler[g]
      BY <2>2 DEF HandlersOK
    <3> QED
      BY <1>1, <3>1, HandlerStays
  <2> QED
    BY <2>1, <2>2
<1> QED
    BY <1>2 DEF HandlersOK

LEMMA EntriesStay ==
    ASSUME CacheOK, Stays, now' = now, cached' = cached
    PROVE  CacheOK'
<1> SUFFICES ASSUME NEW r \in Requests, cached[Key(r)] # Nothing
             PROVE  EntryOK(cached[Key(r)], r)'
    BY DEF CacheOK, Nothing, Key
<1>1. EntryOK(cached[Key(r)], r)
    BY DEF CacheOK
<1> QED
    BY <1>1 DEF EntryOK, TrueUntil, Stays, Key

LEMMA ReplyStays ==
    ASSUME ReplyOK, Stays, now \in Nat, now' \in {now, now + 1}, reply' = reply
    PROVE  ReplyOK'
<1> SUFFICES ASSUME reply # NoReply PROVE ReplyOK'
    BY DEF ReplyOK, NoReply
<1>1. reply.began \in 0 .. now'
    BY DEF ReplyOK
<1>2. CASE reply.hit
  <2>1. TrueUntil(reply.answer, reply.began + 1, reply.request)
    BY <1>2 DEF ReplyOK
  <2>2. TrueUntil(reply.answer, reply.began + 1, reply.request)'
    BY <2>1 DEF TrueUntil, Stays, ReplyOK
  <2> QED
    BY <1>1, <1>2, <2>2 DEF ReplyOK, Stays
<1>3. CASE ~reply.hit
    BY <1>1, <1>3 DEF ReplyOK, Stays
<1> QED
    BY <1>2, <1>3

LEMMA TickStep ==
    ASSUME ResponsesInv, Tick
    PROVE  ResponsesInv'
<1> USE DEF ResponsesInv
<1>0. Stays /\ TruthOK'
    BY UnchangedStays DEF Tick, TruthOK
<1>1. Clock'
    BY BoundsAssumption DEF Tick, Clock
<1>2. HandlersOK'
  <2> SUFFICES ASSUME NEW h \in Handlers PROVE HandlerOK(handler[h])'
    BY DEF HandlersOK, Tick
  <2>1. HandlerOK(handler[h]) /\ handler'[h] = handler[h]
    BY DEF HandlersOK, Tick
  <2>2. handler[h].at # "idle" /\ InTime(handler[h]) => InTime(handler[h])'
    BY <2>1, BoundsAssumption DEF Tick, InTime, Clock
  <2>3. InTime(handler[h]) /\ HasRead(handler[h]) => HasRead(handler[h])'
    BY <1>0, <2>1 DEF HasRead, InTime, Stays
  <2> QED
    BY <2>1, <2>2, <2>3 DEF HandlerOK, IdleHandler
<1>3. CacheOK'
  <2> SUFFICES ASSUME NEW r \in Requests, cached'[Key(r)] # Nothing
               PROVE  EntryOK(cached[Key(r)], r)'
    BY DEF CacheOK, Tick, Nothing, Key
  <2>1. cached'[Key(r)] = cached[Key(r)] /\ cached[Key(r)].expires > now'
    BY DEF CacheOK, Tick
  <2>2. EntryOK(cached[Key(r)], r)
    BY <2>1 DEF CacheOK
  <2>3. TrueUntil(cached[Key(r)].answer, cached[Key(r)].expires, r)'
    BY <1>0, <2>1, <2>2 DEF EntryOK, TrueUntil, Stays, Tick, Clock, Key
  <2> QED
    BY <1>0, <2>1, <2>2, <2>3 DEF EntryOK, Stays, Tick, Clock, Key
<1>4. ReplyOK'
    BY <1>0, ReplyStays DEF Tick, Clock
<1> QED
    BY <1>0, <1>1, <1>2, <1>3, <1>4

LEMMA LookupStep ==
    ASSUME ResponsesInv, NEW h \in Handlers, NEW r \in Requests, Lookup(h, r)
    PROVE  ResponsesInv'
<1> USE DEF ResponsesInv
<1>0. Stays /\ Clock' /\ TruthOK' /\ CacheOK'
    BY UnchangedStays, EntriesStay DEF Lookup, Clock, TruthOK
<1>1. CASE cached[Key(r)] # Nothing /\ Answer(h, r, now, cached[Key(r)].answer, TRUE)
  <2>1. HandlersOK'
    <3>1. HandlerOK(handler[h])'
      BY <1>1 DEF Answer, HandlerOK, HandlersOK, IdleHandler
    <3> QED
      BY <1>1, <3>1, OneHandler DEF Answer, Lookup
  <2>2. ReplyOK'
    <3>1. EntryOK(cached[Key(r)], r)
      BY <1>1 DEF CacheOK
    <3>2. /\ Known(cached[Key(r)].answer)' /\ StatusOf(cached[Key(r)].answer)' = 200
          /\ now' = now /\ cached' = cached
      BY <1>0, <3>1 DEF EntryOK, Stays, Lookup
    <3>3. TrueUntil(cached[Key(r)].answer, now + 1, r)'
      <4>1. PICK t \in 0 .. now :
                /\ cached[Key(r)].expires <= t + r.op.ttl + MaxHandling
                /\ TrueSince(cached[Key(r)].answer, t)
        BY <3>1 DEF EntryOK, TrueUntil
      <4>2. now + 1 <= t + r.op.ttl + MaxHandling
        BY <3>1, <4>1, TTLType, BoundsAssumption DEF EntryOK, Clock
      <4>3. TrueSince(cached[Key(r)].answer, t)'
        BY <1>0, <3>1, <3>2, <4>1 DEF EntryOK, Stays
      <4> QED
        BY <3>2, <4>2, <4>3 DEF TrueUntil
    <3>4. reply' = [request |-> r, began |-> now, answer |-> cached[Key(r)].answer, hit |-> TRUE]
      BY <1>1 DEF Answer
    <3> QED
      BY <3>1, <3>2, <3>3, <3>4 DEF ReplyOK, EntryOK, Clock
  <2> QED
    BY <1>0, <2>1, <2>2
<1>2. CASE /\ handler' = [handler EXCEPT ![h] = [at |-> "query", request |-> r, began |-> now]]
           /\ UNCHANGED reply
  <2>1. HandlersOK'
    <3>1. handler'[h] = [at |-> "query", request |-> r, began |-> now]
      BY <1>2 DEF HandlersOK
    <3>2. HandlerOK(handler[h])'
      BY <3>1, BoundsAssumption DEF HandlerOK, InTime, Lookup, Clock
    <3> QED
      BY <1>2, <3>2, OneHandler DEF Lookup
  <2>2. ReplyOK'
    BY <1>0, <1>2, ReplyStays DEF Lookup, Clock
  <2> QED
    BY <1>0, <2>1, <2>2
<1> QED
    BY <1>1, <1>2 DEF Lookup

LEMMA QueryStep ==
    ASSUME ResponsesInv, NEW h \in Handlers, Query(h)
    PROVE  ResponsesInv'
<1> USE DEF ResponsesInv
<1> DEFINE r == handler[h].request
           answer == <<r, Len(truth[r])>>
<1>0. Stays /\ Clock' /\ TruthOK' /\ CacheOK' /\ now' = now /\ truth' = truth
    BY UnchangedStays, EntriesStay DEF Query, Clock, TruthOK
<1>1. handler[h].at = "query" /\ InTime(handler[h])
    BY DEF Query, HandlersOK, HandlerOK, IdleHandler
<1>2. Known(answer) /\ TrueSince(answer, handler[h].began)
  <2>1. Len(truth[r]) \in Nat /\ Len(truth[r]) > 0
    BY <1>1 DEF InTime, TruthOK
  <2> QED
    BY <1>1, <2>1 DEF Known, TrueSince, InTime
<1>3. answer[1] = r /\ handler[h].began \in 0 .. now
    BY <1>1 DEF InTime
<1> HIDE DEF answer
<1>4. CASE /\ StatusOf(answer) = 200
           /\ handler' = [handler EXCEPT ![h] = [at |-> "cache", request |-> r,
                              began |-> handler[h].began, answer |-> answer]]
           /\ UNCHANGED reply
  <2>1. handler'[h] = [at |-> "cache", request |-> r, began |-> handler[h].began,
                       answer |-> answer]
    BY <1>4 DEF HandlersOK
  <2>2. InTime(handler[h])'
    BY <1>0, <1>1, <2>1 DEF InTime
  <2>3. HasRead(handler[h])'
    BY <1>0, <1>2, <1>3, <1>4, <2>1 DEF HasRead, Stays
  <2>4. HandlerOK(handler[h])'
    BY <2>1, <2>2, <2>3 DEF HandlerOK
  <2>5. PICK s : s = [at |-> "cache", request |-> r, began |-> handler[h].began,
                      answer |-> answer]
    OBVIOUS
  <2>6. handler' = [handler EXCEPT ![h] = s]
    BY <1>4, <2>5
  <2>7. HandlersOK'
    BY <1>0, <2>4, <2>6, OneHandler
  <2> QED
    BY <1>0, <1>4, <2>7, ReplyStays DEF Clock
<1>5. CASE Answer(h, r, handler[h].began, answer, FALSE)
  <2>1. HandlerOK(handler[h])'
    BY <1>5 DEF Answer, HandlersOK, HandlerOK
  <2>2. HandlersOK'
    BY <1>0, <1>5, <2>1, OneHandler DEF Answer
  <2>3. reply' = [request |-> r, began |-> handler[h].began, answer |-> answer, hit |-> FALSE]
    BY <1>5 DEF Answer
  <2>4. ReplyOK'
    BY <1>0, <1>2, <1>3, <2>3 DEF ReplyOK, Stays
  <2> QED
    BY <1>0, <2>2, <2>4
<1>6. CASE handler' = [handler EXCEPT ![h] = IdleHandler] /\ UNCHANGED reply
  <2>1. HandlersOK'
    BY <1>0, <1>6, OneHandler DEF HandlersOK, HandlerOK
  <2> QED
    BY <1>0, <1>6, <2>1, ReplyStays DEF Clock
<1> QED
    BY <1>4, <1>5, <1>6 DEF Query, answer

LEMMA AttemptCacheStep ==
    ASSUME ResponsesInv, NEW h \in Handlers, AttemptCache(h)
    PROVE  ResponsesInv'
<1> USE DEF ResponsesInv
<1>0. Stays /\ Clock' /\ TruthOK' /\ now' = now /\ truth' = truth
    BY UnchangedStays DEF AttemptCache, Clock, TruthOK
<1>1. handler[h].at = "cache" /\ InTime(handler[h]) /\ HasRead(handler[h])
    BY DEF AttemptCache, HandlersOK, HandlerOK, IdleHandler
<1>2. PICK r, began, a : r = handler[h].request /\ began = handler[h].began
                             /\ a = handler[h].answer
    OBVIOUS
<1>3. /\ r \in Requests /\ r.op.ttl \in Nat \ {0}
      /\ began \in 0 .. now /\ now <= began + MaxHandling
    BY <1>1, <1>2, TTLType DEF InTime
<1>4. Known(a) /\ a[1] = r /\ StatusOf(a) = 200 /\ TrueSince(a, began)
    BY <1>1, <1>2 DEF HasRead
<1>5. Known(a)' /\ StatusOf(a)' = 200 /\ TrueSince(a, began)'
    BY <1>0, <1>3, <1>4 DEF Stays
<1>6. Answer(h, r, began, a, FALSE)
    BY <1>2 DEF AttemptCache
<1>7. HandlersOK'
  <2>1. HandlerOK(handler[h])'
    BY <1>6 DEF Answer, HandlersOK, HandlerOK
  <2> QED
    BY <1>0, <1>6, <2>1, OneHandler DEF Answer
<1>8. ReplyOK'
  <2>1. reply' = [request |-> r, began |-> began, answer |-> a, hit |-> FALSE]
    BY <1>6 DEF Answer
  <2> QED
    BY <1>0, <1>3, <1>4, <1>5, <2>1 DEF ReplyOK
<1>9. CacheOK'
  <2>1. CASE UNCHANGED cached
    BY <1>0, <2>1, EntriesStay
  <2>2. CASE cached' = [cached EXCEPT ![Key(r)] = [answer |-> a, expires |-> now + r.op.ttl]]
    <3>1. cached'[Key(r)] = [answer |-> a, expires |-> now + r.op.ttl]
      BY <1>3, <2>2 DEF CacheOK
    <3>2. EntryOK(cached[Key(r)], r)'
      <4>1. /\ cached'[Key(r)].answer = a
            /\ cached'[Key(r)].expires = now + r.op.ttl
        BY <3>1
      <4>2. TrueUntil(a, now + r.op.ttl, r)'
        <5>1. now + r.op.ttl <= began + r.op.ttl + MaxHandling
          BY <1>3, BoundsAssumption DEF Clock
        <5> QED
          BY <1>0, <1>3, <1>5, <5>1 DEF TrueUntil
      <4>3. now + r.op.ttl \in Nat /\ now < now + r.op.ttl
        BY <1>3 DEF Clock
      <4> QED
        BY <1>0, <1>4, <1>5, <4>1, <4>2, <4>3 DEF EntryOK, TrueUntil, Key
    <3>3. ASSUME NEW q \in Requests, q # r
          PROVE  cached'[Key(q)] = cached[Key(q)]
      BY <1>3, <2>2, <3>3, KeysDiffer DEF CacheOK
    <3>4. ASSUME NEW q \in Requests, cached'[Key(q)] # Nothing
          PROVE  EntryOK(cached[Key(q)], q)'
      <4>1. CASE q = r
        BY <3>2, <4>1
      <4>2. CASE q # r
        <5>1. EntryOK(cached[Key(q)], q)
          BY <3>3, <3>4, <4>2 DEF CacheOK
        <5> QED
          BY <1>0, <3>3, <4>2, <5>1 DEF EntryOK, TrueUntil, Stays, Key
      <4> QED
        BY <4>1, <4>2
    <3>5. DOMAIN cached' = {Key(q) : q \in Requests}
      BY <2>2 DEF CacheOK
    <3> QED
      BY <3>4, <3>5 DEF CacheOK, Key, Nothing
  <2> QED
    BY <1>2, <2>1, <2>2 DEF AttemptCache
<1> QED
    BY <1>0, <1>7, <1>8, <1>9

LEMMA ChangeStep ==
    ASSUME ResponsesInv, NEW r \in Requests, Change(r)
    PROVE  ResponsesInv'
<1> USE DEF ResponsesInv
<1>1. Stays /\ TruthOK'
    BY ChangeStays
<1>2. Clock' /\ HandlersOK' /\ CacheOK' /\ ReplyOK'
    BY <1>1, HandlersStay, EntriesStay, ReplyStays DEF Change, Clock
<1> QED
    BY <1>1, <1>2

LEMMA ResponsesStep == ResponsesInv /\ [ResponsesNext]_responsesVars => ResponsesInv'
<1> SUFFICES ASSUME ResponsesInv, [ResponsesNext]_responsesVars PROVE ResponsesInv'
    OBVIOUS
<1>1. CASE UNCHANGED responsesVars
  <2>1. Stays /\ TruthOK' /\ Clock'
    BY <1>1, UnchangedStays DEF responsesVars, ResponsesInv, TruthOK, Clock
  <2> QED
    BY <1>1, <2>1, HandlersStay, EntriesStay, ReplyStays
    DEF responsesVars, ResponsesInv, Clock
<1> QED
    BY <1>1, TickStep, ChangeStep, LookupStep, QueryStep, AttemptCacheStep
    DEF ResponsesNext

LEMMA ResponsesInvImplies == ResponsesInv => AnswersAreRecent
<1> SUFFICES ASSUME ResponsesInv, reply # NoReply, reply.hit
             PROVE  \E t \in 0 .. MaxTime :
                       /\ reply.began < t + reply.request.op.ttl + MaxHandling
                       /\ TrueSince(reply.answer, t)
    BY DEF ResponsesInv, ReplyOK, AnswersAreRecent
<1>1. PICK t \in 0 .. now :
          /\ reply.began + 1 <= t + reply.request.op.ttl + MaxHandling
          /\ TrueSince(reply.answer, t)
    BY DEF ResponsesInv, ReplyOK, TrueUntil
<1>2. reply.request.op.ttl \in Nat
    BY TTLType DEF ResponsesInv, ReplyOK, Known
<1> QED
    BY <1>1, <1>2, BoundsAssumption DEF ResponsesInv, ReplyOK, Clock

\* Whatever is asked side by side, and however long answers are kept, an answer
\* was true during its request or, from the cache, no longer ago than the time
\* it is kept and the time its handler took.
THEOREM AnswersAreRecentHolds == ResponsesSpec => []AnswersAreRecent
<1>1. ResponsesSpec => []ResponsesInv
    BY ResponsesInitially, ResponsesStep, PTL DEF ResponsesSpec
<1> QED
    BY <1>1, ResponsesInvImplies, PTL

-----------------------------------------------------------------------------
(***************************************************************************)
(* A bulk write that returns no error has written all, for any number of   *)
(* rows, any batch size and any writers.  The invariant follows the rows   *)
(* from the channel: a row that has been taken is in the table or in the   *)
(* batch of a writer, unless something failed that is yet to be reported;  *)
(* and a writer is done only when nothing is left for it.                  *)
(***************************************************************************)

BulkTypeOK ==
    /\ put \in Nat /\ taken \in Nat
    /\ batch \in [Writers -> SUBSET Nat]
    /\ writer \in [Writers -> {"collects", "applies", "applies last", "fails", "done"}]
    /\ caller \in {"puts", "waits", "nil", "error"}
    /\ cancelled \in BOOLEAN

PutsAll == caller # "puts" => put = RowCount

Failing == cancelled \/ \E w \in Writers : writer[w] = "fails"

TakenIsKept ==
    Failing \/ \A i \in 1 .. taken : i \in inTable \/ \E w \in Writers : i \in batch[w]

DoneIsEmpty ==
    ~cancelled =>
        \A w \in Writers :
            writer[w] = "done" => batch[w] = {} /\ caller # "puts" /\ taken = put

LastIsLast ==
    \A w \in Writers :
        writer[w] = "applies last" => caller # "puts" /\ taken = put

NilIsDone == caller = "nil" /\ ~cancelled => \A w \in Writers : writer[w] = "done"

BulkInv ==
    BulkTypeOK /\ PutsAll /\ TakenIsKept /\ DoneIsEmpty /\ LastIsLast /\ NilIsDone

LEMMA BulkInitially == BulkInit => BulkInv
<1> SUFFICES ASSUME BulkInit PROVE BulkInv
    OBVIOUS
<1>1. BulkTypeOK
    BY DEF BulkInit, BulkTypeOK
<1>2. \A i \in 1 .. taken : FALSE
    BY DEF BulkInit
<1>3. PutsAll /\ TakenIsKept /\ DoneIsEmpty /\ LastIsLast /\ NilIsDone
    BY <1>2 DEF BulkInit, PutsAll, TakenIsKept, DoneIsEmpty, LastIsLast, NilIsDone
<1> QED
    BY <1>1, <1>3 DEF BulkInv

\* The invariant tells what the property says.
LEMMA BulkInvImplies == BulkInv => BulkWritesAreComplete
<1> SUFFICES ASSUME BulkInv PROVE BulkWritesAreComplete
    OBVIOUS
<1>1. ASSUME caller = "nil", ~cancelled PROVE RowNumbers \subseteq inTable
  <2>1. \A w \in Writers : writer[w] = "done"
    BY <1>1 DEF BulkInv, NilIsDone
  <2>2. taken = RowCount
    BY <1>1, <2>1, WritersAssumption DEF BulkInv, DoneIsEmpty, PutsAll
  <2>3. \A w \in Writers : batch[w] = {}
    BY <1>1, <2>1 DEF BulkInv, DoneIsEmpty
  <2>4. ~Failing
    BY <1>1, <2>1 DEF Failing
  <2> QED
    BY <2>2, <2>3, <2>4 DEF BulkInv, TakenIsKept, RowNumbers
<1>2. Stuck => cancelled \/ \A w \in Writers : writer[w] = "fails"
    BY DEF BulkInv, DoneIsEmpty, Stuck
<1> QED
    BY <1>1, <1>2 DEF BulkWritesAreComplete

LEMMA BulkTyping == BulkTypeOK /\ [BulkNext]_bulkVars => BulkTypeOK'
<1> SUFFICES ASSUME BulkTypeOK, [BulkNext]_bulkVars PROVE BulkTypeOK'
    OBVIOUS
<1>0. /\ put \in Nat /\ put + 1 \in Nat
      /\ taken \in Nat /\ taken + 1 \in Nat
  <2>1. put \in Nat /\ taken \in Nat
    BY DEF BulkTypeOK
  <2> QED
    BY <2>1
<1>1. CASE PutRow
    BY <1>0, <1>1 DEF PutRow, BulkTypeOK
<1>2. ASSUME NEW w \in Writers, TakeRow(w) PROVE BulkTypeOK'
  <2>1. batch' \in [Writers -> SUBSET Nat]
    BY <1>0, <1>2 DEF TakeRow, BulkTypeOK
  <2>2. writer' \in [Writers -> {"collects", "applies", "applies last", "fails", "done"}]
    BY <1>2 DEF TakeRow, BulkTypeOK
  <2> QED
    BY <1>0, <1>2, <2>1, <2>2 DEF TakeRow, BulkTypeOK
<1>3. ASSUME NEW w \in Writers, MutationFails(w) PROVE BulkTypeOK'
    BY <1>0, <1>3 DEF MutationFails, BulkTypeOK
<1>4. ASSUME NEW w \in Writers, LastBatch(w) \/ ApplyBatch(w) PROVE BulkTypeOK'
    BY <1>4 DEF LastBatch, ApplyBatch, BulkTypeOK
<1>5. ASSUME NEW w \in Writers, ApplyFails(w) \/ SeeCancel(w) \/ TakeError(w)
      PROVE  BulkTypeOK'
    BY <1>5 DEF ApplyFails, SeeCancel, TakeError, BulkTypeOK
<1>6. CASE CloseChannel \/ Cancel \/ CallerIsCancelled \/ WritersAreDone
    BY <1>6 DEF CloseChannel, Cancel, CallerIsCancelled, WritersAreDone, BulkTypeOK
<1>7. CASE UNCHANGED bulkVars
    BY <1>7 DEF bulkVars, BulkTypeOK
<1> QED
    BY <1>1, <1>2, <1>3, <1>4, <1>5, <1>6, <1>7 DEF BulkNext

\* Rows are numbered: the last one taken is not among those before it.
LEMMA NumbersTaken ==
    ASSUME NEW n \in Nat, NEW m \in Nat
    PROVE  /\ n < m => n # m
           /\ \A i \in 1 .. (n + 1) : i = n + 1 \/ i \in 1 .. n
OBVIOUS

LEMMA BulkStep == BulkInv /\ [BulkNext]_bulkVars => BulkInv'
<1> SUFFICES ASSUME BulkInv, [BulkNext]_bulkVars PROVE BulkInv'
    OBVIOUS
<1> USE RowCountAssumption, BatchSizeAssumption
    DEF BulkInv, BulkTypeOK, PutsAll, TakenIsKept, DoneIsEmpty, LastIsLast, NilIsDone,
        Failing
<1> BulkTypeOK'
    BY BulkTyping
<1>0. put \in Nat /\ taken \in Nat
    OBVIOUS
<1>1. CASE PutRow
  <2>2. PutsAll'
    BY <1>1 DEF PutRow
  <2>3. TakenIsKept'
    BY <1>1 DEF PutRow
  <2>4. DoneIsEmpty'
    BY <1>1 DEF PutRow
  <2>5. LastIsLast'
    BY <1>1 DEF PutRow
  <2>6. NilIsDone'
    BY <1>1 DEF PutRow
  <2> QED
    BY <2>2, <2>3, <2>4, <2>5, <2>6
<1>2. CASE CloseChannel
    BY <1>2 DEF CloseChannel
<1>3. ASSUME NEW w \in Writers, TakeRow(w) PROVE BulkInv'
  <2>7. taken # put
    BY <1>0, <1>3, NumbersTaken DEF TakeRow
  <2>8. \A v \in Writers : writer[v] # "applies last" /\ (~cancelled => writer[v] # "done")
    BY <2>7
  <2>9. \A v \in Writers : writer'[v] # writer[v] => writer'[v] \in {"applies", "fails"}
    BY <1>3 DEF TakeRow
  <2>2. PutsAll'
    BY <1>3 DEF TakeRow
  <2>3. TakenIsKept'
    <3>1. \A v \in Writers : batch[v] \subseteq batch'[v]
      BY <1>3 DEF TakeRow
    <3>2. taken' = taken + 1 /\ taken + 1 \in batch'[w]
      BY <1>3 DEF TakeRow
    <3>3. CASE Failing
      <4>1. Failing'
        BY <1>3, <3>3 DEF TakeRow
      <4> QED
        BY <4>1
    <3>4. CASE ~Failing
      <4>1. ASSUME NEW i \in 1 .. taken'
            PROVE  i \in inTable' \/ \E v \in Writers : i \in batch'[v]
        <5>1. CASE i = taken + 1
          BY <5>1, <3>2
        <5>2. CASE i # taken + 1
          <6>1. i \in 1 .. taken
            BY <1>0, <4>1, <5>2, <3>2, NumbersTaken
          <6> QED
            BY <6>1, <3>1, <3>4, <1>3 DEF TakeRow
        <5> QED
          BY <5>1, <5>2
      <4> QED
        BY <4>1
    <3> QED
      BY <3>3, <3>4
  <2>4. DoneIsEmpty'
    BY <1>3, <2>8, <2>9 DEF TakeRow
  <2>5. LastIsLast'
    BY <2>8, <2>9
  <2>6. NilIsDone'
    BY <1>3 DEF TakeRow
  <2> QED
    BY <2>2, <2>3, <2>4, <2>5, <2>6
<1>4. ASSUME NEW w \in Writers, MutationFails(w) PROVE BulkInv'
  <2>7. taken # put
    BY <1>0, <1>4, NumbersTaken DEF MutationFails
  <2>8. \A v \in Writers : writer[v] # "applies last" /\ (~cancelled => writer[v] # "done")
    BY <2>7
  <2>9. \A v \in Writers : writer'[v] # writer[v] => writer'[v] \in {"applies", "fails"}
    BY <1>4 DEF MutationFails
  <2>2. PutsAll'
    BY <1>4 DEF MutationFails
  <2>3. TakenIsKept'
    BY <1>4 DEF MutationFails
  <2>4. DoneIsEmpty'
    BY <1>4, <2>8, <2>9 DEF MutationFails
  <2>5. LastIsLast'
    BY <2>8, <2>9
  <2>6. NilIsDone'
    BY <1>4 DEF MutationFails
  <2> QED
    BY <2>2, <2>3, <2>4, <2>5, <2>6
<1>5. ASSUME NEW w \in Writers, LastBatch(w) PROVE BulkInv'
    BY <1>5 DEF LastBatch
<1>6. ASSUME NEW w \in Writers, ApplyBatch(w) PROVE BulkInv'
  <2>1. BulkTypeOK' /\ PutsAll' /\ DoneIsEmpty' /\ LastIsLast' /\ NilIsDone'
    BY <1>6 DEF ApplyBatch
  <2>2. TakenIsKept'
    <3>1. \A v \in Writers : batch[v] \subseteq inTable' \cup batch'[v]
      BY <1>6 DEF ApplyBatch
    <3>2. Failing => Failing'
      BY <1>6 DEF ApplyBatch
    <3> QED
      BY <1>6, <3>1, <3>2 DEF ApplyBatch
  <2> QED
    BY <2>1, <2>2
<1>7. ASSUME NEW w \in Writers, ApplyFails(w) PROVE BulkInv'
    BY <1>7 DEF ApplyFails
<1>8. ASSUME NEW w \in Writers, SeeCancel(w) PROVE BulkInv'
    BY <1>8 DEF SeeCancel
<1>9. ASSUME NEW w \in Writers, TakeError(w) PROVE BulkInv'
    BY <1>9 DEF TakeError
<1>10. CASE Cancel
    BY <1>10 DEF Cancel
<1>11. CASE CallerIsCancelled
    BY <1>11 DEF CallerIsCancelled
<1>12. CASE WritersAreDone
    BY <1>12 DEF WritersAreDone
<1>13. CASE UNCHANGED bulkVars
    BY <1>13 DEF bulkVars
<1> QED
    BY <1>1, <1>2, <1>3, <1>4, <1>5, <1>6, <1>7, <1>8, <1>9, <1>10, <1>11, <1>12, <1>13
    DEF BulkNext

\* runConcurrentBatch: no error means that every row is in the table.
THEOREM BulkWritesComplete == BulkSpec => []BulkWritesAreComplete
<1>1. BulkSpec => []BulkInv
    BY BulkInitially, BulkStep, PTL DEF BulkSpec
<1> QED
    BY <1>1, BulkInvImplies, PTL
-----------------------------------------------------------------------------
(***************************************************************************)
(* A batch that is done has asked for every search, for any number of      *)
(* searches and batches.  The invariant says it of a batch that is being    *)
(* published: what it has not asked for yet it has listed.  A search that   *)
(* is there now and was there when the batch was asked for cannot have been *)
(* missing from the list in between, as a deleted one does not come back.   *)
(***************************************************************************)

BatchTypeOK ==
    /\ queryRevision \in [BatchSearches -> 0 .. MaxRevision]
    /\ since \in [Batches -> [BatchSearches -> 0 .. MaxRevision]]
    /\ message \in [Batches -> [st : {"unsent", "pending", "fanout", "acked", "dead"},
                                tries : Nat,
                                todo : SUBSET (BatchSearches \X (0 .. MaxRevision))]]

SinceIsPast == \A b \in Batches, s \in BatchSearches : since[b][s] <= queryRevision[s]

\* The batch has asked for a refresh of the search, or is going to.
Asks(b, s) ==
    \E q \in since[b][s] .. MaxRevision :
        <<s, q>> \in refreshes \/ (message[b].st = "fanout" /\ <<s, q>> \in message[b].todo)

ListIsComplete ==
    \A b \in Batches : message[b].st \in {"fanout", "acked"} =>
        \A s \in Present : since[b][s] > 0 => Asks(b, s)

BatchInv == BatchTypeOK /\ SinceIsPast /\ ListIsComplete

LEMMA BatchInitially == BatchInit => BatchInv
BY RevisionAssumption
   DEF BatchInit, BatchInv, BatchTypeOK, SinceIsPast, ListIsComplete

\* What has been there all along is there before a step too.
LEMMA PresentBefore ==
    ASSUME BatchInv, NEW b \in Batches, NEW s \in BatchSearches \ deletedSearches, since[b][s] > 0
    PROVE  s \in Present
<1>1. since[b][s] <= queryRevision[s] /\ queryRevision[s] \in Nat /\ since[b][s] \in Nat
    BY RevisionAssumption DEF BatchInv, BatchTypeOK, SinceIsPast
<1> QED
    BY <1>1 DEF Present

\* A step that changes one message, to one that lists no less than is needed,
\* and takes nothing back.
LEMMA MessageStep ==
    ASSUME BatchInv, NEW b \in Batches, UNCHANGED <<queryRevision, deletedSearches, since>>,
           NEW r \in [st : {"unsent", "pending", "fanout", "acked", "dead"}, tries : Nat,
                      todo : SUBSET (BatchSearches \X (0 .. MaxRevision))],
           message' = [message EXCEPT ![b] = r], refreshes \subseteq refreshes',
           r.st \in {"fanout", "acked"} =>
               \A s \in Present : since[b][s] > 0 =>
                   \E q \in since[b][s] .. MaxRevision :
                       <<s, q>> \in refreshes' \/ (r.st = "fanout" /\ <<s, q>> \in r.todo)
    PROVE  BatchInv'
<1>1. BatchTypeOK'
    BY DEF BatchInv, BatchTypeOK
<1>2. SinceIsPast'
    BY DEF BatchInv, SinceIsPast
<1>3. ListIsComplete'
    <2> SUFFICES ASSUME NEW a \in Batches, message'[a].st \in {"fanout", "acked"},
                        NEW s \in Present, since[a][s] > 0
                 PROVE  Asks(a, s)'
        BY DEF ListIsComplete, Present
    <2>1. message'[a] = IF a = b THEN r ELSE message[a]
        BY DEF BatchInv, BatchTypeOK
    <2>2. CASE a = b
        BY <2>1, <2>2 DEF Asks
    <2>3. CASE a # b
        <3>1. Asks(a, s)
            BY <2>1, <2>3 DEF BatchInv, ListIsComplete
        <3> QED
            BY <2>1, <2>3, <3>1 DEF Asks
    <2> QED
        BY <2>2, <2>3
<1> QED
    BY <1>1, <1>2, <1>3 DEF BatchInv

LEMMA SearchSteps ==
    ASSUME BatchInv, NEW s \in BatchSearches, WriteSearch(s) \/ DeleteSearch(s)
    PROVE  BatchInv'
<1>1. UNCHANGED <<refreshes, message, since>>
    BY DEF WriteSearch, DeleteSearch
<1>2. /\ queryRevision' \in [BatchSearches -> 0 .. MaxRevision]
      /\ \A x \in BatchSearches : queryRevision[x] <= queryRevision'[x]
      /\ deletedSearches \subseteq deletedSearches'
    <2>1. CASE WriteSearch(s)
        BY <2>1, RevisionAssumption DEF WriteSearch, BatchInv, BatchTypeOK
    <2>2. CASE DeleteSearch(s)
        BY <2>2, RevisionAssumption DEF DeleteSearch, BatchInv, BatchTypeOK
    <2> QED
        BY <2>1, <2>2
<1>3. BatchTypeOK'
    BY <1>1, <1>2 DEF BatchInv, BatchTypeOK
<1>4. SinceIsPast'
    <2> SUFFICES ASSUME NEW b \in Batches, NEW x \in BatchSearches
                 PROVE  since[b][x] <= queryRevision'[x]
        BY <1>1 DEF SinceIsPast
    <2>1. since[b][x] <= queryRevision[x] /\ queryRevision[x] <= queryRevision'[x]
        BY <1>2 DEF BatchInv, SinceIsPast
    <2>2. since[b][x] \in Nat /\ queryRevision[x] \in Nat /\ queryRevision'[x] \in Nat
        BY <1>2, RevisionAssumption DEF BatchInv, BatchTypeOK
    <2> QED
        BY <2>1, <2>2
<1>5. ListIsComplete'
    <2> SUFFICES ASSUME NEW b \in Batches, message[b].st \in {"fanout", "acked"},
                        NEW x \in BatchSearches \ deletedSearches, since[b][x] > 0
                 PROVE  Asks(b, x)'
        BY <1>1, <1>2 DEF ListIsComplete, Present
    <2>1. x \in Present
        BY PresentBefore
    <2>2. Asks(b, x)
        BY <2>1 DEF BatchInv, ListIsComplete
    <2> QED
        BY <2>2, <1>1 DEF Asks
<1> QED
    BY <1>3, <1>4, <1>5 DEF BatchInv

\* What is asked for or listed stays so while the message is published.
LEMMA PublishingStep ==
    ASSUME BatchInv, NEW b \in Batches, PublishRefresh(b)
    PROVE  BatchInv'
<1>1. PICK x \in message[b].todo :
          /\ refreshes' = refreshes \cup {x}
          /\ message' = [message EXCEPT ![b].todo = @ \ {x}]
    BY DEF PublishRefresh
<1>2. PICK r : r = [message[b] EXCEPT !.todo = @ \ {x}]
    OBVIOUS
<1>3. message[b].st = "fanout" /\ message' = [message EXCEPT ![b] = r]
    BY <1>1, <1>2 DEF PublishRefresh, BatchInv, BatchTypeOK
<1>4. /\ r \in [st : {"unsent", "pending", "fanout", "acked", "dead"}, tries : Nat,
                todo : SUBSET (BatchSearches \X (0 .. MaxRevision))]
      /\ r.st = "fanout" /\ r.todo = message[b].todo \ {x}
    BY <1>2, <1>3 DEF BatchInv, BatchTypeOK
<1>5. ASSUME NEW s \in Present, since[b][s] > 0
      PROVE  \E q \in since[b][s] .. MaxRevision :
                 <<s, q>> \in refreshes' \/ (r.st = "fanout" /\ <<s, q>> \in r.todo)
    <2>1. Asks(b, s)
        BY <1>3, <1>5 DEF BatchInv, ListIsComplete
    <2> QED
        BY <2>1, <1>1, <1>4 DEF Asks
<1> QED
    BY <1>1, <1>3, <1>4, <1>5, MessageStep DEF PublishRefresh

LEMMA OtherBatchSteps ==
    ASSUME BatchInv, NEW b \in Batches,
           TriggerBatch(b) \/ ListAllSavedSearches(b) \/ RefreshFails(b) \/ CompleteBatch(b)
    PROVE  BatchInv'
<1> DEFINE Messages == [st : {"unsent", "pending", "fanout", "acked", "dead"}, tries : Nat,
                        todo : SUBSET (BatchSearches \X (0 .. MaxRevision))]
<1>1. message[b] \in Messages
    BY DEF BatchInv, BatchTypeOK
<1>2. ASSUME NEW m \in Messages
      PROVE  Returned(m) \in Messages /\ Returned(m).st \in {"dead", "pending"}
    BY DEF Returned
<1>3. CASE TriggerBatch(b)
    <2>1. BatchTypeOK'
        BY <1>3 DEF TriggerBatch, BatchInv, BatchTypeOK
    <2>2. SinceIsPast'
        BY <1>3, RevisionAssumption DEF TriggerBatch, BatchInv, BatchTypeOK, SinceIsPast
    <2>3. ListIsComplete'
        <3> SUFFICES ASSUME NEW a \in Batches, message'[a].st \in {"fanout", "acked"},
                            NEW s \in Present, since'[a][s] > 0
                     PROVE  Asks(a, s)'
            BY <1>3 DEF ListIsComplete, Present, TriggerBatch
        <3>1. a # b /\ message'[a] = message[a] /\ since'[a] = since[a]
            BY <1>3 DEF TriggerBatch, BatchInv, BatchTypeOK
        <3>2. Asks(a, s)
            BY <3>1 DEF BatchInv, ListIsComplete
        <3> QED
            BY <3>1, <3>2, <1>3 DEF Asks, TriggerBatch
    <2> QED
        BY <2>1, <2>2, <2>3 DEF BatchInv
<1>4. CASE ListAllSavedSearches(b)
    <2>1. PICK d : d = [message[b] EXCEPT !.tries = @ + 1]
        OBVIOUS
    <2>2. PICK l : l = [d EXCEPT !.st = "fanout",
                                 !.todo = {<<s, queryRevision[s]>> : s \in Present}]
        OBVIOUS
    <2>3. PICK r \in {l, Returned(d)} : message' = [message EXCEPT ![b] = r]
        BY <1>4, <2>1, <2>2 DEF ListAllSavedSearches
    <2>4. d \in Messages /\ l \in Messages /\ l.st = "fanout"
          /\ l.todo = {<<s, queryRevision[s]>> : s \in Present}
        <3>1. {<<s, queryRevision[s]>> : s \in Present} \subseteq BatchSearches \X (0 .. MaxRevision)
            BY DEF BatchInv, BatchTypeOK, Present
        <3>2. d \in Messages
            BY <1>1, <2>1
        <3> QED
            BY <2>2, <3>1, <3>2
    <2>5. r \in Messages /\ (r.st \in {"fanout", "acked"} => r = l)
        BY <2>3, <2>4, <1>2
    <2>6. ASSUME NEW s \in Present, since[b][s] > 0, r = l
          PROVE  \E q \in since[b][s] .. MaxRevision :
                     <<s, q>> \in refreshes' \/ (r.st = "fanout" /\ <<s, q>> \in r.todo)
        <3>1. queryRevision[s] \in since[b][s] .. MaxRevision
            BY RevisionAssumption DEF BatchInv, BatchTypeOK, SinceIsPast, Present
        <3>2. <<s, queryRevision[s]>> \in r.todo
            BY <2>4, <2>6
        <3> QED
            BY <3>1, <3>2, <2>4, <2>6
    <2> HIDE DEF Messages
    <2>7. UNCHANGED <<queryRevision, deletedSearches, since, refreshes>>
        BY <1>4 DEF ListAllSavedSearches
    <2> QED
        BY <2>3, <2>5, <2>6, <2>7, MessageStep DEF Messages
<1>5. CASE RefreshFails(b)
    <2>1. Returned(message[b]) \in Messages /\ Returned(message[b]).st \in {"dead", "pending"}
        BY <1>1, <1>2
    <2>2. message' = [message EXCEPT ![b] = Returned(message[b])]
        BY <1>5 DEF RefreshFails
    <2>3. UNCHANGED <<queryRevision, deletedSearches, since>> /\ refreshes \subseteq refreshes'
        BY <1>5 DEF RefreshFails
    <2> QED
        BY <2>1, <2>2, <2>3, MessageStep
<1>6. CASE CompleteBatch(b)
    <2>1. PICK r : r = [message[b] EXCEPT !.st = "acked"]
        OBVIOUS
    <2>2. r \in Messages /\ message' = [message EXCEPT ![b] = r]
        BY <1>1, <1>6, <2>1 DEF CompleteBatch
    <2>3. ASSUME NEW s \in Present, since[b][s] > 0
          PROVE  \E q \in since[b][s] .. MaxRevision : <<s, q>> \in refreshes
        <3>1. Asks(b, s)
            BY <1>6, <2>3 DEF CompleteBatch, BatchInv, ListIsComplete
        <3> QED
            BY <3>1, <1>6 DEF CompleteBatch, Asks
    <2>4. UNCHANGED <<queryRevision, deletedSearches, since, refreshes>>
        BY <1>6 DEF CompleteBatch
    <2> QED
        BY <2>2, <2>3, <2>4, MessageStep
<1> QED
    BY <1>3, <1>4, <1>5, <1>6

LEMMA BatchStep == BatchInv /\ [BatchNext]_batchVars => BatchInv'
<1> SUFFICES ASSUME BatchInv, [BatchNext]_batchVars
             PROVE  BatchInv'
    OBVIOUS
<1>1. CASE \E s \in BatchSearches : WriteSearch(s) \/ DeleteSearch(s)
    BY <1>1, SearchSteps
<1>2. CASE \E b \in Batches :
               \/ TriggerBatch(b) \/ ListAllSavedSearches(b) \/ PublishRefresh(b)
               \/ RefreshFails(b) \/ CompleteBatch(b)
    BY <1>2, PublishingStep, OtherBatchSteps
<1>3. CASE UNCHANGED batchVars
    BY <1>3 DEF batchVars, BatchInv, BatchTypeOK, SinceIsPast, ListIsComplete, Asks, Present
<1> QED
    BY <1>1, <1>2, <1>3 DEF BatchNext

\* However searches are written and deleted while a batch is published, and
\* however often it is cut short and starts again: once it is done, every search
\* that was there when it was asked for and still is has been asked for.
THEOREM BatchReaches == BatchSpec => []BatchReachesEverySearch
<1>1. BatchInv => BatchReachesEverySearch
    BY DEF BatchInv, ListIsComplete, BatchReachesEverySearch, Asks
<1> QED
    BY <1>1, BatchInitially, BatchStep, PTL DEF BatchSpec
-----------------------------------------------------------------------------
(***************************************************************************)
(* Usage is current, for any histogram, exports and renames.  What the     *)
(* invariant adds is about the jobs: the one that copies the histogram     *)
(* knows which features it maps as long as nothing is renamed meanwhile,   *)
(* one that exports has stored what was known from its start, and as long  *)
(* as nothing changes what it has read is what the latest rows should be.  *)
(***************************************************************************)

IsTable(f) == f = [x \in DOMAIN f |-> f[x]]

TablesOK ==
    /\ IsTable(values) /\ IsTable(mapping) /\ IsTable(latestDay)
    /\ \A k \in DOMAIN mapping : k \in features /\ mapping[k] \in DOMAIN values
    /\ \A x \in daily : x[1] \in DOMAIN values
    /\ \A x \in DOMAIN latestDay : x[2] \in DOMAIN values

RedirectsOK ==
    /\ \A r \in redirects : r \in Renames /\ r[1] \notin features
    /\ \A r \in Renames :
          r[2] \in features \/ (\E q \in redirects : q[1] = r[2])
              => \E q \in redirects : q[2] = r[2]

IsEnums(j) ==
    j = [at |-> j.at, file |-> j.file, keys |-> j.keys, pairs |-> j.pairs,
         drop |-> j.drop, fresh |-> j.fresh]

\* What a copy of the histogram maps that no rename disturbs.
MappedPairs == {<<enums.file[b], b>> : b \in Matched}

FollowsHistogram == DOMAIN mapping = features \cap {values[b] : b \in DOMAIN values}

FreshEnums ==
    /\ enums.keys = features
    /\ enums.at \in {"values", "drop", "features", "insert"} => enums.pairs = MappedPairs
    /\ enums.at = "delete" => DOMAIN mapping \ enums.drop = {p[1] : p \in MappedPairs}

EnumsOK ==
    /\ IsEnums(enums) /\ enums.fresh \in BOOLEAN
    /\ enums.at \in {"idle", "moved", "values", "drop", "features", "insert", "delete"}
    /\ revision \in DOMAIN EnumFiles
    /\ enums.at # "idle" => \E i \in DOMAIN EnumFiles : enums.file = EnumFiles[i]
    /\ enums.at \in {"values", "drop", "features", "insert"} =>
          \A p \in enums.pairs : p[2] \in DOMAIN enums.file
    /\ enums.at = "drop" =>
          \A b \in DOMAIN enums.file : b \in DOMAIN values /\ values[b] = enums.file[b]
    /\ enums.at \in {"features", "insert", "delete"} => values = enums.file
    /\ enums.at # "idle" /\ enums.fresh => FreshEnums
    /\ enums.at # "idle" /\ mapped => enums.fresh
    /\ enums.at \in {"idle", "moved", "values"} /\ mapped => FollowsHistogram

IsJob(j) ==
    j = [at |-> j.at, day |-> j.day, rows |-> j.rows, desired |-> j.desired,
         drop |-> j.drop, known |-> j.known, fresh |-> j.fresh]

Told(j) == (Reported[j.day] \cap j.known) \X {j.day} \subseteq daily

\* What a job that is not disturbed has read and written.
FreshJob(j) ==
    /\ j.desired = Desired(0)
    /\ j.at = "delete" =>
          /\ DOMAIN j.desired \subseteq DOMAIN latestDay
          /\ j.drop = DOMAIN latestDay \ DOMAIN j.desired
          /\ \A x \in DOMAIN j.desired : latestDay[x] = j.desired[x]

JobOK(j) ==
    /\ IsJob(j) /\ j.fresh \in BOOLEAN
    /\ j.at \in {"idle", "look up", "store", "newest", "upsert", "delete", "capstone"}
    /\ j.at # "idle" => j.day \in Days /\ j.known \subseteq DOMAIN values
    /\ j.at = "store" => Reported[j.day] \cap j.known \subseteq j.rows
    /\ j.at \in {"newest", "upsert", "delete", "capstone"} => Told(j)
    /\ j.at \in {"upsert", "delete"} /\ j.fresh => FreshJob(j)

JobsOK == exporter = [e \in Exporters |-> exporter[e]] /\ \A e \in Exporters : JobOK(exporter[e])

DaysOK ==
    /\ known = [d \in Days |-> known[d]] /\ capstones \subseteq Days
    /\ \A d \in Days : (Reported[d] \cap known[d]) \X {d} \subseteq daily

LatestOK == settled \in BOOLEAN /\ (settled => latestDay = Desired(0))

UsageInv == TablesOK /\ RedirectsOK /\ EnumsOK /\ JobsOK /\ DaysOK /\ LatestOK

LEMMA RedirectedKeys ==
    ASSUME RedirectsOK, NEW k \in features
    PROVE  Redirected(k) = k
BY DEF RedirectsOK, Redirected

\* The labels of a histogram are all different.
LEMMA LabelsDiffer ==
    ASSUME EnumsOK, enums.at # "idle"
    PROVE  /\ IsTable(enums.file)
           /\ \A b, c \in DOMAIN enums.file : enums.file[b] = enums.file[c] => b = c
<1>1. PICK i \in DOMAIN EnumFiles : enums.file = EnumFiles[i]
    BY DEF EnumsOK
<1>2. EnumFiles[i] \in Injection(DOMAIN EnumFiles[i], Keys)
    BY RevisionsAssumption
<1> QED
    BY <1>1, <1>2 DEF Injection, IsInjective, IsTable

LEMMA UsageInitially == UsageInit => UsageInv
<1> SUFFICES ASSUME UsageInit
             PROVE  UsageInv
    OBVIOUS
<1>1. TablesOK /\ RedirectsOK
    BY DEF UsageInit, TablesOK, RedirectsOK, IsTable, NoEntries
<1>2. EnumsOK
    <2>1. 1 \in DOMAIN EnumFiles
        BY RevisionsAssumption
    <2> QED
        BY <2>1 DEF UsageInit, EnumsOK, IsEnums, IdleEnums
<1>3. JobsOK
    <2>1. JobOK(IdleExporter)
        BY DEF JobOK, IsJob, IdleExporter
    <2> QED
        BY <2>1 DEF UsageInit, JobsOK
<1>4. DaysOK /\ LatestOK
    BY DEF UsageInit, DaysOK, LatestOK
<1> QED
    BY <1>1, <1>2, <1>3, <1>4 DEF UsageInv
-----------------------------------------------------------------------------
(* What a step of one does to the others *)

LEMMA SameLatest ==
    ASSUME UNCHANGED <<mapping, daily>>
    PROVE  \A d, e : Desired(d)' = Desired(e)
BY DEF Desired, Newest

LEMMA DesiredAlike == \A d : Desired(d) = Desired(0)
BY DEF Desired, Newest

LEMMA JobKept ==
    ASSUME NEW j, JobOK(j), UNCHANGED <<mapping, daily, latestDay>>,
           DOMAIN values \subseteq DOMAIN values'
    PROVE  JobOK(j)'
<1>1. Desired(0)' = Desired(0)
    BY SameLatest
<1>2. FreshJob(j) => FreshJob(j)'
    BY <1>1 DEF FreshJob
<1> QED
    BY <1>2 DEF JobOK, Told

LEMMA JobStale ==
    ASSUME NEW j, JobOK(j), daily \subseteq daily', DOMAIN values \subseteq DOMAIN values',
           NEW k, k = [j EXCEPT !.fresh = FALSE]
    PROVE  JobOK(k)'
<1>1. /\ IsJob(k) /\ k.at = j.at /\ k.day = j.day /\ k.rows = j.rows /\ k.known = j.known
      /\ k.fresh = FALSE
    BY DEF JobOK, IsJob
<1> QED
    BY <1>1 DEF JobOK, Told, IsJob

\* A step that leaves the jobs as they are, and takes nothing from them.
LEMMA JobsKept ==
    ASSUME JobsOK, UNCHANGED <<exporter, mapping, daily, latestDay>>,
           DOMAIN values \subseteq DOMAIN values'
    PROVE  JobsOK'
<1>1. \A e \in Exporters : JobOK(exporter[e])'
    BY JobKept DEF JobsOK
<1> QED
    BY <1>1 DEF JobsOK

LEMMA JobsStale ==
    ASSUME JobsOK, exporter' = Stale(exporter), daily \subseteq daily',
           DOMAIN values \subseteq DOMAIN values'
    PROVE  JobsOK'
<1>1. ASSUME NEW e \in Exporters
      PROVE  JobOK(exporter[e])'
    <2>1. PICK k : k = [exporter[e] EXCEPT !.fresh = FALSE]
        OBVIOUS
    <2>2. JobOK(k)'
        BY <2>1, JobStale DEF JobsOK
    <2> QED
        BY <2>1, <2>2 DEF Stale
<1> QED
    BY <1>1 DEF JobsOK, Stale

\* A step of the job that copies the histogram that changes no table.
LEMMA EnumsStep ==
    ASSUME UsageInv, EnumsUnchanged,
           UNCHANGED <<values, mapping, daily, latestDay, exporter, settled, known>>,
           EnumsOK'
    PROVE  UsageInv'
<1>1. TablesOK' /\ RedirectsOK'
    BY DEF UsageInv, EnumsUnchanged, TablesOK, IsTable, RedirectsOK
<1>2. JobsOK'
    BY JobsKept DEF UsageInv
<1>3. DaysOK'
    BY DEF UsageInv, DaysOK, EnumsUnchanged
<1>4. LatestOK'
    BY SameLatest DEF UsageInv, LatestOK
<1> QED
    BY <1>1, <1>2, <1>3, <1>4 DEF UsageInv

LEMMA FetchStep == ASSUME UsageInv, FetchAllFeatureKeys PROVE UsageInv'
<1>1. PICK j : j = [IdleEnums EXCEPT !.at = "moved", !.file = EnumFiles[revision],
                                     !.keys = features, !.fresh = TRUE]
    OBVIOUS
<1>2. /\ IsEnums(j) /\ j.at = "moved" /\ j.file = EnumFiles[revision] /\ j.keys = features
      /\ j.fresh = TRUE
    BY <1>1 DEF IdleEnums, IsEnums
<1>3. enums' = j /\ enums.at = "idle"
    BY <1>1 DEF FetchAllFeatureKeys
<1>4. UNCHANGED <<values, mapping, daily, latestDay, exporter, mapped, settled, known>>
      /\ EnumsUnchanged
    BY DEF FetchAllFeatureKeys
<1>5. EnumsOK'
    BY <1>2, <1>3, <1>4 DEF UsageInv, EnumsOK, FreshEnums, FollowsHistogram, EnumsUnchanged
<1> QED
    BY <1>4, <1>5, EnumsStep

LEMMA MigrateStep == ASSUME UsageInv, MigrateMovedFeatures PROVE UsageInv'
<1>1. UNCHANGED <<values, mapping, daily, latestDay, exporter, mapped, settled, known>>
      /\ EnumsUnchanged /\ enums.at = "moved"
    BY DEF MigrateMovedFeatures
<1>2. CASE enums' = IdleEnums
    <2>1. EnumsOK'
        BY <1>1, <1>2 DEF UsageInv, EnumsOK, FollowsHistogram, EnumsUnchanged, IdleEnums, IsEnums
    <2> QED
        BY <1>1, <2>1, EnumsStep
<1>3. CASE enums' = [enums EXCEPT !.at = "values",
                                  !.pairs = {<<Redirected(enums.file[b]), b>> : b \in Matched}]
    <2>1. PICK j : j = [enums EXCEPT !.at = "values",
                                     !.pairs = {<<Redirected(enums.file[b]), b>> : b \in Matched}]
        OBVIOUS
    <2>2. /\ IsEnums(j) /\ j.at = "values" /\ j.file = enums.file /\ j.keys = enums.keys
          /\ j.pairs = {<<Redirected(enums.file[b]), b>> : b \in Matched} /\ j.fresh = enums.fresh
        BY <2>1 DEF UsageInv, EnumsOK, IsEnums
    <2>3. enums' = j
        BY <1>3, <2>1
    <2>4. Matched \subseteq DOMAIN enums.file
        BY DEF Matched
    <2>5. ASSUME enums.fresh
          PROVE  FreshEnums'
        <3>1. enums.keys = features
            BY <1>1, <2>5 DEF UsageInv, EnumsOK, FreshEnums
        <3>2. \A b \in Matched : Redirected(enums.file[b]) = enums.file[b]
            BY <3>1, RedirectedKeys DEF Matched, UsageInv
        <3>3. j.pairs = MappedPairs
            BY <2>2, <3>2 DEF MappedPairs
        <3>4. MappedPairs' = MappedPairs
            BY <2>2, <2>3 DEF MappedPairs, Matched
        <3> QED
            BY <1>1, <2>2, <2>3, <3>1, <3>3, <3>4 DEF FreshEnums, EnumsUnchanged
    <2>6. \A p \in j.pairs : p[2] \in DOMAIN j.file
        BY <2>2, <2>4
    <2>7. EnumsOK'
        BY <1>1, <2>2, <2>3, <2>5, <2>6 DEF UsageInv, EnumsOK, FollowsHistogram, EnumsUnchanged
    <2> QED
        BY <1>1, <2>7, EnumsStep
<1> QED
    BY <1>2, <1>3 DEF MigrateMovedFeatures

LEMMA LookUpStep == ASSUME UsageInv, LookUpFeatures PROVE UsageInv'
<1> DEFINE there == {p \in enums.pairs : p[1] \in features}
<1>1. UNCHANGED <<values, mapping, daily, latestDay, exporter, settled, known>>
      /\ EnumsUnchanged /\ enums.at = "features"
    BY DEF LookUpFeatures
<1>2. PICK found \in SUBSET there :
          /\ enums' = [enums EXCEPT !.at = "insert", !.pairs = found,
                                    !.fresh = @ /\ found = there]
          /\ mapped' = (mapped /\ found = there)
    BY DEF LookUpFeatures
<1> DEFINE j == enums'
<1>3. /\ IsEnums(j) /\ j.at = "insert" /\ j.file = enums.file /\ j.keys = enums.keys
      /\ j.pairs = found /\ j.fresh = (enums.fresh /\ found = there)
    BY <1>2 DEF UsageInv, EnumsOK, IsEnums
<1>4. mapped' => mapped /\ found = there
    BY <1>2
<1>5. ASSUME j.fresh
      PROVE  FreshEnums'
    <2>0. enums.fresh /\ j.pairs = there
        BY <1>3, <1>5
    <2>1. enums.keys = features /\ enums.pairs = MappedPairs
        BY <1>1, <2>0 DEF UsageInv, EnumsOK, FreshEnums
    <2>2. \A p \in MappedPairs : p[1] \in features
        BY <2>1 DEF MappedPairs, Matched
    <2>3. MappedPairs' = MappedPairs
        BY <1>3 DEF MappedPairs, Matched
    <2>4. j.pairs = MappedPairs
        BY <2>0, <2>1, <2>2
    <2> QED
        BY <1>1, <1>3, <2>1, <2>3, <2>4 DEF FreshEnums, EnumsUnchanged
<1>6. j.fresh \in BOOLEAN /\ (mapped' => j.fresh)
    BY <1>1, <1>3, <1>4 DEF UsageInv, EnumsOK
<1>7. EnumsOK'
    BY <1>1, <1>3, <1>5, <1>6 DEF UsageInv, EnumsOK, EnumsUnchanged
<1> QED
    BY <1>1, <1>7, EnumsStep

LEMMA EnumsFailStep == ASSUME UsageInv, EnumsFail PROVE UsageInv'
<1>1. UNCHANGED <<values, mapping, daily, latestDay, exporter, settled, known>>
      /\ EnumsUnchanged /\ enums' = IdleEnums /\ mapped' = FALSE
    BY DEF EnumsFail
<1>2. EnumsOK'
    BY <1>1 DEF UsageInv, EnumsOK, EnumsUnchanged, IdleEnums, IsEnums
<1> QED
    BY <1>1, <1>2, EnumsStep
-----------------------------------------------------------------------------
(* The steps that change the histogram and the mapping *)

LEMMA ReviseStep == ASSUME UsageInv, Revise PROVE UsageInv'
<1>1. UNCHANGED <<values, mapping, daily, latestDay, exporter, settled, known, features,
                  redirects, capstones, enums, mapped>>
      /\ revision' \in DOMAIN EnumFiles
    BY DEF Revise, days
<1>2. MappedPairs' = MappedPairs
    BY <1>1 DEF MappedPairs, Matched
<1>3. EnumsOK'
    BY <1>1, <1>2 DEF UsageInv, EnumsOK, FreshEnums, FollowsHistogram, IsEnums
<1>4. TablesOK' /\ RedirectsOK' /\ DaysOK'
    BY <1>1 DEF UsageInv, TablesOK, IsTable, RedirectsOK, DaysOK
<1>5. JobsOK'
    BY <1>1, JobsKept DEF UsageInv
<1>6. LatestOK'
    BY <1>1, SameLatest DEF UsageInv, LatestOK
<1> QED
    BY <1>3, <1>4, <1>5, <1>6 DEF UsageInv

LEMMA RenameStep ==
    ASSUME UsageInv, NEW r \in Renames, RenameFeature(r[1], r[2])
    PROVE  UsageInv'
<1> DEFINE old == r[1]
           new == r[2]
<1>1. /\ features' = (features \ {old}) \cup {new} /\ old \in features
      /\ redirects' = redirects \cup {<<old, new>>}
      /\ mapped' = FALSE /\ settled' = FALSE /\ exporter' = Stale(exporter)
      /\ enums' = [enums EXCEPT !.fresh = FALSE]
      /\ UNCHANGED <<values, daily, capstones, revision, known>>
    BY DEF RenameFeature
<1>2. r = <<old, new>>
    BY RenamesAssumption
<1>3. RedirectsOK'
    <2>1. ASSUME NEW p \in redirects \cup {r}, p[1] = new
          PROVE  FALSE
        <3>1. PICK q \in redirects : q[2] = new
            BY <1>1, <2>1 DEF UsageInv, RedirectsOK
        <3>2. q = r
            BY <2>1, <3>1, RenamesAssumption DEF UsageInv, RedirectsOK
        <3> QED
            BY <1>1, <3>2 DEF UsageInv, RedirectsOK
    <2>2. r \in redirects' /\ redirects' = redirects \cup {r}
        BY <1>1, <1>2
    <2>3. \A p \in redirects' : p \in Renames /\ p[1] \notin features'
        BY <1>1, <2>1, <2>2 DEF UsageInv, RedirectsOK
    <2>4. ASSUME NEW p \in Renames, p[2] \in features' \/ \E q \in redirects' : q[1] = p[2]
          PROVE  \E q \in redirects' : q[2] = p[2]
        <3>1. CASE p[2] = new
            BY <2>2, <3>1
        <3>2. CASE p[2] = old
            BY <1>1, <2>2, <3>2 DEF UsageInv, RedirectsOK
        <3>3. CASE p[2] # new /\ p[2] # old
            BY <1>1, <2>2, <2>4, <3>3 DEF UsageInv, RedirectsOK
        <3> QED
            BY <3>1, <3>2, <3>3
    <2> QED
        BY <2>3, <2>4 DEF RedirectsOK
<1>4. IsTable(mapping') /\ \A k \in DOMAIN mapping' : k \in features' /\ mapping'[k] \in DOMAIN values'
    <2>1. mapping' = [k \in (DOMAIN mapping \ {old}) \cup {n \in {new} : old \in DOMAIN mapping} |->
                         IF k = new /\ old \in DOMAIN mapping THEN mapping[old] ELSE mapping[k]]
        BY DEF RenameFeature
    <2>2. DOMAIN mapping' = (DOMAIN mapping \ {old}) \cup {n \in {new} : old \in DOMAIN mapping}
        BY <2>1
    <2>3. ASSUME NEW k \in DOMAIN mapping'
          PROVE  k \in features' /\ mapping'[k] \in DOMAIN values'
        <3>1. mapping'[k] = IF k = new /\ old \in DOMAIN mapping THEN mapping[old] ELSE mapping[k]
            BY <2>1
        <3>2. CASE k = new /\ old \in DOMAIN mapping
            BY <1>1, <3>1, <3>2 DEF UsageInv, TablesOK
        <3>3. CASE ~(k = new /\ old \in DOMAIN mapping)
            BY <1>1, <2>2, <3>1, <3>3 DEF UsageInv, TablesOK
        <3> QED
            BY <3>2, <3>3
    <2> QED
        BY <2>1, <2>3 DEF IsTable
<1>5. IsTable(latestDay') /\ \A x \in DOMAIN latestDay' : x[2] \in DOMAIN values'
    <2>1. PICK theirs : theirs = {x \in DOMAIN latestDay : x[1] = old}
        OBVIOUS
    <2>2. PICK moved : moved = {<<new, x[2]>> : x \in theirs}
        OBVIOUS
    <2>3. latestDay' = [x \in (DOMAIN latestDay \ theirs) \cup moved |->
                           latestDay[IF x \in moved THEN <<old, x[2]>> ELSE x]]
        BY <2>1, <2>2 DEF RenameFeature
    <2>4. DOMAIN latestDay' = (DOMAIN latestDay \ theirs) \cup moved
        BY <2>3
    <2>5. \A x \in DOMAIN latestDay' : x[2] \in DOMAIN values
        BY <2>1, <2>2, <2>4 DEF UsageInv, TablesOK
    <2> QED
        BY <1>1, <2>3, <2>5 DEF IsTable
<1>6. TablesOK'
    BY <1>1, <1>4, <1>5 DEF UsageInv, TablesOK, IsTable
<1>7. EnumsOK'
    <2>1. PICK j : j = [enums EXCEPT !.fresh = FALSE]
        OBVIOUS
    <2>2. /\ IsEnums(j) /\ j.at = enums.at /\ j.file = enums.file /\ j.pairs = enums.pairs
          /\ j.fresh = FALSE
        BY <2>1 DEF UsageInv, EnumsOK, IsEnums
    <2> QED
        BY <1>1, <2>1, <2>2 DEF UsageInv, EnumsOK
<1>8. JobsOK'
    BY <1>1, JobsStale DEF UsageInv
<1>9. DaysOK' /\ LatestOK'
    BY <1>1 DEF UsageInv, DaysOK, LatestOK
<1> QED
    BY <1>3, <1>6, <1>7, <1>8, <1>9 DEF UsageInv

LEMMA UpsertValuesStep == ASSUME UsageInv, UpsertValues PROVE UsageInv'
<1>1. /\ enums.at = "values"
      /\ UNCHANGED <<mapping, daily, latestDay, exporter, mapped, settled, known>>
      /\ EnumsUnchanged
    BY DEF UpsertValues
<1>2. values' = [b \in DOMAIN values \cup DOMAIN enums.file |->
                     IF b \in DOMAIN enums.file THEN enums.file[b] ELSE values[b]]
    BY DEF UpsertValues
<1>3. /\ IsTable(values') /\ DOMAIN values' = DOMAIN values \cup DOMAIN enums.file
      /\ \A b \in DOMAIN enums.file : b \in DOMAIN values' /\ values'[b] = enums.file[b]
    BY <1>2 DEF IsTable
<1>4. TablesOK' /\ RedirectsOK'
    BY <1>1, <1>3 DEF UsageInv, TablesOK, RedirectsOK, EnumsUnchanged, IsTable
<1>5. EnumsOK'
    <2>1. PICK j : j = [enums EXCEPT !.at = "drop"]
        OBVIOUS
    <2>2. /\ IsEnums(j) /\ j.at = "drop" /\ j.file = enums.file /\ j.keys = enums.keys
          /\ j.pairs = enums.pairs /\ j.fresh = enums.fresh
        BY <2>1 DEF UsageInv, EnumsOK, IsEnums
    <2>3. enums' = j
        BY <2>1 DEF UpsertValues
    <2>4. MappedPairs' = MappedPairs
        BY <2>2, <2>3 DEF MappedPairs, Matched
    <2>5. enums.fresh => FreshEnums'
        BY <1>1, <2>2, <2>3, <2>4 DEF UsageInv, EnumsOK, FreshEnums, EnumsUnchanged
    <2> QED
        BY <1>1, <1>3, <2>2, <2>3, <2>5 DEF UsageInv, EnumsOK, EnumsUnchanged
<1>6. JobsOK'
    BY <1>1, <1>3, JobsKept DEF UsageInv
<1>7. DaysOK' /\ LatestOK'
    BY <1>1, SameLatest DEF UsageInv, DaysOK, LatestOK, EnumsUnchanged
<1> QED
    BY <1>4, <1>5, <1>6, <1>7 DEF UsageInv

LEMMA DropStep == ASSUME UsageInv, DropValues PROVE UsageInv'
<1> DEFINE kept == DOMAIN enums.file
<1>1. /\ enums.at = "drop"
      /\ UNCHANGED mapped
      /\ EnumsUnchanged
      /\ daily' = {x \in daily : x[1] \in kept}
      /\ known' = [d \in Days |-> known[d] \cap kept]
    BY DEF DropValues
<1>2. /\ values' = [b \in kept |-> values[b]]
      /\ mapping' = [k \in {m \in DOMAIN mapping : mapping[m] \in kept} |-> mapping[k]]
      /\ latestDay' = [x \in {y \in DOMAIN latestDay : y[2] \in kept} |-> latestDay[x]]
    BY DEF DropValues, Restrict
<1>3. kept \subseteq DOMAIN values /\ \A b \in kept : values[b] = enums.file[b]
    BY <1>1 DEF UsageInv, EnumsOK
<1>4. IsTable(enums.file)
    BY <1>1, LabelsDiffer DEF UsageInv
<1>5. DOMAIN values' = kept /\ values' = enums.file
    BY <1>2, <1>3, <1>4 DEF IsTable
<1>6. /\ DOMAIN mapping' = {m \in DOMAIN mapping : mapping[m] \in kept}
      /\ \A k \in DOMAIN mapping' : mapping'[k] = mapping[k]
      /\ DOMAIN latestDay' = {y \in DOMAIN latestDay : y[2] \in kept}
      /\ \A x \in DOMAIN latestDay' : latestDay'[x] = latestDay[x]
    BY <1>2
<1>7. TablesOK' /\ RedirectsOK'
    <2>1. IsTable(values') /\ IsTable(mapping') /\ IsTable(latestDay')
        BY <1>2 DEF IsTable
    <2>2. \A k \in DOMAIN mapping' : k \in features' /\ mapping'[k] \in DOMAIN values'
        BY <1>1, <1>5, <1>6 DEF UsageInv, TablesOK, EnumsUnchanged
    <2>3. \A x \in daily' : x[1] \in DOMAIN values'
        BY <1>1, <1>5
    <2>4. \A x \in DOMAIN latestDay' : x[2] \in DOMAIN values'
        BY <1>5, <1>6
    <2>5. RedirectsOK'
        BY <1>1 DEF UsageInv, RedirectsOK, EnumsUnchanged
    <2> QED
        BY <2>1, <2>2, <2>3, <2>4, <2>5 DEF TablesOK
<1>8. EnumsOK'
    <2>1. PICK j : j = [enums EXCEPT !.at = "features"]
        OBVIOUS
    <2>2. /\ IsEnums(j) /\ j.at = "features" /\ j.file = enums.file /\ j.keys = enums.keys
          /\ j.pairs = enums.pairs /\ j.fresh = enums.fresh
        BY <2>1 DEF UsageInv, EnumsOK, IsEnums
    <2>3. enums' = j
        BY <2>1 DEF DropValues
    <2>4. MappedPairs' = MappedPairs
        BY <2>2, <2>3 DEF MappedPairs, Matched
    <2>5. enums.fresh => FreshEnums'
        BY <1>1, <2>2, <2>3, <2>4 DEF UsageInv, EnumsOK, FreshEnums, EnumsUnchanged
    <2> QED
        BY <1>1, <1>5, <2>2, <2>3, <2>5 DEF UsageInv, EnumsOK, EnumsUnchanged
<1>9. DaysOK'
    <2>1. \A d \in Days : known'[d] = known[d] \cap kept
        BY <1>1
    <2> QED
        BY <1>1, <2>1 DEF UsageInv, DaysOK, EnumsUnchanged
<1>10. CASE DOMAIN values \subseteq kept
    <2>1. UNCHANGED <<settled, exporter>>
        BY <1>10 DEF DropValues
    <2>2. UNCHANGED <<mapping, daily, latestDay>> /\ DOMAIN values \subseteq DOMAIN values'
        BY <1>1, <1>2, <1>5, <1>10 DEF UsageInv, TablesOK, IsTable
    <2>3. JobsOK'
        BY <2>1, <2>2, JobsKept DEF UsageInv
    <2>4. LatestOK'
        BY <2>1, <2>2, SameLatest DEF UsageInv, LatestOK
    <2> QED
        BY <1>7, <1>8, <1>9, <2>3, <2>4 DEF UsageInv
<1>11. CASE ~(DOMAIN values \subseteq kept)
    <2>1. /\ settled' = FALSE
          /\ exporter' = [e \in Exporters |->
                             [exporter[e] EXCEPT !.known = @ \cap kept, !.fresh = FALSE]]
        BY <1>11 DEF DropValues
    <2>2. ASSUME NEW e \in Exporters
          PROVE  JobOK(exporter[e])'
        <3>1. PICK j : j = [exporter[e] EXCEPT !.known = @ \cap kept, !.fresh = FALSE]
            OBVIOUS
        <3>2. IsJob(exporter[e]) /\ JobOK(exporter[e])
            BY DEF UsageInv, JobsOK, JobOK
        <3>3. /\ IsJob(j) /\ j.at = exporter[e].at /\ j.day = exporter[e].day
              /\ j.rows = exporter[e].rows /\ j.known = exporter[e].known \cap kept /\ j.fresh = FALSE
            BY <3>1, <3>2 DEF IsJob
        <3>4. Told(exporter[e]) => Told(j)'
            BY <1>1, <3>3 DEF Told
        <3>5. JobOK(j)'
            BY <1>5, <3>2, <3>3, <3>4 DEF JobOK, IsJob
        <3> QED
            BY <2>1, <3>1, <3>5
    <2>3. JobsOK'
        BY <2>1, <2>2 DEF JobsOK
    <2> QED
        BY <1>7, <1>8, <1>9, <2>1, <2>3 DEF UsageInv, LatestOK
<1> QED
    BY <1>10, <1>11

LEMMA InsertStep == ASSUME UsageInv, InsertMapping PROVE UsageInv'
<1> DEFINE Fit == \A p \in Inserted : p[1] \in features /\ \A q \in Inserted : p[1] = q[1] => p = q
<1>1. /\ enums.at = "insert"
      /\ settled' = FALSE /\ exporter' = Stale(exporter)
      /\ UNCHANGED <<values, daily, latestDay, mapped, known>> /\ EnumsUnchanged
    BY DEF InsertMapping
<1>2. JobsOK' /\ LatestOK' /\ DaysOK' /\ RedirectsOK'
    BY <1>1, JobsStale DEF UsageInv, LatestOK, DaysOK, RedirectsOK, EnumsUnchanged
<1>3. enums.fresh => Fit /\ enums.pairs = MappedPairs
    <2> SUFFICES ASSUME enums.fresh
                 PROVE  Fit /\ enums.pairs = MappedPairs
        OBVIOUS
    <2>1. enums.keys = features /\ enums.pairs = MappedPairs
        BY <1>1 DEF UsageInv, EnumsOK, FreshEnums
    <2>2. \A b, c \in DOMAIN enums.file : enums.file[b] = enums.file[c] => b = c
        BY <1>1, LabelsDiffer DEF UsageInv
    <2> QED
        BY <2>1, <2>2 DEF Inserted, MappedPairs, Matched
<1>4. CASE Fit
    <2>1. mapping' = [k \in DOMAIN mapping \cup {p[1] : p \in Inserted} |->
                          IF k \in DOMAIN mapping THEN mapping[k]
                          ELSE (CHOOSE p \in Inserted : p[1] = k)[2]]
        BY <1>4 DEF InsertMapping
    <2>2. PICK j : j = [enums EXCEPT !.at = "delete",
                                     !.drop = DOMAIN mapping \ {p[1] : p \in enums.pairs}]
        OBVIOUS
    <2>3. enums' = j
        BY <1>4, <2>2 DEF InsertMapping
    <2>4. /\ IsEnums(j) /\ j.at = "delete" /\ j.file = enums.file /\ j.keys = enums.keys
          /\ j.fresh = enums.fresh /\ j.drop = DOMAIN mapping \ {p[1] : p \in enums.pairs}
        BY <2>2 DEF UsageInv, EnumsOK, IsEnums
    <2>5. DOMAIN mapping' = DOMAIN mapping \cup {p[1] : p \in Inserted}
        BY <2>1
    <2>6. ASSUME NEW k \in DOMAIN mapping'
          PROVE  k \in features' /\ mapping'[k] \in DOMAIN values'
        <3>1. CASE k \in DOMAIN mapping
            BY <1>1, <2>1, <3>1 DEF UsageInv, TablesOK, EnumsUnchanged
        <3>2. CASE k \notin DOMAIN mapping
            <4>1. PICK p \in Inserted : p[1] = k
                BY <2>5, <3>2
            <4>2. PICK q : q = CHOOSE x \in Inserted : x[1] = k
                OBVIOUS
            <4>3. q \in Inserted /\ q[1] = k
                BY <4>1, <4>2
            <4>4. q \in enums.pairs
                BY <4>3 DEF Inserted
            <4>5. q[2] \in DOMAIN enums.file
                BY <1>1, <4>4 DEF UsageInv, EnumsOK
            <4>6. mapping'[k] = q[2]
                BY <2>1, <2>5, <3>2, <4>2
            <4>7. values = enums.file
                BY <1>1 DEF UsageInv, EnumsOK
            <4>8. k \in features
                BY <1>4, <4>1
            <4> QED
                BY <1>1, <4>5, <4>6, <4>7, <4>8 DEF EnumsUnchanged
        <3> QED
            BY <3>1, <3>2
    <2>7. TablesOK'
        <3>1. IsTable(mapping')
            BY <2>1 DEF IsTable
        <3> QED
            BY <1>1, <2>6, <3>1 DEF UsageInv, TablesOK, IsTable
    <2>8. ASSUME enums.fresh
          PROVE  FreshEnums'
        <3>1. enums.pairs = MappedPairs /\ enums.keys = features
            BY <1>1, <1>3, <2>8 DEF UsageInv, EnumsOK, FreshEnums
        <3>2. MappedPairs' = MappedPairs
            BY <2>3, <2>4 DEF MappedPairs, Matched
        <3>3. DOMAIN mapping' \ j.drop = {p[1] : p \in enums.pairs}
            BY <2>4, <2>5 DEF Inserted
        <3> QED
            BY <1>1, <2>3, <2>4, <3>1, <3>2, <3>3 DEF FreshEnums, EnumsUnchanged
    <2>9. EnumsOK'
        BY <1>1, <2>3, <2>4, <2>8 DEF UsageInv, EnumsOK, EnumsUnchanged
    <2> QED
        BY <1>2, <2>7, <2>9 DEF UsageInv
<1>5. CASE ~Fit
    <2>1. UNCHANGED mapping /\ enums' = IdleEnums
        BY <1>5 DEF InsertMapping
    <2>2. ~mapped
        BY <1>1, <1>3, <1>5 DEF UsageInv, EnumsOK
    <2>3. TablesOK'
        BY <1>1, <2>1 DEF UsageInv, TablesOK, IsTable, EnumsUnchanged
    <2>4. EnumsOK'
        BY <1>1, <2>1, <2>2 DEF UsageInv, EnumsOK, EnumsUnchanged, IdleEnums, IsEnums
    <2> QED
        BY <1>2, <2>3, <2>4 DEF UsageInv
<1> QED
    BY <1>4, <1>5

LEMMA DeleteMappingStep == ASSUME UsageInv, DeleteMapping PROVE UsageInv'
<1>1. /\ enums.at = "delete" /\ enums' = IdleEnums /\ mapped' = enums.fresh
      /\ settled' = FALSE /\ exporter' = Stale(exporter)
      /\ UNCHANGED <<values, daily, latestDay, known>> /\ EnumsUnchanged
    BY DEF DeleteMapping
<1>2. mapping' = [k \in DOMAIN mapping \ enums.drop |-> mapping[k]]
    BY DEF DeleteMapping, Restrict
<1>3. JobsOK' /\ LatestOK' /\ DaysOK' /\ RedirectsOK'
    BY <1>1, JobsStale DEF UsageInv, LatestOK, DaysOK, RedirectsOK, EnumsUnchanged
<1>4. TablesOK'
    <2>1. IsTable(mapping')
        BY <1>2 DEF IsTable
    <2>2. \A k \in DOMAIN mapping' : k \in features' /\ mapping'[k] \in DOMAIN values'
        BY <1>1, <1>2 DEF UsageInv, TablesOK, EnumsUnchanged
    <2> QED
        BY <1>1, <2>1, <2>2 DEF UsageInv, TablesOK, IsTable
<1>5. enums.fresh => FollowsHistogram'
    <2> SUFFICES ASSUME enums.fresh
                 PROVE  FollowsHistogram'
        OBVIOUS
    <2>1. enums.keys = features /\ DOMAIN mapping \ enums.drop = {p[1] : p \in MappedPairs}
        BY <1>1 DEF UsageInv, EnumsOK, FreshEnums
    <2>2. values = enums.file
        BY <1>1 DEF UsageInv, EnumsOK
    <2>3. {p[1] : p \in MappedPairs} = features \cap {values[b] : b \in DOMAIN values}
        <3>1. \A p \in MappedPairs : p[1] \in features \cap {values[b] : b \in DOMAIN values}
            BY <2>1, <2>2 DEF MappedPairs, Matched
        <3>2. ASSUME NEW b \in DOMAIN values, values[b] \in features
              PROVE  values[b] \in {p[1] : p \in MappedPairs}
            <4>1. <<values[b], b>> \in MappedPairs
                BY <2>1, <2>2, <3>2 DEF MappedPairs, Matched
            <4> QED
                BY <4>1
        <3> QED
            BY <3>1, <3>2
    <2>4. DOMAIN mapping' = DOMAIN mapping \ enums.drop
        BY <1>2
    <2> QED
        BY <1>1, <2>1, <2>3, <2>4 DEF FollowsHistogram, EnumsUnchanged
<1>6. EnumsOK'
    BY <1>1, <1>5 DEF UsageInv, EnumsOK, EnumsUnchanged, IdleEnums, IsEnums
<1> QED
    BY <1>3, <1>4, <1>6 DEF UsageInv
-----------------------------------------------------------------------------
(* The steps of an export *)

\* A step of one that exports changes nothing of the histogram.
LEMMA HistogramKept ==
    ASSUME UsageInv, ExportUnchanged
    PROVE  EnumsOK' /\ RedirectsOK' /\ IsTable(values)' /\ IsTable(mapping)'
           /\ \A k \in DOMAIN mapping' : k \in features' /\ mapping'[k] \in DOMAIN values'
<1>1. MappedPairs' = MappedPairs
    BY DEF ExportUnchanged, MappedPairs, Matched
<1>2. FreshEnums' = FreshEnums /\ FollowsHistogram' = FollowsHistogram
    BY <1>1 DEF ExportUnchanged, FreshEnums, FollowsHistogram
<1>3. EnumsOK'
    BY <1>2 DEF UsageInv, EnumsOK, ExportUnchanged, IsEnums
<1> QED
    BY <1>3 DEF UsageInv, TablesOK, RedirectsOK, ExportUnchanged, IsTable

\* A step that changes no table.
LEMMA JobStep ==
    ASSUME UsageInv, ExportUnchanged, UNCHANGED <<daily, latestDay, capstones, settled, known>>,
           NEW e \in Exporters, NEW j, JobOK(j), Step(e, j)
    PROVE  UsageInv'
<1>1. UNCHANGED <<values, mapping>>
    BY DEF ExportUnchanged
<1>2. TablesOK' /\ EnumsOK' /\ RedirectsOK'
    BY HistogramKept, <1>1 DEF UsageInv, TablesOK, IsTable
<1>3. ASSUME NEW f \in Exporters
      PROVE  JobOK(exporter[f])'
    <2>1. exporter'[f] = IF f = e THEN j ELSE exporter[f]
        BY DEF Step, UsageInv, JobsOK
    <2>2. JobOK(exporter'[f])
        BY <2>1 DEF UsageInv, JobsOK
    <2>3. PICK k : k = exporter'[f]
        OBVIOUS
    <2>4. JobOK(k)'
        BY <1>1, <2>2, <2>3, JobKept
    <2> QED
        BY <2>3, <2>4
<1>4. JobsOK'
    BY <1>3 DEF UsageInv, JobsOK, Step
<1>5. DaysOK' /\ LatestOK'
    BY <1>1, SameLatest DEF UsageInv, DaysOK, LatestOK
<1> QED
    BY <1>2, <1>4, <1>5 DEF UsageInv

LEMMA IdleJob == JobOK(IdleExporter)
BY DEF JobOK, IsJob, IdleExporter

LEMMA StartDayStep ==
    ASSUME UsageInv, NEW e \in Exporters, NEW d \in Days, StartDay(e, d)
    PROVE  UsageInv'
<1>1. PICK j : j = [IdleExporter EXCEPT !.at = "look up", !.day = d,
                                        !.known = Reported[d] \cap DOMAIN values]
    OBVIOUS
<1>2. /\ IsJob(j) /\ j.at = "look up" /\ j.day = d /\ j.fresh = FALSE
      /\ j.known = Reported[d] \cap DOMAIN values
    BY <1>1 DEF IdleExporter, IsJob
<1>3. JobOK(j)
    BY <1>2 DEF JobOK
<1> QED
    BY <1>1, <1>3, JobStep DEF StartDay

LEMMA LookUpBucketsStep ==
    ASSUME UsageInv, NEW e \in Exporters, LookUpBuckets(e)
    PROVE  UsageInv'
<1>1. JobOK(exporter[e]) /\ exporter[e].at = "look up"
    BY DEF UsageInv, JobsOK, LookUpBuckets
<1> DEFINE there == Reported[exporter[e].day] \cap DOMAIN values
<1>2. PICK found \in SUBSET there :
          Step(e, [exporter[e] EXCEPT !.at = "store", !.rows = found,
                                      !.known = @ \ (there \ found)])
    BY DEF LookUpBuckets
<1>3. PICK j : j = [exporter[e] EXCEPT !.at = "store", !.rows = found,
                                       !.known = @ \ (there \ found)]
    OBVIOUS
<1>4. /\ IsJob(j) /\ j.at = "store" /\ j.day = exporter[e].day /\ j.rows = found
      /\ j.known = exporter[e].known \ (there \ found) /\ j.fresh = exporter[e].fresh
    BY <1>1, <1>3 DEF JobOK, IsJob
<1>5. JobOK(j)
    BY <1>1, <1>4 DEF JobOK
<1> QED
    BY <1>2, <1>3, <1>5, JobStep DEF LookUpBuckets

LEMMA ReadNewestStep ==
    ASSUME UsageInv, NEW e \in Exporters, ReadNewest(e)
    PROVE  UsageInv'
<1>1. JobOK(exporter[e]) /\ exporter[e].at = "newest"
    BY DEF UsageInv, JobsOK, ReadNewest
<1>2. PICK j : j = [exporter[e] EXCEPT !.at = "upsert",
                                       !.desired = Desired(exporter[e].day), !.fresh = TRUE]
    OBVIOUS
<1>3. /\ IsJob(j) /\ j.at = "upsert" /\ j.day = exporter[e].day /\ j.known = exporter[e].known
      /\ j.desired = Desired(exporter[e].day) /\ j.fresh = TRUE
    BY <1>1, <1>2 DEF JobOK, IsJob
<1>4. FreshJob(j)
    BY <1>3, DesiredAlike DEF FreshJob
<1>5. JobOK(j)
    BY <1>1, <1>3, <1>4 DEF JobOK, Told
<1> QED
    BY <1>2, <1>5, JobStep DEF ReadNewest

LEMMA ExportFailsStep ==
    ASSUME UsageInv, NEW e \in Exporters, ExportFails(e)
    PROVE  UsageInv'
BY IdleJob, JobStep DEF ExportFails

LEMMA SaveCapstoneStep ==
    ASSUME UsageInv, NEW e \in Exporters, SaveCapstone(e)
    PROVE  UsageInv'
<1>1. PICK job : job = exporter[e]
    OBVIOUS
<1>2. /\ job.at = "capstone" /\ capstones' = capstones \cup {job.day}
      /\ known' = [known EXCEPT ![job.day] = @ \cup job.known]
      /\ Step(e, IdleExporter) /\ UNCHANGED <<daily, latestDay, settled>> /\ ExportUnchanged
    BY <1>1 DEF SaveCapstone
<1>3. JobOK(job)
    BY <1>1 DEF UsageInv, JobsOK
<1>4. UNCHANGED <<values, mapping>>
    BY <1>2 DEF ExportUnchanged
<1>5. TablesOK' /\ EnumsOK' /\ RedirectsOK'
    BY <1>2, <1>4, HistogramKept DEF UsageInv, TablesOK, IsTable
<1>6. JobsOK'
    <2>1. ASSUME NEW f \in Exporters
          PROVE  JobOK(exporter[f])'
        <3>1. exporter'[f] = IF f = e THEN IdleExporter ELSE exporter[f]
            BY <1>2 DEF Step, UsageInv, JobsOK
        <3>2. PICK k : k = exporter'[f]
            OBVIOUS
        <3>3. JobOK(k)
            BY <3>1, <3>2, IdleJob DEF UsageInv, JobsOK
        <3> QED
            BY <1>2, <1>4, <3>2, <3>3, JobKept
    <2> QED
        BY <1>2, <2>1 DEF UsageInv, JobsOK, Step
<1>7. DaysOK'
    <2>1. job.day \in Days /\ (Reported[job.day] \cap job.known) \X {job.day} \subseteq daily
        BY <1>2, <1>3 DEF JobOK, Told
    <2>2. \A d \in Days : known'[d] = IF d = job.day THEN known[d] \cup job.known ELSE known[d]
        BY <1>2 DEF UsageInv, DaysOK
    <2>3. known' = [d \in Days |-> known'[d]]
        BY <1>2 DEF UsageInv, DaysOK
    <2>4. \A d \in Days : (Reported[d] \cap known'[d]) \X {d} \subseteq daily
        BY <2>1, <2>2 DEF UsageInv, DaysOK
    <2>5. capstones' \subseteq Days
        BY <1>2, <2>1 DEF UsageInv, DaysOK
    <2> QED
        BY <1>2, <2>3, <2>4, <2>5 DEF DaysOK
<1>8. LatestOK'
    BY <1>2, <1>4, SameLatest DEF UsageInv, LatestOK
<1> QED
    BY <1>5, <1>6, <1>7, <1>8 DEF UsageInv

LEMMA StoreStep ==
    ASSUME UsageInv, NEW e \in Exporters, StoreMetrics(e)
    PROVE  UsageInv'
<1>1. PICK job : job = exporter[e]
    OBVIOUS
<1>2. job.at = "store" /\ JobOK(job)
    BY <1>1 DEF StoreMetrics, UsageInv, JobsOK
<1>3. PICK part \in SUBSET (job.rows \cap DOMAIN values) :
          /\ daily' = daily \cup (part \X {job.day})
          /\ exporter' = [(IF daily' = daily THEN exporter ELSE Stale(exporter))
                             EXCEPT ![e] = IF part = job.rows
                                           THEN [job EXCEPT !.at = "newest"] ELSE IdleExporter]
    BY <1>1 DEF StoreMetrics
<1>4. /\ settled' = (settled /\ daily' = daily)
      /\ UNCHANGED <<latestDay, capstones, known>> /\ ExportUnchanged
    BY DEF StoreMetrics
<1>5. UNCHANGED <<values, mapping, features>>
    BY <1>4 DEF ExportUnchanged
<1>6. TablesOK' /\ EnumsOK' /\ RedirectsOK'
    <2>1. \A x \in daily' : x[1] \in DOMAIN values'
        BY <1>3, <1>5 DEF UsageInv, TablesOK
    <2> QED
        BY <1>4, <1>5, <2>1, HistogramKept DEF UsageInv, TablesOK, IsTable
<1>7. JobsOK'
    <2>1. PICK j : j = [job EXCEPT !.at = "newest"]
        OBVIOUS
    <2>2. IsJob(j) /\ j.at = "newest" /\ j.day = job.day /\ j.known = job.known /\ j.fresh = job.fresh
        BY <1>2, <2>1 DEF JobOK, IsJob
    <2>3. part = job.rows => JobOK(j)'
        BY <1>2, <1>3, <1>5, <2>2 DEF JobOK, Told, IsJob
    <2>4. JobOK(IdleExporter)'
        BY DEF JobOK, IsJob, IdleExporter
    <2>5. ASSUME NEW f \in Exporters
          PROVE  JobOK(exporter[f])'
        <3>1. CASE f = e
            <4>1. exporter'[f] = IF part = job.rows THEN j ELSE IdleExporter
                BY <1>3, <2>1, <3>1 DEF Stale, UsageInv, JobsOK
            <4> QED
                BY <2>3, <2>4, <4>1
        <3>2. CASE f # e /\ daily' = daily
            <4>1. exporter'[f] = exporter[f]
                BY <1>3, <3>2 DEF UsageInv, JobsOK
            <4>2. PICK k : k = exporter[f]
                OBVIOUS
            <4>3. JobOK(k)'
                BY <1>4, <1>5, <3>2, <4>2, JobKept DEF UsageInv, JobsOK
            <4> QED
                BY <4>1, <4>2, <4>3
        <3>3. CASE f # e /\ daily' # daily
            <4>1. PICK k : k = [exporter[f] EXCEPT !.fresh = FALSE]
                OBVIOUS
            <4>2. exporter'[f] = k
                BY <1>3, <3>3, <4>1 DEF Stale, UsageInv, JobsOK
            <4>3. JobOK(exporter[f]) /\ daily \subseteq daily'
                BY <1>3 DEF UsageInv, JobsOK
            <4>4. JobOK(k)'
                BY <1>5, <4>1, <4>3, JobStale
            <4> QED
                BY <4>2, <4>4
        <3> QED
            BY <3>1, <3>2, <3>3
    <2>6. exporter' = [f \in Exporters |-> exporter'[f]]
        BY <1>3 DEF Stale, UsageInv, JobsOK
    <2> QED
        BY <2>5, <2>6 DEF JobsOK
<1>8. DaysOK'
    BY <1>3, <1>4 DEF UsageInv, DaysOK
<1>9. LatestOK'
    BY <1>4, <1>5, SameLatest DEF UsageInv, LatestOK
<1> QED
    BY <1>6, <1>7, <1>8, <1>9 DEF UsageInv

LEMMA UpsertLatestStep ==
    ASSUME UsageInv, NEW e \in Exporters, UpsertLatest(e)
    PROVE  UsageInv'
<1>1. PICK job : job = exporter[e]
    OBVIOUS
<1> DEFINE desired == job.desired
           Fit == \A x \in DOMAIN desired : x[1] \in features /\ <<x[2], desired[x]>> \in daily
<1>2. job.at = "upsert" /\ JobOK(job)
    BY <1>1 DEF UpsertLatest, UsageInv, JobsOK
<1>3. settled' = FALSE /\ UNCHANGED <<daily, capstones, known>> /\ ExportUnchanged
    BY DEF UpsertLatest
<1>4. UNCHANGED <<values, mapping, features>>
    BY <1>3 DEF ExportUnchanged
<1>5. DaysOK' /\ LatestOK' /\ EnumsOK' /\ RedirectsOK'
    BY <1>3, HistogramKept DEF UsageInv, DaysOK, LatestOK
<1>6. CASE Fit
    <2>1. latestDay' = [x \in DOMAIN latestDay \cup DOMAIN desired |->
                             IF x \in DOMAIN desired THEN desired[x] ELSE latestDay[x]]
        BY <1>1, <1>6 DEF UpsertLatest
    <2>2. exporter' = [[f \in Exporters |-> IF f = e THEN job
                                ELSE [exporter[f] EXCEPT !.fresh = FALSE]]
                               EXCEPT ![e].at = "delete",
                                      ![e].drop = DOMAIN latestDay \ DOMAIN desired]
        BY <1>1, <1>6 DEF UpsertLatest
    <2>3. TablesOK'
        <3>1. IsTable(latestDay') /\ DOMAIN latestDay' = DOMAIN latestDay \cup DOMAIN desired
            BY <2>1 DEF IsTable
        <3>2. \A x \in DOMAIN desired : x[2] \in DOMAIN values
            BY <1>6 DEF UsageInv, TablesOK
        <3>3. \A x \in DOMAIN latestDay' : x[2] \in DOMAIN values'
            BY <1>4, <3>1, <3>2 DEF UsageInv, TablesOK
        <3> QED
            BY <1>3, <1>4, <3>1, <3>3 DEF UsageInv, TablesOK, IsTable
    <2>4. PICK j : j = [job EXCEPT !.at = "delete", !.drop = DOMAIN latestDay \ DOMAIN desired]
        OBVIOUS
    <2>5. /\ IsJob(j) /\ j.at = "delete" /\ j.day = job.day /\ j.known = job.known
          /\ j.desired = desired /\ j.drop = DOMAIN latestDay \ DOMAIN desired /\ j.fresh = job.fresh
        BY <1>2, <2>4 DEF JobOK, IsJob
    <2>6. job.fresh => FreshJob(j)'
        <3>1. job.fresh => desired = Desired(0)'
            BY <1>2, <1>3, <1>4, SameLatest DEF JobOK, FreshJob
        <3>2. DOMAIN latestDay' = DOMAIN latestDay \cup DOMAIN desired
              /\ \A x \in DOMAIN desired : latestDay'[x] = desired[x]
            BY <2>1
        <3>3. j.drop = DOMAIN latestDay' \ DOMAIN desired
            BY <2>5, <3>2
        <3> QED
            BY <2>5, <3>1, <3>2, <3>3 DEF FreshJob
    <2>7. JobOK(j)'
        BY <1>2, <1>3, <1>4, <2>5, <2>6 DEF JobOK, Told, IsJob
    <2>8. ASSUME NEW f \in Exporters
          PROVE  JobOK(exporter[f])'
        <3>1. CASE f = e
            <4>1. exporter'[f] = j
                BY <2>2, <2>4, <3>1
            <4> QED
                BY <2>7, <4>1
        <3>2. CASE f # e
            <4>1. PICK k : k = [exporter[f] EXCEPT !.fresh = FALSE]
                OBVIOUS
            <4>2. exporter'[f] = k
                BY <2>2, <3>2, <4>1
            <4>3. JobOK(exporter[f])
                BY DEF UsageInv, JobsOK
            <4>4. JobOK(k)'
                BY <1>3, <1>4, <4>1, <4>3, JobStale
            <4> QED
                BY <4>2, <4>4
        <3> QED
            BY <3>1, <3>2
    <2>9. exporter' = [f \in Exporters |-> exporter'[f]]
        BY <2>2
    <2> QED
        BY <1>5, <2>3, <2>8, <2>9 DEF UsageInv, JobsOK
<1>7. CASE ~Fit
    <2>1. UNCHANGED latestDay /\ Step(e, IdleExporter)
        BY <1>1, <1>7 DEF UpsertLatest
    <2>2. TablesOK'
        BY <1>3, <1>4, <2>1 DEF UsageInv, TablesOK, IsTable
    <2>3. ASSUME NEW f \in Exporters
          PROVE  JobOK(exporter[f])'
        <3>1. exporter'[f] = IF f = e THEN IdleExporter ELSE exporter[f]
            BY <2>1 DEF Step, UsageInv, JobsOK
        <3>2. PICK k : k = exporter'[f]
            OBVIOUS
        <3>3. JobOK(k)
            BY <3>1, <3>2, IdleJob DEF UsageInv, JobsOK
        <3> QED
            BY <1>3, <1>4, <2>1, <3>2, <3>3, JobKept
    <2>4. JobsOK'
        BY <2>1, <2>3 DEF UsageInv, JobsOK, Step
    <2> QED
        BY <1>5, <2>2, <2>4 DEF UsageInv
<1> QED
    BY <1>6, <1>7

LEMMA DeleteLatestStep ==
    ASSUME UsageInv, NEW e \in Exporters, DeleteLatest(e)
    PROVE  UsageInv'
<1>1. PICK job : job = exporter[e]
    OBVIOUS
<1>2. job.at = "delete" /\ JobOK(job)
    BY <1>1 DEF DeleteLatest, UsageInv, JobsOK
<1>3. settled' = job.fresh /\ UNCHANGED <<daily, capstones, known>> /\ ExportUnchanged
    BY <1>1 DEF DeleteLatest
<1>4. UNCHANGED <<values, mapping, features>>
    BY <1>3 DEF ExportUnchanged
<1>5. latestDay' = [x \in DOMAIN latestDay \ job.drop |-> latestDay[x]]
    BY <1>1 DEF DeleteLatest, Restrict
<1>6. exporter' = [Stale(exporter) EXCEPT ![e] = [job EXCEPT !.at = "capstone"]]
    BY <1>1 DEF DeleteLatest
<1>7. DaysOK' /\ EnumsOK' /\ RedirectsOK'
    BY <1>3, HistogramKept DEF UsageInv, DaysOK
<1>8. TablesOK'
    <2>1. IsTable(latestDay') /\ DOMAIN latestDay' \subseteq DOMAIN latestDay
        BY <1>5 DEF IsTable
    <2> QED
        BY <1>3, <1>4, <2>1 DEF UsageInv, TablesOK, IsTable
<1>9. JobsOK'
    <2>1. PICK j : j = [job EXCEPT !.at = "capstone"]
        OBVIOUS
    <2>2. /\ IsJob(j) /\ j.at = "capstone" /\ j.day = job.day /\ j.known = job.known
          /\ j.fresh = job.fresh
        BY <1>2, <2>1 DEF JobOK, IsJob
    <2>3. JobOK(j)'
        BY <1>2, <1>3, <1>4, <2>2 DEF JobOK, Told, IsJob
    <2>4. ASSUME NEW f \in Exporters
          PROVE  JobOK(exporter[f])'
        <3>1. CASE f = e
            BY <1>6, <2>1, <2>3, <3>1 DEF Stale
        <3>2. CASE f # e
            <4>1. PICK k : k = [exporter[f] EXCEPT !.fresh = FALSE]
                OBVIOUS
            <4>2. exporter'[f] = k
                BY <1>6, <3>2, <4>1 DEF Stale
            <4>3. JobOK(exporter[f])
                BY DEF UsageInv, JobsOK
            <4>4. JobOK(k)'
                BY <1>3, <1>4, <4>1, <4>3, JobStale
            <4> QED
                BY <4>2, <4>4
        <3> QED
            BY <3>1, <3>2
    <2>5. exporter' = [f \in Exporters |-> exporter'[f]]
        BY <1>6 DEF Stale
    <2> QED
        BY <2>4, <2>5 DEF JobsOK
<1>10. LatestOK'
    <2>1. ASSUME job.fresh
          PROVE  latestDay' = Desired(0)'
        <3>1. /\ job.desired = Desired(0)
              /\ DOMAIN job.desired \subseteq DOMAIN latestDay
              /\ job.drop = DOMAIN latestDay \ DOMAIN job.desired
              /\ \A x \in DOMAIN job.desired : latestDay[x] = job.desired[x]
            BY <1>2, <2>1 DEF JobOK, FreshJob
        <3>2. Desired(0)' = Desired(0)
            BY <1>3, <1>4, SameLatest
        <3>3. DOMAIN latestDay \ job.drop = DOMAIN job.desired
            BY <3>1
        <3>4. IsTable(job.desired)
            BY <3>1 DEF Desired, IsTable
        <3>5. latestDay' = job.desired
            BY <1>5, <3>1, <3>3, <3>4 DEF IsTable
        <3> QED
            BY <3>1, <3>2, <3>5
    <2> QED
        BY <1>2, <1>3, <2>1 DEF LatestOK, JobOK
<1> QED
    BY <1>7, <1>8, <1>9, <1>10 DEF UsageInv

LEMMA UsageStep == UsageInv /\ [UsageNext]_usageVars => UsageInv'
<1> SUFFICES ASSUME UsageInv, [UsageNext]_usageVars
             PROVE  UsageInv'
    OBVIOUS
<1>1. CASE UNCHANGED usageVars
    <2>1. UNCHANGED <<mapping, daily, latestDay, values>>
        BY <1>1 DEF usageVars
    <2>2. JobsOK' /\ Desired(0)' = Desired(0)
        BY <1>1, <2>1, JobsKept, SameLatest DEF UsageInv, usageVars
    <2>3. MappedPairs' = MappedPairs
        BY <1>1 DEF MappedPairs, Matched, usageVars
    <2>4. EnumsOK'
        BY <1>1, <2>3 DEF UsageInv, EnumsOK, FreshEnums, FollowsHistogram, IsEnums, usageVars
    <2> QED
        BY <1>1, <2>2, <2>4 DEF UsageInv, TablesOK, IsTable, RedirectsOK, DaysOK, LatestOK, usageVars
<1>2. CASE Revise
    BY <1>2, ReviseStep
<1>3. CASE \E r \in Renames : RenameFeature(r[1], r[2])
    BY <1>3, RenameStep
<1>4. CASE \/ FetchAllFeatureKeys \/ MigrateMovedFeatures \/ UpsertValues \/ DropValues
           \/ LookUpFeatures \/ InsertMapping \/ DeleteMapping \/ EnumsFail
    BY <1>4, FetchStep, MigrateStep, UpsertValuesStep, DropStep, LookUpStep, InsertStep,
       DeleteMappingStep, EnumsFailStep
<1>5. CASE \E e \in Exporters :
               \/ \E d \in Days : StartDay(e, d)
               \/ LookUpBuckets(e) \/ StoreMetrics(e) \/ ReadNewest(e)
               \/ UpsertLatest(e) \/ DeleteLatest(e) \/ SaveCapstone(e) \/ ExportFails(e)
    BY <1>5, StartDayStep, LookUpBucketsStep, StoreStep, ReadNewestStep, UpsertLatestStep,
       DeleteLatestStep, SaveCapstoneStep, ExportFailsStep
<1> QED
    BY <1>1, <1>2, <1>3, <1>4, <1>5 DEF UsageNext

\* However exports, copies of the histogram and renames interleave and fail: a day
\* that is done has all its metrics, the latest rows are the newest days once they
\* have been written undisturbed, and the mapping has just the features that have
\* a bucket after an undisturbed copy.
THEOREM UsageStaysCurrent == UsageSpec => []UsageIsCurrent
<1>1. UsageInv => UsageIsCurrent
    <2> SUFFICES ASSUME UsageInv
                 PROVE  UsageIsCurrent
        OBVIOUS
    <2>1. \A d \in capstones : (Reported[d] \cap known[d]) \X {d} \subseteq daily
        BY DEF UsageInv, DaysOK
    <2>2. ASSUME settled
          PROVE  /\ latestDay = [x \in DOMAIN latestDay |-> Newest(x[2], 0)]
                 /\ DOMAIN latestDay = {<<k, mapping[k]>> : k \in {m \in DOMAIN mapping :
                                          \E y \in daily : y[1] = mapping[m]}}
        BY <2>2 DEF UsageInv, LatestOK, Desired
    <2>3. mapped /\ enums.at = "idle" =>
              DOMAIN mapping = features \cap {values[b] : b \in DOMAIN values}
        BY DEF UsageInv, EnumsOK, FollowsHistogram
    <2>4. \A k \in DOMAIN mapping : k \in features /\ mapping[k] \in DOMAIN values
        BY DEF UsageInv, TablesOK
    <2> QED
        BY <2>1, <2>2, <2>3, <2>4 DEF UsageIsCurrent
<1> QED
    BY <1>1, UsageInitially, UsageStep, PTL DEF UsageSpec

-----------------------------------------------------------------------------
(***************************************************************************)
(* Lists show what stays, whatever the rows and the size of a page.  That   *)
(* the order of a list is total on what it lists, and is the order in which *)
(* rows are compared with a token, is a fact about each of the lists.  With *)
(* the row of a token, the invariant is that what has been shown is not     *)
(* after it and the rest is.  With an offset, it counts the rows in front   *)
(* of it: a row that comes or goes changes the front by one other at most,  *)
(* so that one more is shown again, or missed, than before.                 *)
(***************************************************************************)

Universe(list) == Entries(list, Nat \X Nat)

Before(order, S, e) == {s \in S : InOrder(order, s, e)}
Front(n, S, order) == {e \in S : Cardinality(Before(order, S, e)) < n}

IsReading(r) ==
    /\ r = [list |-> r.list, open |-> r.open, started |-> r.started, cursor |-> r.cursor,
            offset |-> r.offset, count |-> r.count, got |-> r.got,
            repeated |-> r.repeated]
    /\ r.list \in Lists /\ r.open \in BOOLEAN /\ r.started \in BOOLEAN
    /\ r.offset \in Nat /\ r.count \in Nat /\ r.repeated \in Nat
    /\ r.cursor \in Universe(r.list)
    /\ r.got \subseteq Universe(r.list) /\ IsFiniteSet(r.got)
    /\ ~r.started => r.got = {} /\ r.repeated = 0 /\ r.count = 0 /\ r.offset = 0

PagesTyped ==
    /\ stored \subseteq ListRows /\ stayed \subseteq stored
    /\ came \in Nat /\ gone \in Nat
    /\ IsReading(reading)

\* With the row of a token: what has been shown is not after it, and what has
\* not is.
RowsOK(r, missed) ==
    r.list.holds \in {"row", "count"} =>
        /\ r.repeated = 0
        /\ r.started /\ r.open =>
              /\ \A e \in r.got : ~InOrder(r.list.order, r.cursor, e)
              /\ \A e \in missed : InOrder(r.list.order, r.cursor, e)
        /\ r.started /\ ~r.open => missed = {}

\* The rows that a count is about.
Counted(r, rows) ==
    {x \in rows : r.started /\ (r.open => ~InOrder(r.list.order, r.cursor, <<x[1], 0>>))}

CountOK(r, rows, changes) ==
    r.list.holds = "count" =>
        /\ Cardinality(Counted(r, rows)) <= r.count + changes
        /\ r.count <= Cardinality(Counted(r, rows)) + changes

\* With an offset: what has been shown and is not in front of it will be shown
\* again, and what has not and is will be missed.
Front0(r, rows) == Front(r.offset, rows, r.list.order)

RepeatsOK(r, rows, more) ==
    r.list.holds = "offset" =>
        r.repeated + Cardinality((r.got \cap rows) \ Front0(r, rows)) <= more

MissesOK(r, rows, missed, less) ==
    r.list.holds = "offset" =>
        /\ r.open => Cardinality(missed \cap Front0(r, rows)) <= less
        /\ r.started /\ ~r.open => Cardinality(missed) <= less

PagesInv ==
    /\ PagesTyped
    /\ RowsOK(reading, Missed)
    /\ CountOK(reading, stored, came + gone)
    /\ RepeatsOK(reading, Entries(reading.list, stored), came)
    /\ MissesOK(reading, Entries(reading.list, stored), Missed, gone)

Orders(list) ==
    /\ Len(list.order) \in {1, 2}
    /\ list.order[1] \in {"asc", "desc"}
    /\ Len(list.order) = 2 => list.order[2] \in {"asc", "desc"}

LEMMA TheLists ==
    ASSUME NEW list \in Lists
    PROVE  /\ Orders(list)
           /\ list.holds \in {"row", "count", "offset"}
           /\ list.holds \in {"row", "count"} => list.after = list.order
           /\ list.holds = "count" => Len(list.order) = 1
<1>1. CASE list \in FoundFeatures
    <2>1. PICK order \in getFeatureSearchSortOrder : list = List(order, <<>>, "offset")
        BY <1>1 DEF FoundFeatures
    <2>2. \E d \in {"asc", "desc"} : order = <<d, "asc">> \/ order = <<d, d>>
        BY DEF getFeatureSearchSortOrder, NewFeatureNameSort, NewBrowserFeatureSupportSort,
               buildFullClause
    <2> QED
        BY <2>1, <2>2 DEF List, Orders
<1>2. CASE list \in Lists \ FoundFeatures
    BY <1>2 DEF Lists, List, Orders, UserSavedSearches, GlobalSavedSearches,
                NotificationChannels, Subscriptions, DeliveryAttempts, NotificationEvents,
                FeatureMetrics, AggregatedMetrics, DailyUsage, MissingOneImplCounts,
                BrowserFeatureCounts, BaselineStatusCounts, MissingOneImplFeatures
<1> QED
    BY <1>1, <1>2

IsTotal(order, U) ==
    /\ \A x \in U : ~InOrder(order, x, x)
    /\ \A x, y, z \in U : InOrder(order, x, y) /\ InOrder(order, y, z) => InOrder(order, x, z)
    /\ \A x, y \in U : x # y => InOrder(order, x, y) \/ InOrder(order, y, x)

LEMMA ListsAreOrdered ==
    ASSUME NEW list \in Lists
    PROVE  IsTotal(list.order, Universe(list))
<1>1. Orders(list)
    BY TheLists
<1>2. PICK c : c = list.order
    OBVIOUS
<1>3. CASE Len(c) = 1
    <2>1. \A x \in Universe(list) : x[1] \in Nat /\ x = <<x[1], 0>>
        BY <1>2, <1>3 DEF Universe, Entries
    <2>2. \A x, y : InOrder(c, x, y) <=> Goes(c[1], x[1], y[1])
        BY <1>3 DEF InOrder
    <2>3. \A x, y \in Universe(list) : x # y => x[1] # y[1]
        BY <2>1
    <2> QED
        BY <1>1, <1>2, <2>1, <2>2, <2>3 DEF IsTotal, Goes, Orders
<1>4. CASE Len(c) = 2
    <2>1. \A x \in Universe(list) : x[1] \in Nat /\ x[2] \in Nat /\ x = <<x[1], x[2]>>
        BY <1>2, <1>4 DEF Universe, Entries
    <2>2. \A x, y \in Universe(list) :
              InOrder(c, x, y) <=> \/ Goes(c[1], x[1], y[1])
                                   \/ x[1] = y[1] /\ Goes(c[2], x[2], y[2])
        BY <1>4 DEF InOrder
    <2>3. \A x, y \in Universe(list) : x # y => x[1] # y[1] \/ x[2] # y[2]
        BY <2>1
    <2>4. \A i \in {1, 2} :
              /\ \A m \in Nat : ~Goes(c[i], m, m)
              /\ \A m, n, p \in Nat : Goes(c[i], m, n) /\ Goes(c[i], n, p) => Goes(c[i], m, p)
              /\ \A m, n \in Nat : m # n => Goes(c[i], m, n) \/ Goes(c[i], n, m)
        BY <1>1, <1>2, <1>4 DEF Goes, Orders
    <2> QED
        BY <1>2, <2>1, <2>2, <2>3, <2>4 DEF IsTotal
<1> QED
    BY <1>1, <1>2, <1>3, <1>4 DEF Orders

Entry(list, r) == IF Len(list.order) = 1 THEN <<r[1], 0>> ELSE r

LEMMA EntriesAre ==
    ASSUME NEW list, NEW rows
    PROVE  Entries(list, rows) = {Entry(list, r) : r \in rows}
BY DEF Entries, Entry

LEMMA EntriesTyped ==
    ASSUME NEW list, NEW rows \in SUBSET ListRows
    PROVE  Entries(list, rows) \subseteq Universe(list) /\ IsFiniteSet(Entries(list, rows))
<1>1. Entries(list, rows) \subseteq Universe(list)
    BY ListRowsAssumption DEF Entries, Universe
<1>2. IsFiniteSet(rows)
    BY ListRowsAssumption, FS_Subset
<1>3. PICK f : f = [r \in rows |-> Entry(list, r)]
    OBVIOUS
<1>4. f \in Surjection(rows, Entries(list, rows))
    BY <1>3, EntriesAre DEF Surjection
<1> QED
    BY <1>1, <1>2, <1>4, FS_Surjection

\* A row that comes or goes is an entry that comes or goes, or nothing.
LEMMA OneEntry ==
    ASSUME NEW list, NEW rows, NEW r
    PROVE  /\ Entries(list, rows \cup {r}) = Entries(list, rows) \cup {Entry(list, r)}
           /\ Entries(list, rows \ {r}) \subseteq Entries(list, rows)
           /\ Entries(list, rows) \subseteq Entries(list, rows \ {r}) \cup {Entry(list, r)}
BY DEF Entries, Entry

LEMMA OneMore ==
    ASSUME NEW A, NEW B, IsFiniteSet(B), \A x, y \in A \ B : x = y
    PROVE  /\ IsFiniteSet(A) /\ Cardinality(A) \in Nat /\ Cardinality(B) \in Nat
           /\ Cardinality(A) <= Cardinality(B) + 1
<1>1. PICK x : A \subseteq B \cup {x}
    <2>1. CASE A \subseteq B
        BY <2>1
    <2>2. CASE ~(A \subseteq B)
        <3>1. PICK z : z \in A \ B
            BY <2>2
        <3>2. A \subseteq B \cup {z}
            BY <3>1
        <3> QED
            BY <3>2
    <2> QED
        BY <2>1, <2>2
<1>2. IsFiniteSet(B \cup {x}) /\ Cardinality(B \cup {x}) <= Cardinality(B) + 1
    BY FS_AddElement, FS_CardinalityType
<1>3. IsFiniteSet(A) /\ Cardinality(A) <= Cardinality(B \cup {x})
    BY <1>1, <1>2, FS_Subset
<1>4. Cardinality(A) \in Nat /\ Cardinality(B) \in Nat /\ Cardinality(B \cup {x}) \in Nat
    BY <1>2, <1>3, FS_CardinalityType
<1> QED
    BY <1>2, <1>3, <1>4

LEMMA BeforeCounts ==
    ASSUME NEW order, NEW S, IsFiniteSet(S), NEW e
    PROVE  IsFiniteSet(Before(order, S, e)) /\ Cardinality(Before(order, S, e)) \in Nat
<1>1. Before(order, S, e) \subseteq S
    BY DEF Before
<1> QED
    BY <1>1, FS_Subset, FS_CardinalityType

\* The first n are those that fewer than n come before.
LEMMA FirstIsFront ==
    ASSUME NEW order, NEW U, IsTotal(order, U), NEW S \in SUBSET U, IsFiniteSet(S),
           NEW n \in Nat, NEW P, IsFirst(P, n, S, order)
    PROVE  P = Front(n, S, order)
<1>1. /\ P \subseteq S /\ IsFiniteSet(P) /\ Cardinality(P) \in Nat
      /\ \A r \in P, s \in S \ P : InOrder(order, r, s)
      /\ Cardinality(P) = n \/ (P = S /\ Cardinality(S) < n)
    <2>1. P \subseteq S
        BY DEF IsFirst
    <2>2. IsFiniteSet(P) /\ Cardinality(P) \in Nat
        BY <2>1, FS_Subset, FS_CardinalityType
    <2>3. \A r \in P, s \in S \ P : InOrder(order, r, s)
        BY DEF IsFirst
    <2>4. Cardinality(P) = n \/ (P = S /\ Cardinality(S) < n)
        BY DEF IsFirst
    <2> QED
        BY <2>1, <2>2, <2>3, <2>4
<1>2. ASSUME NEW e \in P
      PROVE  Cardinality(Before(order, S, e)) < n
    <2>1. Before(order, S, e) \subseteq P \ {e}
        <3> SUFFICES ASSUME NEW s \in S, InOrder(order, s, e)
                     PROVE  s \in P \ {e}
            BY DEF Before
        <3>1. s \in P
            BY <1>1 DEF IsTotal
        <3> QED
            BY <1>1, <3>1 DEF IsTotal
    <2>2. Cardinality(P \ {e}) = Cardinality(P) - 1 /\ IsFiniteSet(P \ {e})
        BY <1>1, FS_RemoveElement
    <2>3. Cardinality(Before(order, S, e)) <= Cardinality(P) - 1
        BY <2>1, <2>2, FS_Subset
    <2> QED
        BY <1>1, <2>3, BeforeCounts
<1>3. ASSUME NEW e \in S \ P
      PROVE  ~(Cardinality(Before(order, S, e)) < n)
    <2>1. P \subseteq Before(order, S, e)
        BY <1>1 DEF Before
    <2>2. Cardinality(P) <= Cardinality(Before(order, S, e))
        BY <2>1, BeforeCounts, FS_Subset
    <2> QED
        BY <1>1, <2>2, BeforeCounts
<1> QED
    BY <1>1, <1>2, <1>3 DEF Front

\* The first m of what is after the first n are, with them, the first n + m.
LEMMA FirstAndNext ==
    ASSUME NEW order, NEW S, IsFiniteSet(S), NEW n \in Nat, NEW m \in Nat,
           NEW A, IsFirst(A, n, S, order), NEW P, IsFirst(P, m, S \ A, order)
    PROVE  IsFirst(A \cup P, n + m, S, order)
<1>1. /\ A \subseteq S /\ P \subseteq S \ A
      /\ \A r \in A, s \in S \ A : InOrder(order, r, s)
      /\ \A r \in P, s \in (S \ A) \ P : InOrder(order, r, s)
    BY DEF IsFirst
<1>2. /\ IsFiniteSet(A) /\ IsFiniteSet(P) /\ IsFiniteSet(S \ A)
      /\ Cardinality(A) \in Nat /\ Cardinality(P) \in Nat /\ Cardinality(S \ A) \in Nat
      /\ Cardinality(S) \in Nat
    BY <1>1, FS_Subset, FS_CardinalityType
<1>3. Cardinality(A \cup P) = Cardinality(A) + Cardinality(P)
    BY <1>1, <1>2, FS_Union, FS_EmptySet
<1>4. CASE Cardinality(A) = n /\ Cardinality(P) = m
    BY <1>1, <1>3, <1>4 DEF IsFirst
<1>5. CASE Cardinality(A) = n /\ P = S \ A /\ Cardinality(P) < m
    <2>1. A \cup P = S
        BY <1>1, <1>5
    <2> QED
        BY <1>1, <1>2, <1>3, <1>5, <2>1 DEF IsFirst
<1>6. CASE A = S /\ Cardinality(S) < n
    <2>1. A \cup P = S
        BY <1>1, <1>6
    <2>2. Cardinality(S) < n + m
        BY <1>2, <1>6
    <2>3. \A r \in A \cup P, s \in S \ (A \cup P) : InOrder(order, r, s)
        BY <2>1
    <2> QED
        BY <2>1, <2>2, <2>3 DEF IsFirst
<1>7. Cardinality(A) = n \/ (A = S /\ Cardinality(S) < n)
    BY DEF IsFirst
<1>8. Cardinality(P) = m \/ (P = S \ A /\ Cardinality(S \ A) < m)
    BY DEF IsFirst
<1>9. CASE A = S /\ Cardinality(S) < n
    BY <1>6, <1>9
<1>10. CASE Cardinality(A) = n
    <2>1. CASE Cardinality(P) = m
        BY <1>4, <1>10, <2>1
    <2>2. CASE P = S \ A /\ Cardinality(S \ A) < m
        BY <1>5, <1>10, <2>2
    <2> QED
        BY <1>8, <2>1, <2>2
<1> QED
    BY <1>7, <1>9, <1>10

\* Another row takes none into the front but itself,
LEMMA FrontWithAnother ==
    ASSUME NEW order, NEW S, IsFiniteSet(S), NEW n \in Nat, NEW e
    PROVE  Front(n, S \cup {e}, order) \cap S \subseteq Front(n, S, order)
<1> SUFFICES ASSUME NEW x \in S, Cardinality(Before(order, S \cup {e}, x)) < n
             PROVE  Cardinality(Before(order, S, x)) < n
    BY DEF Front
<1>1. IsFiniteSet(S \cup {e})
    BY FS_AddElement
<1>2. Before(order, S, x) \subseteq Before(order, S \cup {e}, x)
    BY DEF Before
<1>3. Cardinality(Before(order, S, x)) <= Cardinality(Before(order, S \cup {e}, x))
    BY <1>1, <1>2, BeforeCounts, FS_Subset
<1> QED
    BY <1>1, <1>3, BeforeCounts

\* and leaves one behind at most, of what was there and itself.
LEMMA OneIsLeftBehind ==
    ASSUME NEW order, NEW U, IsTotal(order, U), NEW S \in SUBSET U, IsFiniteSet(S),
           NEW e \in U, NEW n \in Nat,
           NEW x \in (Front(n, S, order) \cup {e}) \ Front(n, S \cup {e}, order),
           NEW y \in (Front(n, S, order) \cup {e}) \ Front(n, S \cup {e}, order)
    PROVE  x = y
<1>0. PICK T : T = S \cup {e}
    OBVIOUS
<1>1. IsFiniteSet(T) /\ T \subseteq U /\ x \in T /\ y \in T
    BY <1>0, FS_AddElement DEF Front
<1>2. CASE e \in S
    <2>1. S \cup {e} = S
        BY <1>2
    <2> QED
        BY <2>1
<1>3. CASE e \notin S
    <2>1. ASSUME NEW p \in (Front(n, S, order) \cup {e}) \ Front(n, S \cup {e}, order),
                 NEW q \in (Front(n, S, order) \cup {e}) \ Front(n, S \cup {e}, order),
                 InOrder(order, p, q)
          PROVE  FALSE
        <3>1. p \in T /\ q \in T /\ ~(Cardinality(Before(order, T, p)) < n)
            BY <1>0 DEF Front
        <3>2. CASE q = e
            <4>1. p \in Front(n, S, order)
                BY <1>1, <2>1, <3>1, <3>2 DEF IsTotal
            <4>2. ~InOrder(order, e, p)
                BY <1>1, <2>1, <3>1, <3>2 DEF IsTotal
            <4>3. Before(order, T, p) = Before(order, S, p)
                BY <1>0, <4>2 DEF Before
            <4> QED
                BY <3>1, <4>1, <4>3 DEF Front
        <3>3. CASE q # e
            <4>1. q \in S /\ Cardinality(Before(order, S, q)) < n
                BY <3>3 DEF Front
            <4>2. Before(order, T, q) \subseteq Before(order, S, q) \cup {e}
                BY <1>0 DEF Before
            <4>3. /\ IsFiniteSet(Before(order, S, q)) /\ Cardinality(Before(order, S, q)) \in Nat
                  /\ IsFiniteSet(Before(order, T, q)) /\ Cardinality(Before(order, T, q)) \in Nat
                  /\ IsFiniteSet(Before(order, T, p)) /\ Cardinality(Before(order, T, p)) \in Nat
                BY <1>1, BeforeCounts
            <4>4. Cardinality(Before(order, T, q)) <= n
                <5>1. \A z, w \in Before(order, T, q) \ Before(order, S, q) : z = w
                    BY <4>2
                <5>2. Cardinality(Before(order, T, q)) <= Cardinality(Before(order, S, q)) + 1
                    BY <4>3, <5>1, OneMore
                <5> QED
                    BY <4>1, <4>3, <5>2
            <4>5. p \in Before(order, T, q)
                BY <2>1, <3>1 DEF Before
            <4>6. Before(order, T, p) \subseteq Before(order, T, q) \ {p}
                <5> SUFFICES ASSUME NEW s \in T, InOrder(order, s, p)
                             PROVE  s \in T /\ InOrder(order, s, q) /\ s # p
                    BY DEF Before
                <5> QED
                    BY <1>1, <2>1, <3>1, <4>1 DEF IsTotal
            <4>7. PICK B : B = Before(order, T, q)
                OBVIOUS
            <4>8. IsFiniteSet(B \ {p}) /\ Cardinality(B \ {p}) = Cardinality(B) - 1
                BY <4>3, <4>5, <4>7, FS_RemoveElement
            <4>9. Cardinality(Before(order, T, p)) <= Cardinality(B \ {p})
                BY <4>6, <4>7, <4>8, FS_Subset
            <4> QED
                BY <3>1, <4>3, <4>4, <4>7, <4>8, <4>9
        <3> QED
            BY <3>2, <3>3
    <2>2. ~InOrder(order, x, y) /\ ~InOrder(order, y, x)
        BY <2>1
    <2> QED
        BY <1>1, <2>2 DEF IsTotal
<1> QED
    BY <1>2, <1>3

LEMMA Parts ==
    ASSUME NEW S, IsFiniteSet(S), NEW P
    PROVE  /\ Cardinality(S) = Cardinality(S \cap P) + Cardinality(S \ P)
           /\ Cardinality(S) \in Nat /\ Cardinality(S \cap P) \in Nat
           /\ Cardinality(S \ P) \in Nat
<1>1. PICK D : D = S \cap P
    OBVIOUS
<1>2. D \in SUBSET S /\ S \ D = S \ P
    BY <1>1
<1>3. Cardinality(S \ P) = Cardinality(S) - Cardinality(D)
    BY <1>2, Remainder
<1>4. /\ Cardinality(D) \in Nat /\ Cardinality(S) \in Nat /\ Cardinality(S \ P) \in Nat
    BY <1>2, FS_Subset, FS_CardinalityType
<1> QED
    BY <1>1, <1>3, <1>4

LEMMA Smaller ==
    ASSUME NEW A, NEW B, IsFiniteSet(B), A \subseteq B
    PROVE  /\ IsFiniteSet(A) /\ Cardinality(A) \in Nat /\ Cardinality(B) \in Nat
           /\ Cardinality(A) <= Cardinality(B)
BY FS_Subset, FS_CardinalityType

LEMMA PagesInitially == PagesInit => PagesInv
<1> SUFFICES ASSUME PagesInit
             PROVE  PagesInv
    OBVIOUS
<1>1. reading = NoReading /\ stayed = {} /\ came = 0 /\ gone = 0 /\ stored \in SUBSET ListRows
    BY DEF PagesInit
<1>2. UserSavedSearches \in Lists /\ UserSavedSearches.holds = "row"
    BY DEF Lists, UserSavedSearches, List
<1>3. /\ reading.list = UserSavedSearches /\ ~reading.open /\ ~reading.started
      /\ reading.cursor = <<0, 0>> /\ reading.offset = 0 /\ reading.count = 0
      /\ reading.got = {} /\ reading.repeated = 0
    BY <1>1 DEF NoReading
<1>4. \A list : <<0, 0>> \in Universe(list)
    BY DEF Universe, Entries
<1>5. IsReading(reading)
    BY <1>1, <1>2, <1>3, <1>4, FS_EmptySet DEF NoReading, IsReading
<1> QED
    BY <1>1, <1>2, <1>3, <1>5 DEF PagesInv, PagesTyped, RowsOK, CountOK, RepeatsOK, MissesOK

LEMMA StartListStep ==
    ASSUME PagesInv, NEW list \in Lists, StartList(list)
    PROVE  PagesInv'
<1>1. /\ stayed' = stored /\ stored' = stored /\ came' = came /\ gone' = gone
      /\ came \in Nat /\ gone \in Nat /\ stored \subseteq ListRows
    BY DEF StartList, PagesInv, PagesTyped
<1>2. reading' = [list |-> list, open |-> TRUE, started |-> FALSE, cursor |-> <<0, 0>>,
                  offset |-> 0, count |-> 0, got |-> {}, repeated |-> 0]
    BY DEF StartList, NoReading
<1>3. <<0, 0>> \in Universe(list)
    BY DEF Universe, Entries
<1>4. IsReading(reading)'
    BY <1>2, <1>3, FS_EmptySet DEF IsReading
<1>5. PagesTyped'
    BY <1>1, <1>4 DEF PagesTyped
<1>6. RowsOK(reading, Missed)'
    BY <1>2 DEF RowsOK
<1>7. CountOK(reading, stored, came + gone)'
    <2>1. Counted(reading', stored') = {}
        BY <1>2 DEF Counted
    <2>2. Cardinality(Counted(reading', stored')) = 0 /\ reading'.count = 0
        BY <1>2, <2>1, FS_EmptySet
    <2> QED
        BY <1>1, <2>2 DEF CountOK
<1>8. RepeatsOK(reading, Entries(reading.list, stored), came)'
    <2>1. \A F : (reading'.got \cap Entries(reading'.list, stored')) \ F = {}
        BY <1>2
    <2> QED
        BY <1>1, <1>2, <2>1, FS_EmptySet DEF RepeatsOK
<1>9. MissesOK(reading, Entries(reading.list, stored), Missed, gone)'
    <2>1. PICK E : E = Entries(list, stored)
        OBVIOUS
    <2>2. IsFiniteSet(E)
        BY <1>1, <2>1, EntriesTyped
    <2>3. Front(0, E, list.order) = {}
        BY <2>2, BeforeCounts DEF Front
    <2>4. Missed' \cap Front0(reading', Entries(reading'.list, stored')) = {}
        BY <1>1, <1>2, <2>1, <2>3 DEF Front0
    <2>5. ~reading'.started
        BY <1>2
    <2> QED
        BY <1>1, <2>4, <2>5, FS_EmptySet DEF MissesOK
<1> QED
    BY <1>5, <1>6, <1>7, <1>8, <1>9 DEF PagesInv

\* What a page does to the reading.
LEMMA PageTaken ==
    ASSUME NEW r, IsReading(r), NEW P \in SUBSET Universe(r.list), IsFiniteSet(P),
           NEW open \in BOOLEAN, NEW cursor \in Universe(r.list), NEW offset \in Nat,
           NEW count \in Nat,
           NEW s, s = [list |-> r.list, open |-> open, started |-> TRUE, cursor |-> cursor,
                       offset |-> offset, count |-> count, got |-> r.got \cup P,
                       repeated |-> r.repeated + Cardinality(P \cap r.got)]
    PROVE  IsReading(s)
<1>1. IsFiniteSet(r.got \cup P) /\ r.got \cup P \subseteq Universe(r.list)
    BY FS_Union DEF IsReading
<1>2. r.repeated + Cardinality(P \cap r.got) \in Nat
    <2>1. P \cap r.got \subseteq P
        OBVIOUS
    <2>2. Cardinality(P \cap r.got) \in Nat
        BY <2>1, Smaller
    <2> QED
        BY <2>2 DEF IsReading
<1>3. /\ s.list = r.list /\ s.open = open /\ s.started = TRUE /\ s.cursor = cursor
      /\ s.offset = offset /\ s.count = count /\ s.got = r.got \cup P
      /\ s.repeated = r.repeated + Cardinality(P \cap r.got)
    OBVIOUS
<1> QED
    BY <1>1, <1>2, <1>3 DEF IsReading

RowsLeft == {e \in Entries(reading.list, stored) :
                reading.started => InOrder(reading.list.after, reading.cursor, e)}

RowsIn(P) == Cardinality({r \in stored : <<r[1], 0>> \in P})

LEMMA RowPage ==
    ASSUME PagesInv, PageAfterRow
    PROVE  \E P, open, cursor :
              /\ P \in SUBSET RowsLeft /\ open \in BOOLEAN
              /\ IsFirst(P, PageSize, RowsLeft, reading.list.order)
              /\ reading' = [list |-> reading.list, open |-> open, started |-> TRUE,
                             cursor |-> cursor, offset |-> reading.offset,
                             count |-> reading.count + RowsIn(P), got |-> reading.got \cup P,
                             repeated |-> reading.repeated + Cardinality(P \cap reading.got)]
              /\ IF open THEN IsLast(cursor, P, reading.list.order)
                 ELSE cursor = reading.cursor /\ P = RowsLeft
<1>1. PICK P \in SUBSET RowsLeft :
          /\ IsFirst(P, PageSize, RowsLeft, reading.list.order)
          /\ \/ /\ HasMore(P)
                /\ \E last \in P :
                      /\ IsLast(last, P, reading.list.order)
                      /\ reading' = [Took(P, TRUE) EXCEPT !.cursor = last,
                                                          !.count = @ + RowsIn(P)]
             \/ /\ ~HasMore(P)
                /\ reading' = [Took(P, FALSE) EXCEPT !.count = @ + RowsIn(P)]
    BY DEF PageAfterRow, RowsLeft, RowsIn
<1>2. IsReading(reading)
    BY DEF PagesInv, PagesTyped
<1>3. CASE HasMore(P)
    <2>1. PICK last \in P :
              /\ IsLast(last, P, reading.list.order)
              /\ reading' = [Took(P, TRUE) EXCEPT !.cursor = last, !.count = @ + RowsIn(P)]
        BY <1>1, <1>3
    <2>2. reading' = [list |-> reading.list, open |-> TRUE, started |-> TRUE,
                      cursor |-> last, offset |-> reading.offset,
                      count |-> reading.count + RowsIn(P), got |-> reading.got \cup P,
                      repeated |-> reading.repeated + Cardinality(P \cap reading.got)]
        BY <1>2, <2>1 DEF IsReading, Took
    <2> QED
        BY <1>1, <2>1, <2>2
<1>4. CASE ~HasMore(P)
    <2>1. P = RowsLeft
        BY <1>1, <1>4 DEF IsFirst, HasMore
    <2>2. reading' = [list |-> reading.list, open |-> FALSE, started |-> TRUE,
                      cursor |-> reading.cursor, offset |-> reading.offset,
                      count |-> reading.count + RowsIn(P), got |-> reading.got \cup P,
                      repeated |-> reading.repeated + Cardinality(P \cap reading.got)]
        BY <1>1, <1>2, <1>4 DEF IsReading, Took
    <2> QED
        BY <1>1, <2>1, <2>2
<1> QED
    BY <1>3, <1>4

LEMMA PageAfterRowStep ==
    ASSUME PagesInv, PageAfterRow
    PROVE  PagesInv'
<1>1. PICK P, open, cursor :
          /\ P \in SUBSET RowsLeft /\ open \in BOOLEAN
          /\ IsFirst(P, PageSize, RowsLeft, reading.list.order)
          /\ reading' = [list |-> reading.list, open |-> open, started |-> TRUE,
                         cursor |-> cursor, offset |-> reading.offset,
                         count |-> reading.count + RowsIn(P), got |-> reading.got \cup P,
                         repeated |-> reading.repeated + Cardinality(P \cap reading.got)]
          /\ IF open THEN IsLast(cursor, P, reading.list.order)
             ELSE cursor = reading.cursor /\ P = RowsLeft
    BY RowPage
<1>2. /\ stored' = stored /\ stayed' = stayed /\ came' = came /\ gone' = gone
      /\ reading.open /\ reading.list.holds \in {"row", "count"}
    BY DEF PageAfterRow
<1>3. PICK list \in Lists : list = reading.list
    BY DEF PagesInv, PagesTyped, IsReading
<1>4. PICK order : order = list.order
    OBVIOUS
<1>5. IsTotal(order, Universe(list)) /\ list.after = order
    BY <1>2, <1>3, <1>4, ListsAreOrdered, TheLists
<1>6. /\ stored \subseteq ListRows /\ stayed \subseteq stored /\ IsReading(reading)
      /\ came \in Nat /\ gone \in Nat
    BY DEF PagesInv, PagesTyped
<1>7. /\ Entries(list, stored) \subseteq Universe(list) /\ IsFiniteSet(Entries(list, stored))
      /\ Entries(list, stayed) \subseteq Entries(list, stored)
    BY <1>6, EntriesTyped DEF Entries
<1>8. \A e : e \in RowsLeft <=>
                 /\ e \in Entries(list, stored)
                 /\ reading.started => InOrder(order, reading.cursor, e)
    BY <1>3, <1>5 DEF RowsLeft
<1>9. P \subseteq Universe(list) /\ IsFiniteSet(P)
    BY <1>1, <1>7, <1>8, Smaller
<1>10. /\ reading'.list = list /\ reading'.open = open /\ reading'.started
       /\ reading'.cursor = cursor /\ reading'.count = reading.count + RowsIn(P)
       /\ reading'.got = reading.got \cup P
       /\ reading'.repeated = reading.repeated + Cardinality(P \cap reading.got)
    BY <1>1, <1>3
<1>11. cursor \in Universe(list)
    BY <1>1, <1>3, <1>6, <1>9 DEF IsLast, IsReading
<1>12. reading.cursor \in Universe(list) /\ reading.got \subseteq Universe(list)
    BY <1>3, <1>6 DEF IsReading
<1>13. /\ reading.repeated = 0
       /\ reading.started => /\ \A e \in reading.got : ~InOrder(order, reading.cursor, e)
                             /\ \A e \in Missed : InOrder(order, reading.cursor, e)
    BY <1>2, <1>3, <1>4 DEF PagesInv, RowsOK
<1>14. ~reading.started => reading.got = {} /\ reading.count = 0
    BY <1>6 DEF IsReading
<1>15. \A r \in P, s \in RowsLeft \ P : InOrder(order, r, s)
    BY <1>1, <1>3, <1>4 DEF IsFirst
<1>16. open => cursor \in P /\ \A r \in P : ~InOrder(order, cursor, r)
    BY <1>1, <1>3, <1>4 DEF IsLast
<1>17. ~open => P = RowsLeft
    BY <1>1
<1>18. stored \subseteq Nat \X Nat /\ IsFiniteSet(stored)
    BY <1>6, ListRowsAssumption, Smaller
<1>19. RowsIn(P) \in Nat /\ reading.count \in Nat
    <2>1. {r \in stored : <<r[1], 0>> \in P} \subseteq stored
        OBVIOUS
    <2> QED
        BY <1>6, <1>18, <2>1, Smaller DEF RowsIn, IsReading
<1>20. PagesTyped'
    <2>1. reading.offset \in Nat /\ reading.count + RowsIn(P) \in Nat
        BY <1>6, <1>19 DEF IsReading
    <2>2. IsReading(reading')
        BY <1>1, <1>3, <1>6, <1>9, <1>11, <2>1, PageTaken
    <2> QED
        BY <1>2, <1>6, <2>2 DEF PagesTyped, IsReading
<1>21. RowsOK(reading, Missed)'
    <2>1. P \cap reading.got = {}
        BY <1>1, <1>8, <1>13, <1>14
    <2>2. reading'.repeated = 0
        BY <1>10, <1>13, <2>1, FS_EmptySet
    <2>3. Missed' \subseteq RowsLeft \ P
        <3>1. Missed' = (Entries(list, stayed) \ reading.got) \ P
            BY <1>2, <1>10 DEF Missed
        <3>2. Missed = Entries(list, stayed) \ reading.got
            BY <1>3 DEF Missed
        <3> QED
            BY <1>7, <1>8, <1>13, <3>1, <3>2
    <2>4. ASSUME open, NEW e \in reading'.got
          PROVE  ~InOrder(order, cursor, e)
        <3>1. CASE e \in P
            BY <1>16, <2>4, <3>1
        <3>2. CASE e \in reading.got
            <4>1. reading.started /\ ~InOrder(order, reading.cursor, e)
                BY <1>13, <1>14, <3>2
            <4>2. InOrder(order, reading.cursor, cursor)
                BY <1>1, <1>8, <1>16, <2>4, <4>1
            <4> QED
                BY <1>5, <1>11, <1>12, <3>2, <4>1, <4>2 DEF IsTotal
        <3> QED
            BY <1>10, <2>4, <3>1, <3>2
    <2>5. ASSUME open, NEW e \in Missed'
          PROVE  InOrder(order, cursor, e)
        BY <1>15, <1>16, <2>3, <2>5
    <2>6. ~open => Missed' = {}
        BY <1>17, <2>3
    <2> QED
        BY <1>4, <1>10, <2>2, <2>4, <2>5, <2>6 DEF RowsOK
<1>22. CountOK(reading, stored, came + gone)'
    <2>1. SUFFICES ASSUME list.holds = "count"
                   PROVE  CountOK(reading, stored, came + gone)'
        BY <1>10 DEF CountOK
    <2>2. \A r \in stored : <<r[1], 0>> \in Entries(list, stored)
        BY <2>1, TheLists DEF Entries
    <2>3. PICK old : old = Counted(reading, stored)
        OBVIOUS
    <2>4. PICK added : added = {r \in stored : <<r[1], 0>> \in P}
        OBVIOUS
    <2>5. \A r \in stored : r \in old <=>
              reading.started /\ ~InOrder(order, reading.cursor, <<r[1], 0>>)
        BY <1>2, <1>3, <1>4, <2>3 DEF Counted
    <2>6. old \subseteq stored /\ added \subseteq stored
        BY <2>3, <2>4 DEF Counted
    <2>7. old \cap added = {}
        BY <1>1, <1>8, <2>4, <2>5, <2>6
    <2>8. Counted(reading', stored') = old \cup added
        <3>1. CASE ~open
            <4>1. Counted(reading', stored') = stored
                BY <1>2, <1>10, <3>1 DEF Counted
            <4>2. \A r \in stored : r \in old \/ r \in added
                BY <1>8, <1>17, <2>2, <2>4, <2>5, <3>1
            <4> QED
                BY <2>6, <4>1, <4>2
        <3>2. CASE open
            <4>1. ASSUME NEW r \in stored
                  PROVE  ~InOrder(order, cursor, <<r[1], 0>>) <=> r \in old \cup added
                <5>1. PICK e \in Entries(list, stored) : e = <<r[1], 0>>
                    BY <2>2
                <5>2. r \in added <=> e \in P
                    BY <2>4, <5>1
                <5>3. r \in old <=> reading.started /\ ~InOrder(order, reading.cursor, e)
                    BY <2>5, <5>1
                <5>4. e \in P => ~InOrder(order, cursor, e)
                    BY <1>16, <3>2
                <5>5. ASSUME r \in old
                      PROVE  ~InOrder(order, cursor, e)
                    <6>1. InOrder(order, reading.cursor, cursor)
                        BY <1>1, <1>8, <1>16, <3>2, <5>3, <5>5
                    <6> QED
                        BY <1>5, <1>7, <1>11, <1>12, <5>3, <5>5, <6>1 DEF IsTotal
                <5>6. r \notin old /\ e \notin P => InOrder(order, cursor, e)
                    BY <1>8, <1>15, <1>16, <3>2, <5>3
                <5> QED
                    BY <5>1, <5>2, <5>4, <5>5, <5>6
            <4>2. Counted(reading', stored') =
                      {r \in stored : ~InOrder(order, cursor, <<r[1], 0>>)}
                BY <1>2, <1>4, <1>10, <3>2 DEF Counted
            <4>3. Counted(reading', stored') \subseteq old \cup added
                BY <4>1, <4>2
            <4>4. old \cup added \subseteq Counted(reading', stored')
                BY <2>6, <4>1, <4>2
            <4> QED
                BY <4>3, <4>4
        <3> QED
            BY <3>1, <3>2
    <2>9. /\ IsFiniteSet(old) /\ IsFiniteSet(added)
          /\ Cardinality(old) \in Nat /\ Cardinality(added) \in Nat
        BY <1>18, <2>6, Smaller
    <2>10. Cardinality(old \cup added) = Cardinality(old) + Cardinality(added)
        <3>1. Cardinality(old \cap added) = 0
            BY <2>7, FS_EmptySet
        <3>2. Cardinality(old \cup added)
                  = Cardinality(old) + Cardinality(added) - Cardinality(old \cap added)
            BY <2>9, FS_Union
        <3> QED
            BY <2>9, <3>1, <3>2
    <2>11. RowsIn(P) = Cardinality(added)
        BY <2>4 DEF RowsIn
    <2>12. /\ Cardinality(old) <= reading.count + (came + gone)
           /\ reading.count <= Cardinality(old) + (came + gone)
        BY <1>3, <2>1, <2>3 DEF PagesInv, CountOK
    <2>13. /\ Cardinality(old \cup added) <= reading'.count + (came + gone)
           /\ reading'.count <= Cardinality(old \cup added) + (came + gone)
        BY <1>6, <1>10, <1>19, <2>9, <2>10, <2>11, <2>12
    <2> QED
        BY <1>2, <2>8, <2>13 DEF CountOK
<1>23. RepeatsOK(reading, Entries(reading.list, stored), came)'
    BY <1>2, <1>3, <1>10 DEF RepeatsOK
<1>24. MissesOK(reading, Entries(reading.list, stored), Missed, gone)'
    BY <1>2, <1>3, <1>10 DEF MissesOK
<1> QED
    BY <1>20, <1>21, <1>22, <1>23, <1>24 DEF PagesInv

LEMMA PageAtOffsetStep ==
    ASSUME PagesInv, PageAtOffset
    PROVE  PagesInv'
<1>1. PICK list \in Lists : list = reading.list
    BY DEF PagesInv, PagesTyped, IsReading
<1>2. PICK order : order = list.order
    OBVIOUS
<1>3. PICK rows : rows = Entries(list, stored)
    OBVIOUS
<1>4. PICK skipped, P :
          /\ skipped \subseteq rows /\ P \subseteq rows \ skipped
          /\ IsFirst(skipped, reading.offset, rows, order)
          /\ IsFirst(P, PageSize, rows \ skipped, order)
          /\ reading' = [Took(P, HasMore(P)) EXCEPT !.offset = @ + PageSize]
    BY <1>1, <1>2, <1>3 DEF PageAtOffset
<1>5. /\ stored' = stored /\ stayed' = stayed /\ came' = came /\ gone' = gone
      /\ reading.open /\ list.holds = "offset"
    BY <1>1 DEF PageAtOffset
<1>6. /\ stored \subseteq ListRows /\ stayed \subseteq stored /\ IsReading(reading)
      /\ came \in Nat /\ gone \in Nat
    BY DEF PagesInv, PagesTyped
<1>7. /\ rows \subseteq Universe(list) /\ IsFiniteSet(rows)
      /\ Entries(list, stayed) \subseteq rows
    BY <1>3, <1>6, EntriesTyped DEF Entries
<1>8. PICK open \in BOOLEAN : open = HasMore(P)
    BY DEF HasMore
<1>9. reading' = [list |-> reading.list, open |-> open, started |-> TRUE,
                  cursor |-> reading.cursor, offset |-> reading.offset + PageSize,
                  count |-> reading.count, got |-> reading.got \cup P,
                  repeated |-> reading.repeated + Cardinality(P \cap reading.got)]
    BY <1>4, <1>6, <1>8 DEF Took, IsReading
<1>10. /\ reading'.list = list /\ reading'.open = open /\ reading'.started
       /\ reading'.offset = reading.offset + PageSize /\ reading'.got = reading.got \cup P
       /\ reading'.repeated = reading.repeated + Cardinality(P \cap reading.got)
    BY <1>1, <1>9
<1>11. P \subseteq Universe(list) /\ IsFiniteSet(P)
    <2>1. P \subseteq rows
        BY <1>4
    <2> QED
        BY <1>7, <2>1, Smaller
<1>12. /\ reading.offset \in Nat /\ PageSize \in Nat /\ reading.offset + PageSize \in Nat
       /\ reading.count \in Nat /\ reading.cursor \in Universe(list)
       /\ reading.repeated \in Nat /\ IsFiniteSet(reading.got)
    BY <1>1, <1>6, PageSizeAssumption DEF IsReading
<1>13. PICK front : front = Front(reading.offset, rows, order)
    OBVIOUS
<1>14. IsTotal(order, Universe(list))
    BY <1>2, ListsAreOrdered
<1>15. skipped = front
    BY <1>4, <1>7, <1>12, <1>13, <1>14, FirstIsFront
<1>16. Front(reading.offset + PageSize, rows, order) = front \cup P
    <2>1. IsFirst(skipped \cup P, reading.offset + PageSize, rows, order)
        BY <1>4, <1>7, <1>12, FirstAndNext
    <2> QED
        BY <1>7, <1>12, <1>14, <1>15, <2>1, FirstIsFront
<1>17. ~open => P = rows \ front
    BY <1>4, <1>8, <1>15 DEF IsFirst, HasMore
<1>18. PagesTyped'
    <2>1. IsReading(reading')
        BY <1>1, <1>6, <1>9, <1>11, <1>12, PageTaken
    <2> QED
        BY <1>5, <1>6, <2>1 DEF PagesTyped
<1>19. RowsOK(reading, Missed)'
    BY <1>5, <1>10 DEF RowsOK
<1>20. CountOK(reading, stored, came + gone)'
    BY <1>5, <1>10 DEF CountOK
<1>21. RepeatsOK(reading, Entries(reading.list, stored), came)'
    <2>1. PICK seen : seen = (reading.got \cap rows) \ front
        OBVIOUS
    <2>2. IsFiniteSet(seen)
        BY <1>12, <2>1, Smaller
    <2>3. P \cap reading.got = seen \cap P
        BY <1>4, <1>15, <2>1
    <2>4. (reading'.got \cap rows) \ (front \cup P) = seen \ P
        BY <1>10, <2>1
    <2>5. reading.repeated + Cardinality(seen) <= came
        BY <1>1, <1>2, <1>3, <1>5, <1>13, <2>1 DEF PagesInv, RepeatsOK, Front0
    <2>6. /\ Cardinality(seen) = Cardinality(seen \cap P) + Cardinality(seen \ P)
          /\ Cardinality(seen \cap P) \in Nat /\ Cardinality(seen \ P) \in Nat
        BY <2>2, Parts
    <2>7. reading'.repeated + Cardinality(seen \ P) <= came
        <3>1. reading'.repeated = reading.repeated + Cardinality(seen \cap P)
            BY <1>10, <2>3
        <3> QED
            BY <1>6, <1>12, <2>5, <2>6, <3>1
    <2>8. Front0(reading', rows) = front \cup P
        BY <1>2, <1>10, <1>16 DEF Front0
    <2> QED
        BY <1>3, <1>5, <1>10, <2>4, <2>7, <2>8 DEF RepeatsOK
<1>22. MissesOK(reading, Entries(reading.list, stored), Missed, gone)'
    <2>1. PICK missed : missed = Missed \cap front
        OBVIOUS
    <2>2. Cardinality(missed) <= gone
        BY <1>1, <1>2, <1>3, <1>5, <1>13, <2>1 DEF PagesInv, MissesOK, Front0
    <2>3. Missed' = Missed \ P
        BY <1>1, <1>5, <1>10 DEF Missed
    <2>4. IsFiniteSet(missed)
        BY <1>1, <1>7, <2>1, Smaller DEF Missed
    <2>5. Missed' \cap (front \cup P) \subseteq missed
        BY <2>1, <2>3
    <2>6. ~open => Missed' \subseteq missed
        BY <1>1, <1>7, <1>17, <2>1, <2>3 DEF Missed
    <2>7. \A M : M \subseteq missed => Cardinality(M) <= gone
        BY <1>6, <2>2, <2>4, Smaller
    <2>8. Front0(reading', rows) = front \cup P
        BY <1>2, <1>10, <1>16 DEF Front0
    <2> QED
        BY <1>3, <1>5, <1>10, <2>5, <2>6, <2>7, <2>8 DEF MissesOK
<1> QED
    BY <1>18, <1>19, <1>20, <1>21, <1>22 DEF PagesInv

LEMMA ComeStep ==
    ASSUME PagesInv, NEW r \in ListRows, Come(r)
    PROVE  PagesInv'
<1>1. /\ stored' = stored \cup {r} /\ stayed' = stayed /\ came' = came + 1 /\ gone' = gone
      /\ reading' = reading /\ reading.open
    BY DEF Come
<1>2. /\ stored \subseteq ListRows /\ stayed \subseteq stored /\ IsReading(reading)
      /\ came \in Nat /\ gone \in Nat
    BY DEF PagesInv, PagesTyped
<1>3. PICK list \in Lists : list = reading.list
    BY <1>2 DEF IsReading
<1>4. PICK order : order = list.order
    OBVIOUS
<1>5. IsTotal(order, Universe(list))
    BY <1>4, ListsAreOrdered
<1>6. PICK S : S = Entries(list, stored)
    OBVIOUS
<1>7. PICK e : e = Entry(list, r)
    OBVIOUS
<1>8. Entries(list, stored') = S \cup {e}
    BY <1>1, <1>6, <1>7, OneEntry
<1>9. /\ S \in SUBSET Universe(list) /\ IsFiniteSet(S) /\ Entries(list, stayed) \subseteq S
      /\ e \in Universe(list)
    <2>1. stored \cup {r} \subseteq ListRows
        BY <1>2
    <2>2. S \cup {e} \subseteq Universe(list) /\ S \subseteq Universe(list) /\ IsFiniteSet(S)
        BY <1>1, <1>2, <1>6, <1>8, <2>1, EntriesTyped
    <2>3. Entries(list, stayed) \subseteq S
        BY <1>2, <1>6 DEF Entries
    <2> QED
        BY <2>2, <2>3
<1>10. Missed' = Missed /\ Missed \subseteq S
    BY <1>1, <1>3, <1>9 DEF Missed
<1>11. PagesTyped'
    BY <1>1, <1>2 DEF PagesTyped
<1>12. RowsOK(reading, Missed)'
    BY <1>1, <1>10 DEF PagesInv, RowsOK
<1>13. CountOK(reading, stored, came + gone)'
    <2>1. SUFFICES ASSUME list.holds = "count"
                   PROVE  CountOK(reading, stored, came + gone)'
        BY <1>1, <1>3 DEF CountOK
    <2>2. PICK old : old = Counted(reading, stored)
        OBVIOUS
    <2>3. PICK new : new = Counted(reading', stored')
        OBVIOUS
    <2>4. old \subseteq new /\ new \subseteq old \cup {r}
        BY <1>1, <2>2, <2>3 DEF Counted
    <2>5. IsFiniteSet(old)
        BY <1>2, <2>2, ListRowsAssumption, Smaller DEF Counted
    <2>6. \A x, y \in new \ old : x = y
        BY <2>4
    <2>7. /\ Cardinality(old) \in Nat /\ Cardinality(new) \in Nat
          /\ Cardinality(new) <= Cardinality(old) + 1 /\ IsFiniteSet(new)
        BY <2>5, <2>6, OneMore
    <2>8. Cardinality(old) <= Cardinality(new)
        BY <2>4, <2>7, Smaller
    <2>9. /\ Cardinality(old) <= reading.count + (came + gone)
          /\ reading.count <= Cardinality(old) + (came + gone)
        BY <1>3, <2>1, <2>2 DEF PagesInv, CountOK
    <2>10. /\ Cardinality(new) <= reading.count + ((came + 1) + gone)
           /\ reading.count <= Cardinality(new) + ((came + 1) + gone)
        BY <1>2, <2>7, <2>8, <2>9 DEF IsReading
    <2> QED
        BY <1>1, <2>3, <2>10 DEF CountOK
<1>14. /\ reading.offset \in Nat /\ reading.repeated \in Nat /\ IsFiniteSet(reading.got)
    BY <1>2 DEF IsReading
<1>15. PICK n \in Nat : n = reading.offset
    BY <1>14
<1>16. PICK F : F = Front(n, S, order)
    OBVIOUS
<1>17. PICK G : G = Front(n, S \cup {e}, order)
    OBVIOUS
<1>18. G \cap S \subseteq F
    BY <1>9, <1>16, <1>17, FrontWithAnother
<1>19. \A x, y \in (F \cup {e}) \ G : x = y
    BY <1>5, <1>9, <1>16, <1>17, OneIsLeftBehind
<1>20. /\ Front0(reading, S) = F /\ Front0(reading', S \cup {e}) = G
    BY <1>1, <1>3, <1>4, <1>15, <1>16, <1>17 DEF Front0
<1>21. RepeatsOK(reading, Entries(reading.list, stored), came)'
    <2>1. SUFFICES ASSUME list.holds = "offset"
                   PROVE  RepeatsOK(reading, Entries(reading.list, stored), came)'
        BY <1>1, <1>3 DEF RepeatsOK
    <2>2. PICK old : old = (reading.got \cap S) \ F
        OBVIOUS
    <2>3. PICK new : new = (reading.got \cap (S \cup {e})) \ G
        OBVIOUS
    <2>4. IsFiniteSet(old)
        BY <1>14, <2>2, Smaller
    <2>5. \A x, y \in new \ old : x = y
        BY <1>19, <2>2, <2>3
    <2>6. Cardinality(new) <= Cardinality(old) + 1 /\ Cardinality(new) \in Nat
              /\ Cardinality(old) \in Nat
        BY <2>4, <2>5, OneMore
    <2>7. reading.repeated + Cardinality(old) <= came
        BY <1>3, <1>6, <1>20, <2>1, <2>2 DEF PagesInv, RepeatsOK
    <2>8. reading.repeated + Cardinality(new) <= came + 1
        BY <1>2, <1>14, <2>6, <2>7
    <2> QED
        BY <1>1, <1>3, <1>8, <1>20, <2>3, <2>8 DEF RepeatsOK
<1>22. MissesOK(reading, Entries(reading.list, stored), Missed, gone)'
    <2>1. SUFFICES ASSUME list.holds = "offset"
                   PROVE  MissesOK(reading, Entries(reading.list, stored), Missed, gone)'
        BY <1>1, <1>3 DEF MissesOK
    <2>2. Cardinality(Missed \cap F) <= gone
        BY <1>1, <1>3, <1>6, <1>20, <2>1 DEF PagesInv, MissesOK
    <2>3. Missed \cap G \subseteq Missed \cap F /\ IsFiniteSet(Missed \cap F)
        BY <1>9, <1>10, <1>18, Smaller
    <2>4. Cardinality(Missed \cap G) <= gone
        BY <1>2, <2>2, <2>3, Smaller
    <2> QED
        BY <1>1, <1>3, <1>8, <1>10, <1>20, <2>4 DEF MissesOK
<1> QED
    BY <1>11, <1>12, <1>13, <1>21, <1>22 DEF PagesInv

LEMMA GoStep ==
    ASSUME PagesInv, NEW r \in ListRows, Go(r)
    PROVE  PagesInv'
<1>1. /\ stored' = stored \ {r} /\ stayed' = stayed \ {r} /\ came' = came
      /\ gone' = gone + 1 /\ reading' = reading /\ reading.open
    BY DEF Go
<1>2. /\ stored \subseteq ListRows /\ stayed \subseteq stored /\ IsReading(reading)
      /\ came \in Nat /\ gone \in Nat
    BY DEF PagesInv, PagesTyped
<1>3. PICK list \in Lists : list = reading.list
    BY <1>2 DEF IsReading
<1>4. PICK order : order = list.order
    OBVIOUS
<1>5. IsTotal(order, Universe(list))
    BY <1>4, ListsAreOrdered
<1>6. PICK S : S = Entries(list, stored)
    OBVIOUS
<1>7. PICK T : T = Entries(list, stored')
    OBVIOUS
<1>8. PICK e : e = Entry(list, r)
    OBVIOUS
<1>9. /\ T \subseteq S /\ S \subseteq T \cup {e}
      /\ Entries(list, stayed) \subseteq S /\ Entries(list, stayed') \subseteq T
      /\ Entries(list, stayed') \subseteq Entries(list, stayed)
    <2>1. T \subseteq S /\ S \subseteq T \cup {e}
        BY <1>1, <1>6, <1>7, <1>8, OneEntry
    <2>2. /\ stayed' \subseteq stored' /\ stayed' \subseteq stayed
        BY <1>1, <1>2
    <2>3. \A A, B : A \subseteq B => Entries(list, A) \subseteq Entries(list, B)
        BY DEF Entries
    <2> QED
        BY <1>2, <1>6, <1>7, <2>1, <2>2, <2>3
<1>10. S \in SUBSET Universe(list) /\ IsFiniteSet(S) /\ IsFiniteSet(T)
    BY <1>2, <1>6, <1>9, EntriesTyped, Smaller
<1>11. Missed' \subseteq Missed /\ Missed' \subseteq T /\ Missed \subseteq S
    BY <1>1, <1>3, <1>9 DEF Missed
<1>12. PagesTyped'
    BY <1>1, <1>2 DEF PagesTyped
<1>13. RowsOK(reading, Missed)'
    BY <1>1, <1>11 DEF PagesInv, RowsOK
<1>14. CountOK(reading, stored, came + gone)'
    <2>1. SUFFICES ASSUME list.holds = "count"
                   PROVE  CountOK(reading, stored, came + gone)'
        BY <1>1, <1>3 DEF CountOK
    <2>2. PICK old : old = Counted(reading, stored)
        OBVIOUS
    <2>3. PICK new : new = Counted(reading', stored')
        OBVIOUS
    <2>4. new \subseteq old /\ old \subseteq new \cup {r}
        BY <1>1, <2>2, <2>3 DEF Counted
    <2>5. IsFiniteSet(old)
        BY <1>2, <2>2, ListRowsAssumption, Smaller DEF Counted
    <2>6. \A x, y \in old \ new : x = y
        BY <2>4
    <2>7. /\ IsFiniteSet(new) /\ Cardinality(new) <= Cardinality(old)
        BY <2>4, <2>5, Smaller
    <2>8. /\ Cardinality(old) \in Nat /\ Cardinality(new) \in Nat
          /\ Cardinality(old) <= Cardinality(new) + 1
        BY <2>6, <2>7, OneMore
    <2>9. /\ Cardinality(old) <= reading.count + (came + gone)
          /\ reading.count <= Cardinality(old) + (came + gone)
        BY <1>3, <2>1, <2>2 DEF PagesInv, CountOK
    <2>10. /\ Cardinality(new) <= reading.count + (came + (gone + 1))
           /\ reading.count <= Cardinality(new) + (came + (gone + 1))
        BY <1>2, <2>7, <2>8, <2>9 DEF IsReading
    <2> QED
        BY <1>1, <2>3, <2>10 DEF CountOK
<1>15. /\ reading.offset \in Nat /\ reading.repeated \in Nat /\ IsFiniteSet(reading.got)
    BY <1>2 DEF IsReading
<1>16. PICK n \in Nat : n = reading.offset
    BY <1>15
<1>17. PICK F : F = Front(n, S, order)
    OBVIOUS
<1>18. PICK G : G = Front(n, T, order)
    OBVIOUS
<1>19. F \cap T \subseteq G /\ \A x, y \in G \ F : x = y
    <2>1. CASE T = S
        BY <1>17, <1>18, <2>1
    <2>2. CASE T # S
        <3>1. S = T \cup {e} /\ e \in Universe(list) /\ T \in SUBSET Universe(list)
            BY <1>9, <1>10, <2>2
        <3>2. F \cap T \subseteq G
            BY <1>10, <1>17, <1>18, <3>1, FrontWithAnother
        <3>3. \A x, y \in (G \cup {e}) \ F : x = y
            BY <1>5, <1>10, <1>17, <1>18, <3>1, OneIsLeftBehind
        <3> QED
            BY <3>2, <3>3
    <2> QED
        BY <2>1, <2>2
<1>20. /\ Front0(reading, S) = F /\ Front0(reading', T) = G
    BY <1>1, <1>3, <1>4, <1>16, <1>17, <1>18 DEF Front0
<1>21. RepeatsOK(reading, Entries(reading.list, stored), came)'
    <2>1. SUFFICES ASSUME list.holds = "offset"
                   PROVE  RepeatsOK(reading, Entries(reading.list, stored), came)'
        BY <1>1, <1>3 DEF RepeatsOK
    <2>2. PICK old : old = (reading.got \cap S) \ F
        OBVIOUS
    <2>3. PICK new : new = (reading.got \cap T) \ G
        OBVIOUS
    <2>4. IsFiniteSet(old) /\ new \subseteq old
        BY <1>9, <1>15, <1>19, <2>2, <2>3, Smaller
    <2>5. /\ Cardinality(new) <= Cardinality(old) /\ Cardinality(new) \in Nat
          /\ Cardinality(old) \in Nat
        BY <2>4, Smaller
    <2>6. reading.repeated + Cardinality(old) <= came
        BY <1>3, <1>6, <1>20, <2>1, <2>2 DEF PagesInv, RepeatsOK
    <2>7. reading.repeated + Cardinality(new) <= came
        BY <1>2, <1>15, <2>5, <2>6
    <2> QED
        BY <1>1, <1>3, <1>7, <1>20, <2>3, <2>7 DEF RepeatsOK
<1>22. MissesOK(reading, Entries(reading.list, stored), Missed, gone)'
    <2>1. SUFFICES ASSUME list.holds = "offset"
                   PROVE  MissesOK(reading, Entries(reading.list, stored), Missed, gone)'
        BY <1>1, <1>3 DEF MissesOK
    <2>2. Cardinality(Missed \cap F) <= gone
        BY <1>1, <1>3, <1>6, <1>20, <2>1 DEF PagesInv, MissesOK
    <2>3. PICK old : old = Missed \cap F
        OBVIOUS
    <2>4. PICK new : new = Missed' \cap G
        OBVIOUS
    <2>5. IsFiniteSet(old)
        BY <1>10, <1>11, <2>3, Smaller
    <2>6. \A x, y \in new \ old : x = y
        BY <1>11, <1>19, <2>3, <2>4
    <2>7. /\ Cardinality(new) <= Cardinality(old) + 1 /\ Cardinality(new) \in Nat
          /\ Cardinality(old) \in Nat
        BY <2>5, <2>6, OneMore
    <2>8. Cardinality(new) <= gone + 1
        BY <1>2, <2>2, <2>3, <2>7
    <2> QED
        BY <1>1, <1>3, <1>7, <1>20, <2>4, <2>8 DEF MissesOK
<1> QED
    BY <1>12, <1>13, <1>14, <1>21, <1>22 DEF PagesInv

LEMMA PagesStep == PagesInv /\ [PagesNext]_pagesVars => PagesInv'
<1> SUFFICES ASSUME PagesInv, [PagesNext]_pagesVars
             PROVE  PagesInv'
    OBVIOUS
<1>1. CASE UNCHANGED pagesVars
    BY <1>1 DEF pagesVars, PagesInv, PagesTyped, RowsOK, CountOK, RepeatsOK, MissesOK,
                Missed, Counted, Front0
<1>2. CASE PagesNext
    BY <1>2, StartListStep, PageAfterRowStep, PageAtOffsetStep, ComeStep, GoStep
       DEF PagesNext
<1> QED
    BY <1>1, <1>2

\* However rows come and go between the pages of a list: every row that stays is
\* shown, once where the token is a row; where it is an offset, no more are
\* shown again than have come, and no more are left out than have gone; and a
\* count is as far from the truth as rows have come and gone.
THEOREM PagesShow == PagesSpec => []PagesShowWhatStays
<1>1. PagesInv => PagesShowWhatStays
    <2> SUFFICES ASSUME PagesInv
                 PROVE  PagesShowWhatStays
        OBVIOUS
    <2>1. /\ reading.list \in Lists /\ reading.repeated \in Nat /\ IsFiniteSet(reading.got)
          /\ reading.count \in Nat /\ came \in Nat /\ gone \in Nat
        BY DEF PagesInv, PagesTyped, IsReading
    <2>2. ASSUME reading.list.holds \in {"row", "count"}
          PROVE  reading.repeated = 0 /\ (reading.started /\ ~reading.open => Missed = {})
        BY <2>2 DEF PagesInv, RowsOK
    <2>3. ASSUME reading.list.holds = "offset"
          PROVE  /\ reading.repeated <= came
                 /\ reading.started /\ ~reading.open => Cardinality(Missed) <= gone
        <3>1. PICK again : again = (reading.got \cap Entries(reading.list, stored))
                                      \ Front0(reading, Entries(reading.list, stored))
            OBVIOUS
        <3>2. Cardinality(again) \in Nat
            BY <2>1, <3>1, Smaller
        <3>3. reading.repeated + Cardinality(again) <= came
            BY <2>3, <3>1 DEF PagesInv, RepeatsOK
        <3> QED
            BY <2>1, <2>3, <3>2, <3>3 DEF PagesInv, MissesOK
    <2>4. ASSUME reading.list.holds = "count", reading.started, ~reading.open
          PROVE  /\ Cardinality(stored) <= reading.count + came + gone
                 /\ reading.count <= Cardinality(stored) + came + gone
        <3>1. Counted(reading, stored) = stored
            BY <2>4 DEF Counted
        <3>2. /\ Cardinality(stored) <= reading.count + (came + gone)
              /\ reading.count <= Cardinality(stored) + (came + gone)
            BY <2>4, <3>1 DEF PagesInv, CountOK
        <3>3. Cardinality(stored) \in Nat
            BY ListRowsAssumption, Smaller DEF PagesInv, PagesTyped
        <3> QED
            BY <2>1, <3>2, <3>3
    <2> QED
        BY <2>2, <2>3, <2>4 DEF PagesShowWhatStays
<1> QED
    BY <1>1, PagesInitially, PagesStep, PTL DEF PagesSpec
-----------------------------------------------------------------------------
(***************************************************************************)
(* A search finds what its query says, for any queries, however deep their  *)
(* parentheses and references are nested, and any features.  The functions  *)
(* that follow the nesting exist and are the fixed points of their bodies;  *)
(* by induction on it what is void has no text, and the text of what is not *)
(* is true of the features it says.  Within a query the invariant goes from *)
(* criterion to criterion: the last alternative is true of the features for *)
(* which all criteria from the last OR on are met, and one before it of     *)
(* those for which all criteria from one OR to the next are.                *)
(***************************************************************************)

Texts == Seq(SUBSET Rows)
Keywords == {"AND", "OR", "term", "parens", "nil"}
Nodes == [is : Keywords, text : Texts]

IsOr(w, t, u) ==
    /\ w \in Texts /\ Len(w) = Len(t) + Len(u)
    /\ \A i \in 1 .. Len(t) : w[i] = t[i]
    /\ \A i \in 1 .. Len(u) : w[Len(t) + i] = u[i]

LEMMA OrIs == ASSUME NEW t \in Texts, NEW u \in Texts PROVE IsOr(t \o u, t, u)
<1>0. PICK w : w = t \o u
    OBVIOUS
<1>1. PICK S : S = SUBSET Rows
    OBVIOUS
<1>2. t \in Seq(S) /\ u \in Seq(S)
    BY <1>1 DEF Texts
<1>3. /\ t \o u \in Seq(S) /\ Len(t \o u) = Len(t) + Len(u)
      /\ \A i \in 1 .. Len(t) + Len(u) :
            (t \o u)[i] = IF i <= Len(t) THEN t[i] ELSE u[i - Len(t)]
    BY <1>2, ConcatProperties
<1>4. Len(t) \in Nat /\ Len(u) \in Nat
    BY <1>2
<1>5. ASSUME NEW i \in 1 .. Len(u)
      PROVE  w[Len(t) + i] = u[i]
    <2>1. /\ Len(t) + i \in 1 .. Len(t) + Len(u) /\ ~(Len(t) + i <= Len(t))
          /\ (Len(t) + i) - Len(t) = i
        BY <1>4
    <2> QED
        BY <1>0, <1>3, <2>1
<1> QED
    BY <1>0, <1>1, <1>3, <1>4, <1>5 DEF IsOr, Texts

\* The text of u after that of t, with AND in between.
IsAnd(w, t, u) ==
    /\ w \in Texts /\ Len(w) = (Len(t) + Len(u)) - 1 /\ Len(t) \in Nat \ {0}
    /\ \A i \in 1 .. Len(t) - 1 : w[i] = t[i]
    /\ w[Len(t)] = t[Len(t)] \cap u[1]
    /\ \A i \in 2 .. Len(u) : w[Len(t) + i - 1] = u[i]

LEMMA AndIs ==
    ASSUME NEW t \in Texts, NEW u \in Texts, t # NoText, u # NoText, NEW w, w = And(t, u)
    PROVE  IsAnd(w, t, u)
<1>1. PICK n \in Nat : n = Len(t) /\ n >= 1
    BY DEF NoText, Texts
<1>2. PICK m \in Nat : m = Len(u) /\ m >= 1
    BY DEF NoText, Texts
<1>3. PICK a : a = SubSeq(t, 1, n - 1)
    OBVIOUS
<1>4. PICK b : b = << t[n] \cap u[1] >>
    OBVIOUS
<1>5. PICK c : c = Tail(u)
    OBVIOUS
<1>6. w = a \o b \o c
    BY <1>1, <1>3, <1>4, <1>5 DEF And
<1>7. a \in Texts /\ Len(a) = n - 1 /\ \A i \in 1 .. n - 1 : a[i] = t[i]
    BY <1>1, <1>3 DEF Texts
<1>8. b \in Texts /\ Len(b) = 1 /\ b[1] = t[n] \cap u[1]
    <2>1. t[n] \cap u[1] \in SUBSET Rows
        BY <1>1, <1>2 DEF Texts
    <2> QED
        BY <2>1, <1>4 DEF Texts
<1>9. c \in Texts /\ Len(c) = m - 1 /\ \A i \in 1 .. m - 1 : c[i] = u[i + 1]
    BY <1>2, <1>5 DEF Texts, NoText
<1>10. PICK d : d = a \o b
    OBVIOUS
<1>11. d \in Texts /\ Len(d) = n /\ d[n] = t[n] \cap u[1] /\ \A i \in 1 .. n - 1 : d[i] = t[i]
    <2>1. /\ d \in Texts /\ Len(d) = Len(a) + Len(b)
          /\ \A i \in 1 .. Len(a) : d[i] = a[i]
          /\ \A i \in 1 .. Len(b) : d[Len(a) + i] = b[i]
        <3>1. IsOr(d, a, b)
            BY <1>7, <1>8, <1>10, OrIs
        <3> QED
            BY <3>1 DEF IsOr
    <2>2. Len(a) + 1 = n /\ 1 \in 1 .. Len(b)
        BY <1>7, <1>8
    <2> QED
        BY <1>7, <1>8, <2>1, <2>2
<1>12. /\ w \in Texts /\ Len(w) = n + (m - 1)
       /\ \A i \in 1 .. n : w[i] = d[i]
       /\ \A i \in 1 .. m - 1 : w[n + i] = c[i]
    <2>1. IsOr(w, d, c)
        BY <1>6, <1>9, <1>10, <1>11, OrIs
    <2> QED
        BY <1>9, <1>11, <2>1 DEF IsOr
<1>15. ASSUME NEW i \in 2 .. m
       PROVE  w[n + i - 1] = u[i]
    <2>1. PICK j \in 1 .. m - 1 : i = j + 1
        <3>1. i - 1 \in 1 .. m - 1 /\ i = (i - 1) + 1
            OBVIOUS
        <3> QED
            BY <3>1
    <2>2. n + i - 1 = n + j
        BY <2>1
    <2> QED
        BY <1>9, <1>12, <2>1, <2>2
<1> QED
    BY <1>1, <1>2, <1>11, <1>12, <1>15 DEF IsAnd

LEMMA JoinType ==
    ASSUME NEW t \in Texts, NEW u \in Texts, NEW keyword
    PROVE  Join(keyword, t, u) \in Texts
<1>1. And(t, u) \in Texts
    <2>1. CASE t = NoText \/ u = NoText
        BY <2>1 DEF And
    <2>2. CASE t # NoText /\ u # NoText
        BY <2>2, AndIs DEF IsAnd
    <2> QED
        BY <2>1, <2>2
<1>2. Or(t, u) \in Texts
    BY OrIs DEF Or, IsOr
<1> QED
    BY <1>1, <1>2 DEF Join

LEMMA ConditionType == \A of, op, value : << Condition(of, op, value) >> \in Texts
<1> SUFFICES ASSUME NEW of, NEW op, NEW value
             PROVE  << Condition(of, op, value) >> \in Texts
    OBVIOUS
<1>1. Condition(of, op, value) \in SUBSET Rows
    BY DEF Condition
<1> QED
    BY <1>1 DEF Texts

LEMMA FoundType == ASSUME NEW t \in Texts PROVE Found(t) \in SUBSET Rows
BY DEF Found, Texts

LEMMA ParensType == ASSUME NEW t \in Texts PROVE Parens(t) \in Texts
<1>1. << Found(t) >> \in Texts
    BY FoundType DEF Texts
<1> QED
    BY <1>1 DEF Parens

LEMMA ChainedType ==
    ASSUME NEW current \in Nodes, NEW node \in Nodes, NEW op \in {"AND", "OR", "space"}
    PROVE  Chained(current, op, node) \in Nodes
<1>1. PICK k : k = Keyword(current, op)
    OBVIOUS
<1>2. k \in {"AND", "OR"}
    BY <1>1 DEF Keyword, IsKeyword
<1>3. Join(k, current.text, node.text) \in Texts
    BY JoinType DEF Nodes
<1>4. PICK j : j = Join(k, current.text, node.text)
    OBVIOUS
<1>5. [is |-> k, text |-> j] \in Nodes
    BY <1>2, <1>3, <1>4 DEF Nodes, Keywords
<1> QED
    BY <1>1, <1>4, <1>5 DEF Chained, Node

LEMMA VisitType ==
    ASSUME NEW q \in Queries, NEW i \in DOMAIN q, NEW tree \in [Queries -> Nodes]
    PROVE  Visit(q[i], tree) \in Nodes
<1>1. PICK c : c = q[i]
    OBVIOUS
<1>2. HasQuery(c) => tree[QueryIn(c)] \in Nodes
    BY <1>1, QueriesAssumption
<1>3. ASSUME NEW node \in Nodes
      PROVE  ParensNode(node) \in Nodes /\ Expanded(node) \in Nodes
    <2>1. Parens(node.text) \in Texts
        BY ParensType DEF Nodes
    <2> QED
        BY <2>1 DEF ParensNode, Expanded, Node, Nodes, Keywords
<1>4. TermNode(c) \in Nodes
    BY ConditionType DEF TermNode, Node, Nodes, Keywords
<1>5. RangeNode(c) \in Nodes
    <2>1. PICK k : k = IF c.not THEN Inverted["AND"] ELSE "AND"
        OBVIOUS
    <2>2. k \in {"AND", "OR"}
        BY <2>1 DEF Inverted
    <2>3. PICK t \in Texts :
              t = << Condition(c.of, IF c.not /\ c.of = "baseline_date" THEN "<" ELSE ">=", c.value) >>
        BY ConditionType
    <2>4. PICK u \in Texts :
              u = << Condition(c.of, IF c.not /\ c.of = "baseline_date" THEN ">" ELSE "<=", c.value) >>
        BY ConditionType
    <2>5. Join(k, t, u) \in Texts
        BY JoinType
    <2>6. RangeNode(c) = [is |-> k, text |-> Join(k, t, u)]
        BY <2>1, <2>3, <2>4 DEF RangeNode, Node
    <2> QED
        BY <2>2, <2>5, <2>6 DEF Nodes, Keywords
<1>6. CASE c.of = "parens"
    BY <1>1, <1>2, <1>3, <1>6 DEF Visit, HasQuery, References, Ranges
<1>7. CASE c.of \in References
    BY <1>1, <1>2, <1>3, <1>7 DEF Visit, HasQuery, References, Ranges
<1>8. CASE c.of \in Ranges
    BY <1>1, <1>5, <1>8 DEF Visit, References, Ranges
<1>9. CASE c.of \notin {"parens"} \cup References \cup Ranges
    BY <1>1, <1>4, <1>9 DEF Visit
<1> QED
    BY <1>6, <1>7, <1>8, <1>9

-----------------------------------------------------------------------------
(* The recursive functions, each of which is one fixed point. *)

ChainFrom(q, nodes, f, i) == IF i = 1 THEN nodes[1] ELSE Chained(f[i - 1], q[i].op, nodes[i])

LEMMA CombinedIs ==
    ASSUME NEW q \in Queries, q # Everything, NEW nodes \in [DOMAIN q -> Nodes]
    PROVE  /\ Combined(q, nodes) \in [DOMAIN q -> Nodes]
           /\ \A i \in DOMAIN q : Combined(q, nodes)[i] = ChainFrom(q, nodes, Combined(q, nodes), i)
<1> DEFINE S == DOMAIN q
           Body(f) == [i \in S |-> ChainFrom(q, nodes, f, i)]
<1>1. PICK M : M = [S -> Nodes]
    OBVIOUS
<1>2. S = 1 .. Len(q) /\ Len(q) \in Nat
    BY QueriesAssumption
<1>3. \A i \in S : i # 1 => i - 1 \in S /\ i - 1 < i /\ q[i].op \in {"AND", "OR", "space"}
    BY <1>2, QueriesAssumption
<1>4. 1 \in S
    BY <1>2 DEF Everything
<1>5. ASSUME NEW f \in M, NEW i \in S
      PROVE  ChainFrom(q, nodes, f, i) \in Nodes
    <2>1. CASE i = 1
        BY <1>4, <2>1 DEF ChainFrom
    <2>2. CASE i # 1
        BY <1>1, <1>3, <2>2, ChainedType DEF ChainFrom
    <2> QED
        BY <2>1, <2>2
<1>6. PICK step : step = [f \in M |-> Body(f)]
    OBVIOUS
<1>7. step \in [M -> M]
    BY <1>1, <1>5, <1>6
<1>8. PICK rank : rank = [i \in S |-> i]
    OBVIOUS
<1>9. rank \in [S -> Nat]
    BY <1>2, <1>8
<1>10. LooksDown(step, M, S, rank)
    <2> SUFFICES ASSUME NEW f \in M, NEW g \in M, NEW i \in S,
                        \A j \in S : rank[j] < rank[i] => f[j] = g[j]
                 PROVE  step[f][i] = step[g][i]
        BY DEF LooksDown
    <2>1. i # 1 => f[i - 1] = g[i - 1]
        BY <1>3, <1>8
    <2>2. ChainFrom(q, nodes, f, i) = ChainFrom(q, nodes, g, i)
        BY <2>1 DEF ChainFrom
    <2> QED
        BY <1>6, <2>2
<1>11. Nodes # {}
    BY <1>4
<1>12. \E f \in M : f = step[f]
    <2>1. Recursive(step, M, S, Nodes, rank)
        BY <1>1, <1>7, <1>9, <1>10, <1>11 DEF Recursive
    <2> QED
        BY <2>1, Recursion
<1>13. PICK c : c = Combined(q, nodes)
    OBVIOUS
<1>14. c = CHOOSE f : f = Body(f)
    BY <1>13 DEF Combined, ChainFrom
<1>15. \E f : f = Body(f)
    BY <1>6, <1>12
<1>16. c = Body(c)
    <2> HIDE DEF Body
    <2> QED
        BY <1>14, <1>15
<1>17. \A i \in S : c[i] = ChainFrom(q, nodes, c, i)
    BY <1>16
<1>18. c \in [S -> Nodes]
    <2> DEFINE T == {n \in Nat : n \in S => c[n] \in Nodes}
    <2>1. 0 \in T
        BY <1>2
    <2>2. ASSUME NEW n \in T
          PROVE  n + 1 \in T
        <3> SUFFICES ASSUME n + 1 \in S
                     PROVE  c[n + 1] \in Nodes
            OBVIOUS
        <3>1. CASE n = 0
            BY <1>4, <1>17, <3>1 DEF ChainFrom
        <3>2. CASE n # 0
            <4>1. n + 1 # 1 /\ (n + 1) - 1 = n /\ n \in S
                BY <1>2, <3>2
            <4>2. c[n] \in Nodes /\ nodes[n + 1] \in Nodes
                BY <4>1
            <4>3. c[n + 1] = Chained(c[n], q[n + 1].op, nodes[n + 1])
                BY <1>17, <4>1 DEF ChainFrom
            <4> QED
                BY <1>3, <4>1, <4>2, <4>3, ChainedType
        <3> QED
            BY <3>1, <3>2
    <2>3. T \in SUBSET Nat
        OBVIOUS
    <2>4. T = Nat
        <3> HIDE DEF T
        <3> QED
            BY <2>1, <2>2, <2>3, ByInduction
    <2>5. \A i \in S : c[i] \in Nodes
        <3>1. \A i \in S : i \in T
            BY <1>2, <2>4
        <3> QED
            BY <3>1
    <2> QED
        BY <1>16, <2>5
<1> QED
    BY <1>13, <1>17, <1>18

TreeFrom(q, tree) ==
    IF q = Everything THEN Node("nil", NoText)
    ELSE Combined(q, [i \in DOMAIN q |-> Visit(q[i], tree)])[Len(q)]

SaysFrom(q, says) ==
    [row \in Rows |->
        q = Everything
        \/ \E i \in Starts(q) : \A j \in i .. Len(q) :
              i + 1 .. j \cap Starts(q) = {} => Meets(q[j], row, says)]

VoidFrom(q, void) == \A i \in DOMAIN q : HasQuery(q[i]) /\ void[QueryIn(q[i])]

PlainFrom(q, plain) ==
    [row \in Rows |->
        \A i \in DOMAIN q :
            /\ JoinedAsRead(q, i)
            /\ q[i].not => Definite(q[i], row)
            /\ q[i].not /\ q[i].of = "baseline_date" => Len(q) = 1
            /\ HasQuery(q[i]) => /\ plain[QueryIn(q[i])][row]
                                 /\ Void[QueryIn(q[i])] => Starts(q) = {1}]

\* Two that agree on queries that are nested less deep than q.
AgreeBelow(f, g, q) == \A p \in Queries : Nesting[p] < Nesting[q] => f[p] = g[p]

LEMMA InnerAgree ==
    ASSUME NEW q \in Queries, NEW f, NEW g, AgreeBelow(f, g, q)
    PROVE  \A i \in DOMAIN q : HasQuery(q[i]) => f[QueryIn(q[i])] = g[QueryIn(q[i])]
BY QueriesAssumption DEF AgreeBelow

LEMMA TreeLooksDown ==
    ASSUME NEW q \in Queries, NEW f, NEW g, AgreeBelow(f, g, q)
    PROVE  TreeFrom(q, f) = TreeFrom(q, g)
<1>1. ASSUME NEW i \in DOMAIN q
      PROVE  Visit(q[i], f) = Visit(q[i], g)
    <2>1. HasQuery(q[i]) => f[QueryIn(q[i])] = g[QueryIn(q[i])]
        BY InnerAgree
    <2>2. q[i].of = "parens" \/ q[i].of \in References => HasQuery(q[i])
        BY DEF HasQuery
    <2> QED
        BY <2>1, <2>2 DEF Visit
<1>2. [i \in DOMAIN q |-> Visit(q[i], f)] = [i \in DOMAIN q |-> Visit(q[i], g)]
    BY <1>1
<1> QED
    BY <1>2 DEF TreeFrom

LEMMA SaysLooksDown ==
    ASSUME NEW q \in Queries, NEW f, NEW g, AgreeBelow(f, g, q)
    PROVE  SaysFrom(q, f) = SaysFrom(q, g)
<1>1. ASSUME NEW i \in DOMAIN q, NEW row \in Rows
      PROVE  Meets(q[i], row, f) = Meets(q[i], row, g)
    <2>1. HasQuery(q[i]) => f[QueryIn(q[i])] = g[QueryIn(q[i])]
        BY InnerAgree
    <2>2. About(q[i], row, f) = About(q[i], row, g)
        BY <2>1 DEF About
    <2> QED
        BY <2>2 DEF Meets
<1>2. \A i \in Starts(q) : \A j \in i .. Len(q) : j \in DOMAIN q
    BY QueriesAssumption DEF Starts
<1>3. ASSUME NEW row \in Rows
      PROVE  SaysFrom(q, f)[row] = SaysFrom(q, g)[row]
    BY <1>1, <1>2 DEF SaysFrom
<1> QED
    BY <1>3 DEF SaysFrom

LEMMA VoidLooksDown ==
    ASSUME NEW q \in Queries, NEW f, NEW g, AgreeBelow(f, g, q)
    PROVE  VoidFrom(q, f) = VoidFrom(q, g)
BY InnerAgree DEF VoidFrom

LEMMA PlainLooksDown ==
    ASSUME NEW q \in Queries, NEW f, NEW g, AgreeBelow(f, g, q)
    PROVE  PlainFrom(q, f) = PlainFrom(q, g)
<1>1. \A i \in DOMAIN q : HasQuery(q[i]) => f[QueryIn(q[i])] = g[QueryIn(q[i])]
    BY InnerAgree
<1>2. ASSUME NEW row \in Rows
      PROVE  PlainFrom(q, f)[row] = PlainFrom(q, g)[row]
    BY <1>1 DEF PlainFrom
<1> QED
    BY <1>2 DEF PlainFrom

\* Two functions are the same, if what they have for q is whenever what they have
\* below it is.
LEMMA SameByNesting ==
    ASSUME NEW f, NEW g, \A q \in Queries : AgreeBelow(f, g, q) => f[q] = g[q]
    PROVE  \A q \in Queries : f[q] = g[q]
<1> DEFINE T == {n \in Nat : \A q \in Queries : Nesting[q] < n => f[q] = g[q]}
<1>1. \A q \in Queries : Nesting[q] \in Nat
    BY NestingAssumption
<1>2. 0 \in T
    BY <1>1
<1>3. ASSUME NEW n \in T
      PROVE  n + 1 \in T
    <2> SUFFICES ASSUME NEW q \in Queries, Nesting[q] < n + 1
                 PROVE  f[q] = g[q]
        OBVIOUS
    <2>1. AgreeBelow(f, g, q)
        BY <1>1 DEF AgreeBelow
    <2> QED
        BY <2>1
<1>4. T = Nat
    <2>1. T \in SUBSET Nat
        OBVIOUS
    <2> HIDE DEF T
    <2> QED
        BY <1>2, <1>3, <2>1, ByInduction
<1>5. ASSUME NEW q \in Queries
      PROVE  f[q] = g[q]
    <2>1. Nesting[q] + 1 \in T /\ Nesting[q] < Nesting[q] + 1
        BY <1>1, <1>4
    <2> QED
        BY <2>1
<1> QED
    BY <1>5

LEMMA ParseTreeIs ==
    /\ ParseTree \in [Queries -> Nodes]
    /\ \A q \in Queries : ParseTree[q] = TreeFrom(q, ParseTree)
<1> DEFINE Body(f) == [q \in Queries |-> TreeFrom(q, f)]
<1>1. PICK M : M = [Queries -> Nodes]
    OBVIOUS
<1>2. PICK step : step = [f \in M |-> Body(f)]
    OBVIOUS
<1>3. Recursive(step, M, Queries, Nodes, Nesting)
    <2>1. ASSUME NEW f \in M, NEW q \in Queries
          PROVE  TreeFrom(q, f) \in Nodes
        <3>1. CASE q = Everything
            <4>1. NoText \in Texts
                BY DEF NoText, Texts
            <4> QED
                BY <3>1, <4>1 DEF TreeFrom, Node, Nodes, Keywords
        <3>2. CASE q # Everything
            <4>1. \A i \in DOMAIN q : Visit(q[i], f) \in Nodes
                BY <1>1, VisitType
            <4>2. PICK nodes \in [DOMAIN q -> Nodes] : nodes = [i \in DOMAIN q |-> Visit(q[i], f)]
                BY <4>1
            <4>3. Len(q) \in DOMAIN q
                BY <3>2, QueriesAssumption DEF Everything
            <4>4. Combined(q, nodes)[Len(q)] \in Nodes
                BY <3>2, <4>2, <4>3, CombinedIs
            <4> QED
                BY <3>2, <4>2, <4>4 DEF TreeFrom
        <3> QED
            BY <3>1, <3>2
    <2>2. step \in [M -> M]
        BY <1>1, <1>2, <2>1
    <2>3. LooksDown(step, M, Queries, Nesting)
        <3>1. ASSUME NEW f \in M, NEW g \in M, NEW q \in Queries,
                     \A p \in Queries : Nesting[p] < Nesting[q] => f[p] = g[p]
              PROVE  step[f][q] = step[g][q]
            <4>1. TreeFrom(q, f) = TreeFrom(q, g)
                BY <3>1, TreeLooksDown DEF AgreeBelow
            <4> QED
                BY <1>2, <4>1
        <3> QED
            BY <3>1 DEF LooksDown
    <2>4. Nodes # {}
        <3>1. << >> \in Texts
            BY DEF Texts
        <3>2. [is |-> "nil", text |-> << >>] \in Nodes
            BY <3>1 DEF Nodes, Keywords
        <3> QED
            BY <3>2
    <2> QED
        BY <1>1, <2>2, <2>3, <2>4, NestingAssumption DEF Recursive
<1>4. PICK f \in M : f = Body(f)
    BY <1>2, <1>3, Recursion
<1>5. ParseTree = CHOOSE g : g = Body(g)
    BY DEF ParseTree, TreeFrom
<1>6. ParseTree = Body(ParseTree)
    <2>1. \E g : g = Body(g)
        BY <1>4
    <2> HIDE DEF Body
    <2> QED
        BY <1>5, <2>1
<1>7. \A q \in Queries : ParseTree[q] = TreeFrom(q, ParseTree) /\ f[q] = TreeFrom(q, f)
    BY <1>4, <1>6
<1>8. \A q \in Queries : ParseTree[q] = f[q]
    <2>1. ASSUME NEW q \in Queries, AgreeBelow(ParseTree, f, q)
          PROVE  ParseTree[q] = f[q]
        BY <1>7, <2>1, TreeLooksDown
    <2> HIDE DEF Body
    <2> QED
        BY <2>1, SameByNesting
<1>9. ParseTree = f
    <2>1. ParseTree = [q \in Queries |-> ParseTree[q]]
        BY <1>6
    <2>2. f = [q \in Queries |-> f[q]]
        BY <1>1
    <2> QED
        BY <1>8, <2>1, <2>2
<1> QED
    BY <1>1, <1>7, <1>9

LEMMA SaysIs ==
    /\ Says \in [Queries -> [Rows -> BOOLEAN]]
    /\ \A q \in Queries : Says[q] = SaysFrom(q, Says)
<1> DEFINE Body(f) == [q \in Queries |-> SaysFrom(q, f)]
<1>1. PICK M : M = [Queries -> [Rows -> BOOLEAN]]
    OBVIOUS
<1>2. PICK step : step = [f \in M |-> Body(f)]
    OBVIOUS
<1>3. Recursive(step, M, Queries, [Rows -> BOOLEAN], Nesting)
    <2>1. ASSUME NEW f \in M, NEW q \in Queries
          PROVE  SaysFrom(q, f) \in [Rows -> BOOLEAN]
        BY DEF SaysFrom
    <2>2. step \in [M -> M]
        BY <1>1, <1>2, <2>1
    <2>3. LooksDown(step, M, Queries, Nesting)
        <3>1. ASSUME NEW f \in M, NEW g \in M, NEW q \in Queries,
                     \A p \in Queries : Nesting[p] < Nesting[q] => f[p] = g[p]
              PROVE  step[f][q] = step[g][q]
            <4>1. SaysFrom(q, f) = SaysFrom(q, g)
                BY <3>1, SaysLooksDown DEF AgreeBelow
            <4> QED
                BY <1>2, <4>1
        <3> QED
            BY <3>1 DEF LooksDown
    <2>4. [Rows -> BOOLEAN] # {}
        <3>1. [row \in Rows |-> TRUE] \in [Rows -> BOOLEAN]
            OBVIOUS
        <3> QED
            BY <3>1
    <2> QED
        BY <1>1, <2>2, <2>3, <2>4, NestingAssumption DEF Recursive
<1>4. PICK f \in M : f = Body(f)
    BY <1>2, <1>3, Recursion
<1>5. Says = CHOOSE g : g = Body(g)
    BY DEF Says, SaysFrom
<1>6. Says = Body(Says)
    <2>1. \E g : g = Body(g)
        BY <1>4
    <2> HIDE DEF Body
    <2> QED
        BY <1>5, <2>1
<1>7. \A q \in Queries : Says[q] = SaysFrom(q, Says) /\ f[q] = SaysFrom(q, f)
    BY <1>4, <1>6
<1>8. \A q \in Queries : Says[q] = f[q]
    <2>1. ASSUME NEW q \in Queries, AgreeBelow(Says, f, q)
          PROVE  Says[q] = f[q]
        BY <1>7, <2>1, SaysLooksDown
    <2> HIDE DEF Body
    <2> QED
        BY <2>1, SameByNesting
<1>9. Says = f
    <2>1. Says = [q \in Queries |-> Says[q]]
        BY <1>6
    <2>2. f = [q \in Queries |-> f[q]]
        BY <1>1
    <2> QED
        BY <1>8, <2>1, <2>2
<1> QED
    BY <1>1, <1>7, <1>9

LEMMA VoidIs ==
    /\ Void \in [Queries -> BOOLEAN]
    /\ \A q \in Queries : Void[q] = VoidFrom(q, Void)
<1> DEFINE Body(f) == [q \in Queries |-> VoidFrom(q, f)]
<1>1. PICK M : M = [Queries -> BOOLEAN]
    OBVIOUS
<1>2. PICK step : step = [f \in M |-> Body(f)]
    OBVIOUS
<1>3. Recursive(step, M, Queries, BOOLEAN, Nesting)
    <2>1. ASSUME NEW f \in M, NEW q \in Queries
          PROVE  VoidFrom(q, f) \in BOOLEAN
        BY DEF VoidFrom
    <2>2. step \in [M -> M]
        BY <1>1, <1>2, <2>1
    <2>3. LooksDown(step, M, Queries, Nesting)
        <3>1. ASSUME NEW f \in M, NEW g \in M, NEW q \in Queries,
                     \A p \in Queries : Nesting[p] < Nesting[q] => f[p] = g[p]
              PROVE  step[f][q] = step[g][q]
            <4>1. VoidFrom(q, f) = VoidFrom(q, g)
                BY <3>1, VoidLooksDown DEF AgreeBelow
            <4> QED
                BY <1>2, <4>1
        <3> QED
            BY <3>1 DEF LooksDown
    <2>4. BOOLEAN # {}
        OBVIOUS
    <2> QED
        BY <1>1, <2>2, <2>3, <2>4, NestingAssumption DEF Recursive
<1>4. PICK f \in M : f = Body(f)
    BY <1>2, <1>3, Recursion
<1>5. Void = CHOOSE g : g = Body(g)
    BY DEF Void, VoidFrom
<1>6. Void = Body(Void)
    <2>1. \E g : g = Body(g)
        BY <1>4
    <2> HIDE DEF Body
    <2> QED
        BY <1>5, <2>1
<1>7. \A q \in Queries : Void[q] = VoidFrom(q, Void) /\ f[q] = VoidFrom(q, f)
    BY <1>4, <1>6
<1>8. \A q \in Queries : Void[q] = f[q]
    <2>1. ASSUME NEW q \in Queries, AgreeBelow(Void, f, q)
          PROVE  Void[q] = f[q]
        BY <1>7, <2>1, VoidLooksDown
    <2> HIDE DEF Body
    <2> QED
        BY <2>1, SameByNesting
<1>9. Void = f
    <2>1. Void = [q \in Queries |-> Void[q]]
        BY <1>6
    <2>2. f = [q \in Queries |-> f[q]]
        BY <1>1
    <2> QED
        BY <1>8, <2>1, <2>2
<1> QED
    BY <1>1, <1>7, <1>9

LEMMA PlainIs ==
    /\ Plain \in [Queries -> [Rows -> BOOLEAN]]
    /\ \A q \in Queries : Plain[q] = PlainFrom(q, Plain)
<1> DEFINE Body(f) == [q \in Queries |-> PlainFrom(q, f)]
<1>1. PICK M : M = [Queries -> [Rows -> BOOLEAN]]
    OBVIOUS
<1>2. PICK step : step = [f \in M |-> Body(f)]
    OBVIOUS
<1>3. Recursive(step, M, Queries, [Rows -> BOOLEAN], Nesting)
    <2>1. ASSUME NEW f \in M, NEW q \in Queries
          PROVE  PlainFrom(q, f) \in [Rows -> BOOLEAN]
        BY DEF PlainFrom
    <2>2. step \in [M -> M]
        BY <1>1, <1>2, <2>1
    <2>3. LooksDown(step, M, Queries, Nesting)
        <3>1. ASSUME NEW f \in M, NEW g \in M, NEW q \in Queries,
                     \A p \in Queries : Nesting[p] < Nesting[q] => f[p] = g[p]
              PROVE  step[f][q] = step[g][q]
            <4>1. PlainFrom(q, f) = PlainFrom(q, g)
                BY <3>1, PlainLooksDown DEF AgreeBelow
            <4> QED
                BY <1>2, <4>1
        <3> QED
            BY <3>1 DEF LooksDown
    <2>4. [Rows -> BOOLEAN] # {}
        <3>1. [row \in Rows |-> TRUE] \in [Rows -> BOOLEAN]
            OBVIOUS
        <3> QED
            BY <3>1
    <2> QED
        BY <1>1, <2>2, <2>3, <2>4, NestingAssumption DEF Recursive
<1>4. PICK f \in M : f = Body(f)
    BY <1>2, <1>3, Recursion
<1>5. Plain = CHOOSE g : g = Body(g)
    BY DEF Plain, PlainFrom
<1>6. Plain = Body(Plain)
    <2>1. \E g : g = Body(g)
        BY <1>4
    <2> HIDE DEF Body
    <2> QED
        BY <1>5, <2>1
<1>7. \A q \in Queries : Plain[q] = PlainFrom(q, Plain) /\ f[q] = PlainFrom(q, f)
    BY <1>4, <1>6
<1>8. \A q \in Queries : Plain[q] = f[q]
    <2>1. ASSUME NEW q \in Queries, AgreeBelow(Plain, f, q)
          PROVE  Plain[q] = f[q]
        BY <1>7, <2>1, PlainLooksDown
    <2> HIDE DEF Body
    <2> QED
        BY <2>1, SameByNesting
<1>9. Plain = f
    <2>1. Plain = [q \in Queries |-> Plain[q]]
        BY <1>6
    <2>2. f = [q \in Queries |-> f[q]]
        BY <1>1
    <2> QED
        BY <1>8, <2>1, <2>2
<1> QED
    BY <1>1, <1>7, <1>9

\* The criteria of a query one after the other.
Climbs(S, q) ==
    /\ q # Everything => 1 \in S
    /\ \A m \in S : m + 1 \in DOMAIN q => m + 1 \in S

LEMMA AlongQuery ==
    ASSUME NEW q \in Queries, NEW S \in SUBSET DOMAIN q, Climbs(S, q)
    PROVE  S = DOMAIN q
<1> DEFINE T == {n \in Nat : n \in DOMAIN q => n \in S}
<1>1. DOMAIN q = 1 .. Len(q) /\ Len(q) \in Nat
    BY QueriesAssumption
<1>2. 0 \in T
    BY <1>1
<1>3. ASSUME NEW n \in T
      PROVE  n + 1 \in T
    <2> SUFFICES ASSUME n + 1 \in DOMAIN q
                 PROVE  n + 1 \in S
        OBVIOUS
    <2>1. CASE n = 0
        BY <1>1, <2>1 DEF Climbs, Everything
    <2>2. CASE n # 0
        <3>1. n \in DOMAIN q
            BY <1>1, <2>2
        <3> QED
            BY <3>1 DEF Climbs
    <2> QED
        BY <2>1, <2>2
<1>4. T = Nat
    <2>1. T \in SUBSET Nat
        OBVIOUS
    <2> HIDE DEF T
    <2> QED
        BY <1>2, <1>3, <2>1, ByInduction
<1>5. \A i \in DOMAIN q : i \in S
    <2>1. \A i \in DOMAIN q : i \in T
        BY <1>1, <1>4
    <2> QED
        BY <2>1
<1> QED
    BY <1>5

\* The nodes of the criteria of a query, and those of its beginnings.
Visited(q) == [i \in DOMAIN q |-> Visit(q[i], ParseTree)]
UpTo(q) == Combined(q, Visited(q))

\* How the tree of a query comes about.
Grows(q, up, nodes) ==
    /\ DOMAIN q = 1 .. Len(q) /\ Len(q) \in Nat \ {0} /\ 1 \in DOMAIN q
    /\ nodes \in [DOMAIN q -> Nodes] /\ up \in [DOMAIN q -> Nodes]
    /\ \A i \in DOMAIN q : nodes[i] = Visit(q[i], ParseTree)
    /\ up[1] = nodes[1]
    /\ \A m \in DOMAIN q :
          m + 1 \in DOMAIN q => up[m + 1] = Chained(up[m], q[m + 1].op, nodes[m + 1])
    /\ ParseTree[q] = up[Len(q)]

LEMMA TreeGrows ==
    ASSUME NEW q \in Queries, q # Everything
    PROVE  Grows(q, UpTo(q), Visited(q))
<1>1. PICK nodes : nodes = Visited(q)
    OBVIOUS
<1>2. PICK up : up = UpTo(q)
    OBVIOUS
<1>3. DOMAIN q = 1 .. Len(q) /\ Len(q) \in Nat \ {0} /\ 1 \in DOMAIN q
    BY QueriesAssumption DEF Everything
<1>4. \A i \in DOMAIN q : nodes[i] = Visit(q[i], ParseTree) /\ nodes[i] \in Nodes
    BY <1>1, ParseTreeIs, VisitType DEF Visited
<1>5. nodes \in [DOMAIN q -> Nodes]
    BY <1>1, <1>4 DEF Visited
<1>6. up = Combined(q, nodes)
    BY <1>1, <1>2 DEF UpTo
<1>7. up \in [DOMAIN q -> Nodes] /\ \A i \in DOMAIN q : up[i] = ChainFrom(q, nodes, up, i)
    BY <1>5, <1>6, CombinedIs
<1>8. up[1] = nodes[1]
    BY <1>3, <1>7 DEF ChainFrom
<1>9. ASSUME NEW m \in DOMAIN q, m + 1 \in DOMAIN q
      PROVE  up[m + 1] = Chained(up[m], q[m + 1].op, nodes[m + 1])
    <2>1. m + 1 # 1 /\ (m + 1) - 1 = m
        BY <1>3
    <2> QED
        BY <1>7, <1>9, <2>1 DEF ChainFrom
<1>10. ParseTree[q] = up[Len(q)]
    <2>1. ParseTree[q] = TreeFrom(q, ParseTree)
        BY ParseTreeIs
    <2> QED
        BY <1>2, <2>1 DEF TreeFrom, UpTo, Visited
<1> QED
    BY <1>1, <1>2, <1>3, <1>4, <1>5, <1>7, <1>8, <1>9, <1>10 DEF Grows

\* The text of a query is empty if it is void.
LEMMA JoinEmpty ==
    ASSUME NEW t \in Texts, NEW u \in Texts, NEW keyword
    PROVE  Join(keyword, t, u) = NoText <=> t = NoText /\ u = NoText
<1>1. \A w \in Texts : w = NoText <=> Len(w) = 0
    BY DEF NoText, Texts
<1>2. Len(t) \in Nat /\ Len(u) \in Nat
    BY DEF Texts
<1>3. Or(t, u) = NoText <=> t = NoText /\ u = NoText
    <2>1. Or(t, u) \in Texts /\ Len(Or(t, u)) = Len(t) + Len(u)
        BY OrIs DEF Or, IsOr
    <2> QED
        BY <1>1, <1>2, <2>1
<1>4. And(t, u) = NoText <=> t = NoText /\ u = NoText
    <2>1. CASE t = NoText \/ u = NoText
        BY <2>1 DEF And
    <2>2. CASE t # NoText /\ u # NoText
        <3>1. PICK w : w = And(t, u)
            OBVIOUS
        <3>2. w \in Texts /\ Len(w) = (Len(t) + Len(u)) - 1
            BY <2>2, <3>1, AndIs DEF IsAnd
        <3>3. Len(t) > 0 /\ Len(u) > 0
            BY <1>1, <1>2, <2>2
        <3>4. Len(w) # 0
            BY <1>2, <3>2, <3>3
        <3> QED
            BY <1>1, <2>2, <3>1, <3>2, <3>4
    <2> QED
        BY <2>1, <2>2
<1> QED
    BY <1>3, <1>4 DEF Join

LEMMA RangeParts ==
    ASSUME NEW c, c.of \in Ranges, c.not \in BOOLEAN
    PROVE  \E t, u : /\ << t >> \in Texts /\ << u >> \in Texts
                     /\ t = Condition(c.of, IF c.not /\ c.of = "baseline_date" THEN "<" ELSE ">=", c.value)
                     /\ u = Condition(c.of, IF c.not /\ c.of = "baseline_date" THEN ">" ELSE "<=", c.value)
                     /\ c.not => RangeNode(c) = [is |-> "OR", text |-> << t, u >>]
                     /\ ~c.not => RangeNode(c) = [is |-> "AND", text |-> << t \cap u >>]
<1>1. PICK t : t = Condition(c.of, IF c.not /\ c.of = "baseline_date" THEN "<" ELSE ">=", c.value)
    OBVIOUS
<1>2. PICK u : u = Condition(c.of, IF c.not /\ c.of = "baseline_date" THEN ">" ELSE "<=", c.value)
    OBVIOUS
<1>3. << t >> \in Texts /\ << u >> \in Texts
    BY <1>1, <1>2, ConditionType
<1>4. PICK k : k = IF c.not THEN Inverted["AND"] ELSE "AND"
    OBVIOUS
<1>5. RangeNode(c) = [is |-> k, text |-> Join(k, << t >>, << u >>)]
    BY <1>1, <1>2, <1>4 DEF RangeNode, Node
<1>6. k = IF c.not THEN "OR" ELSE "AND"
    BY <1>4 DEF Inverted
<1>7. Or(<< t >>, << u >>) = << t, u >>
    <2>1. PICK a : a = << t >>
        OBVIOUS
    <2>2. PICK b : b = << u >>
        OBVIOUS
    <2>3. Len(a) = 1 /\ Len(b) = 1 /\ a[1] = t /\ b[1] = u
        BY <2>1, <2>2
    <2>4. PICK w : w = a \o b
        OBVIOUS
    <2>5. IsOr(w, a, b)
        BY <1>3, <2>1, <2>2, <2>4, OrIs
    <2>6. w \in Texts /\ Len(w) = 2 /\ w[1] = t /\ w[2] = u
        BY <2>3, <2>5 DEF IsOr
    <2>7. w = << t, u >>
        BY <2>6 DEF Texts
    <2> QED
        BY <2>1, <2>2, <2>4, <2>7 DEF Or
<1>8. And(<< t >>, << u >>) = << t \cap u >>
    <2>1. PICK w : w = And(<< t >>, << u >>)
        OBVIOUS
    <2>2. w \in Texts /\ Len(w) = 1 /\ w[1] = t \cap u
        <3>1. PICK a \in Texts : a = << t >>
            BY <1>3
        <3>2. PICK b \in Texts : b = << u >>
            BY <1>3
        <3>3. Len(a) = 1 /\ Len(b) = 1 /\ a[1] = t /\ b[1] = u /\ a # NoText /\ b # NoText
            BY <3>1, <3>2 DEF NoText
        <3>4. w = And(a, b)
            BY <2>1, <3>1, <3>2
        <3>5. /\ w \in Texts /\ Len(w) = (Len(a) + Len(b)) - 1
              /\ w[Len(a)] = a[Len(a)] \cap b[1]
            <4>1. IsAnd(w, a, b)
                BY <3>3, <3>4, AndIs
            <4> QED
                BY <4>1 DEF IsAnd
        <3> QED
            BY <3>3, <3>5
    <2>3. w = << t \cap u >>
        BY <2>2 DEF Texts
    <2> QED
        BY <2>1, <2>3
<1>9. c.not => RangeNode(c) = [is |-> "OR", text |-> << t, u >>]
    BY <1>5, <1>6, <1>7 DEF Join
<1>10. ~c.not => RangeNode(c) = [is |-> "AND", text |-> << t \cap u >>]
    BY <1>5, <1>6, <1>8 DEF Join
<1> QED
    BY <1>1, <1>2, <1>3, <1>9, <1>10

\* A criterion that refers to a void query.
VoidAt(q, i) == HasQuery(q[i]) /\ Void[QueryIn(q[i])]

\* What is joined by Chained.
LEMMA ChainedIs ==
    ASSUME NEW current \in Nodes, NEW node \in Nodes, NEW op, NEW k, k = Keyword(current, op)
    PROVE  /\ Chained(current, op, node).is = k
           /\ Chained(current, op, node).text = Join(k, current.text, node.text)
           /\ current.text \in Texts /\ node.text \in Texts
<1>1. Chained(current, op, node) = [is |-> k, text |-> Join(k, current.text, node.text)]
    BY DEF Chained, Node
<1> QED
    BY <1>1 DEF Nodes

\* What the criteria are looked at as that have no query of their own.
TermOf == {"name", "desc", "id", "group", "snapshot", "available_on", "baseline_status"}

LEMMA VisitIs ==
    ASSUME NEW q \in Queries, NEW i \in DOMAIN q, NEW c, c = q[i]
    PROVE  /\ c.not \in BOOLEAN /\ c.value # Null
           /\ HasQuery(c) => /\ Visit(c, ParseTree) = ParensNode(ParseTree[QueryIn(c)])
                             /\ QueryIn(c) \in Queries /\ c.of \notin Ranges
           /\ c.of \in Ranges => /\ Visit(c, ParseTree) = RangeNode(c)
                                 /\ c.value.from \in Nat /\ c.value.to \in Nat
           /\ ~HasQuery(c) /\ c.of \notin Ranges =>
                    Visit(c, ParseTree) = TermNode(c) /\ c.of \in TermOf
<1>1. /\ c.not \in BOOLEAN /\ c.value # Null
      /\ c.of \in {"name", "desc", "id", "group", "snapshot", "available_on",
                   "baseline_status", "parens"} \cup Ranges \cup References
      /\ c.of \in Ranges => c.value.from \in Nat /\ c.value.to \in Nat
      /\ HasQuery(c) => QueryIn(c) \in Queries
    BY QueriesAssumption
<1>2. HasQuery(c) <=> c.of = "parens" \/ c.of \in References
    BY DEF HasQuery
<1>3. c.of = "parens" => Visit(c, ParseTree) = ParensNode(ParseTree[QueryIn(c)])
    BY DEF Visit, References, Ranges
<1>4. c.of \in References => Visit(c, ParseTree) = ParensNode(ParseTree[QueryIn(c)])
    BY DEF Visit, Expanded, References, Ranges
<1>5. c.of \in Ranges => Visit(c, ParseTree) = RangeNode(c) /\ ~HasQuery(c)
    BY <1>2 DEF Visit, References, Ranges
<1>6. ~HasQuery(c) /\ c.of \notin Ranges =>
          Visit(c, ParseTree) = TermNode(c) /\ c.of \in TermOf
    BY <1>1, <1>2 DEF Visit, TermOf
<1> QED
    BY <1>1, <1>2, <1>3, <1>4, <1>5, <1>6

LEMMA NodeEmpty ==
    ASSUME NEW q \in Queries, NEW i \in DOMAIN q,
           HasQuery(q[i]) => (ParseTree[QueryIn(q[i])].text = NoText <=> Void[QueryIn(q[i])])
    PROVE  Visit(q[i], ParseTree).text = NoText <=> VoidAt(q, i)
<1>1. PICK c : c = q[i]
    OBVIOUS
<1>2. PICK v : v = Visit(c, ParseTree)
    OBVIOUS
<1>3. CASE HasQuery(c)
    <2>1. PICK node : node = ParseTree[QueryIn(c)]
        OBVIOUS
    <2>2. v = ParensNode(node)
        BY <1>1, <1>2, <1>3, <2>1, VisitIs
    <2>3. v.text = Parens(node.text)
        BY <2>2 DEF ParensNode, Node
    <2>4. Parens(node.text) = NoText <=> node.text = NoText
        BY DEF Parens, NoText
    <2> QED
        BY <1>1, <1>2, <1>3, <2>1, <2>3, <2>4 DEF VoidAt
<1>4. CASE c.of \in Ranges
    <2>1. c.not \in BOOLEAN /\ v = RangeNode(c) /\ ~HasQuery(c)
        BY <1>1, <1>2, <1>4, VisitIs
    <2>2. PICK t, u : /\ c.not => RangeNode(c) = [is |-> "OR", text |-> << t, u >>]
                      /\ ~c.not => RangeNode(c) = [is |-> "AND", text |-> << t \cap u >>]
        BY <1>4, <2>1, RangeParts
    <2>3. v.text # NoText
        BY <2>1, <2>2 DEF NoText
    <2> QED
        BY <1>1, <1>2, <2>1, <2>3 DEF VoidAt
<1>5. CASE ~HasQuery(c) /\ c.of \notin Ranges
    <2>1. v = TermNode(c)
        BY <1>1, <1>2, <1>5, VisitIs
    <2>2. v.text # NoText
        BY <2>1 DEF TermNode, Node, NoText
    <2> QED
        BY <1>1, <1>2, <1>5, <2>2 DEF VoidAt
<1> QED
    BY <1>3, <1>4, <1>5

Empty == [q \in Queries |-> ParseTree[q].text = NoText]

LEMMA EmptyBelow ==
    ASSUME NEW q \in Queries, AgreeBelow(Empty, Void, q)
    PROVE  Empty[q] = Void[q]
<1>1. Void[q] \in BOOLEAN /\ (Void[q] <=> \A i \in DOMAIN q : VoidAt(q, i))
    BY VoidIs DEF VoidFrom, VoidAt
<1>2. Empty[q] = (ParseTree[q].text = NoText)
    BY DEF Empty
<1>3. CASE q = Everything
    <2>1. ParseTree[q] = Node("nil", NoText)
        BY <1>3, ParseTreeIs DEF TreeFrom
    <2>2. Void[q]
        BY <1>1, <1>3 DEF Everything
    <2>3. Empty[q]
        <3>1. ParseTree[q].text = NoText
            BY <2>1 DEF Node
        <3> QED
            BY <1>2, <3>1
    <2> QED
        BY <1>1, <1>2, <2>2, <2>3
<1>4. CASE q # Everything
    <2>1. PICK up, nodes : Grows(q, up, nodes)
        BY <1>4, TreeGrows
    <2>2. ASSUME NEW i \in DOMAIN q
          PROVE  nodes[i].text = NoText <=> VoidAt(q, i)
        <3>1. HasQuery(q[i]) => (ParseTree[QueryIn(q[i])].text = NoText <=> Void[QueryIn(q[i])])
            <4>1. HasQuery(q[i]) => Empty[QueryIn(q[i])] = Void[QueryIn(q[i])]
                BY InnerAgree
            <4>2. HasQuery(q[i]) => QueryIn(q[i]) \in Queries
                BY QueriesAssumption
            <4> QED
                BY <4>1, <4>2, VoidIs DEF Empty
        <3> QED
            BY <2>1, <3>1, NodeEmpty DEF Grows
    <2> DEFINE S == {m \in DOMAIN q : up[m].text = NoText <=> \A i \in 1 .. m : VoidAt(q, i)}
    <2>3. Climbs(S, q)
        <3>1. 1 \in S
            <4>1. 1 \in DOMAIN q /\ up[1] = nodes[1]
                BY <2>1 DEF Grows
            <4> QED
                BY <2>2, <4>1
        <3>2. ASSUME NEW m \in S, m + 1 \in DOMAIN q
              PROVE  m + 1 \in S
            <4>1. /\ up[m] \in Nodes /\ nodes[m + 1] \in Nodes /\ m \in Nat
                  /\ up[m + 1] = Chained(up[m], q[m + 1].op, nodes[m + 1])
                BY <2>1, <3>2 DEF Grows
            <4>2. PICK k : k = Keyword(up[m], q[m + 1].op)
                OBVIOUS
            <4>3. /\ up[m + 1].text = Join(k, up[m].text, nodes[m + 1].text)
                  /\ up[m].text \in Texts /\ nodes[m + 1].text \in Texts
                BY <4>1, <4>2, ChainedIs
            <4>4. up[m + 1].text = NoText <=> up[m].text = NoText /\ nodes[m + 1].text = NoText
                BY <4>3, JoinEmpty
            <4>5. \A i : i \in 1 .. m + 1 <=> i \in 1 .. m \/ i = m + 1
                BY <4>1
            <4> QED
                BY <2>2, <3>2, <4>4, <4>5
        <3> QED
            BY <3>1, <3>2 DEF Climbs
    <2>4. Len(q) \in S
        <3>1. S = DOMAIN q
            <4>1. S \in SUBSET DOMAIN q
                OBVIOUS
            <4> HIDE DEF S
            <4> QED
                BY <2>3, <4>1, AlongQuery
        <3>2. Len(q) \in DOMAIN q
            BY <2>1 DEF Grows
        <3> QED
            BY <3>1, <3>2
    <2> QED
        BY <1>1, <1>2, <2>1, <2>4 DEF Grows
<1> QED
    BY <1>3, <1>4

LEMMA EmptyIsVoid == \A q \in Queries : ParseTree[q].text = NoText <=> Void[q]
<1>1. \A q \in Queries : Empty[q] = Void[q]
    BY EmptyBelow, SameByNesting
<1> QED
    BY <1>1, VoidIs DEF Empty

LEMMA FoundIs ==
    ASSUME NEW t \in Texts, NEW row
    PROVE  row \in Found(t) <=> \E k \in 1 .. Len(t) : row \in t[k]
<1>1. DOMAIN t = 1 .. Len(t)
    BY DEF Texts
<1> QED
    BY <1>1 DEF Found

LEMMA FoundOne == ASSUME NEW x, NEW row PROVE row \in Found(<< x >>) <=> row \in x
<1>1. DOMAIN << x >> = {1}
    OBVIOUS
<1> QED
    BY <1>1 DEF Found

LEMMA FoundTwo ==
    ASSUME NEW x, NEW y, NEW row
    PROVE  row \in Found(<< x, y >>) <=> row \in x \/ row \in y
<1>1. PICK t : t = << x, y >>
    OBVIOUS
<1>2. DOMAIN t = {1, 2} /\ t[1] = x /\ t[2] = y
    BY <1>1
<1>3. row \in Found(t) <=> row \in t[1] \/ row \in t[2]
    BY <1>2 DEF Found
<1> QED
    BY <1>1, <1>2, <1>3

\* What a criterion has to be like, to be looked at as a term or a range.
Clear(c, row) ==
    /\ c.not \in BOOLEAN /\ c.value # Null
    /\ c.not => Definite(c, row)

LEMMA MeetsIs ==
    ASSUME NEW c, NEW row, NEW says, c.not \in BOOLEAN
    PROVE  /\ c.not => (Meets(c, row, says) <=> ~About(c, row, says))
           /\ ~c.not => (Meets(c, row, says) <=> About(c, row, says))
<1>1. About(c, row, says) \in BOOLEAN
    BY DEF About
<1> QED
    BY <1>1 DEF Meets

LEMMA TermReads ==
    ASSUME NEW c, NEW row \in Rows, Clear(c, row), c.of \in TermOf
    PROVE  row \in Found(TermNode(c).text) <=> Meets(c, row, Says)
<1>1. PICK op : op = IF c.not THEN Inverted[Operator(c.of)] ELSE Operator(c.of)
    OBVIOUS
<1>2. row \in Found(TermNode(c).text) <=> row \in Condition(c.of, op, c.value)
    <2>1. TermNode(c).text = << Condition(c.of, op, c.value) >>
        BY <1>1 DEF TermNode, Node
    <2> QED
        BY <2>1, FoundOne
<1>3. c.not \in BOOLEAN /\ c.value # Null /\ (c.not => Definite(c, row)) /\ ~HasQuery(c)
    BY DEF Clear, HasQuery, References, TermOf
<1>4. row.key # Null /\ Null \notin row.groups /\ Null \notin row.snapshots
    BY RowsAssumption
<1>12. /\ c.not => (Meets(c, row, Says) <=> ~About(c, row, Says))
       /\ ~c.not => (Meets(c, row, Says) <=> About(c, row, Says))
    BY <1>3, MeetsIs
<1>5. CASE c.of = "name"
    <2>1. op = IF c.not THEN "NOT LIKE" ELSE "LIKE"
        BY <1>1, <1>5 DEF Inverted, Operator
    <2>2. row \in Condition(c.of, op, c.value) <=> SomeLike(row, {"name", "key"}, op, c.value)
        BY <1>5 DEF Condition
    <2>3. About(c, row, Says) <=> \E k \in {"name", "key"} : c.value \in row.text[k]
        BY <1>3, <1>5 DEF About
    <2>4. c.not => row.text["name"] = row.text["key"]
        BY <1>3, <1>5 DEF Definite
    <2> QED
        BY <1>2, <1>3, <1>12, <2>1, <2>2, <2>3, <2>4 DEF SomeLike
<1>6. CASE c.of = "desc"
    <2>1. op = IF c.not THEN "NOT LIKE" ELSE "LIKE"
        BY <1>1, <1>6 DEF Inverted, Operator
    <2>2. row \in Condition(c.of, op, c.value) <=> SomeLike(row, {"name", "key", "desc"}, op, c.value)
        BY <1>6 DEF Condition
    <2>3. About(c, row, Says) <=> \E k \in {"name", "key", "desc"} : c.value \in row.text[k]
        BY <1>3, <1>6 DEF About
    <2>4. c.not => row.text["name"] = row.text["key"] /\ row.text["desc"] = row.text["key"]
        BY <1>3, <1>6 DEF Definite
    <2> QED
        BY <1>2, <1>3, <1>12, <2>1, <2>2, <2>3, <2>4 DEF SomeLike
<1>7. CASE c.of = "id"
    <2>1. op = IF c.not THEN "!=" ELSE "="
        BY <1>1, <1>7 DEF Inverted, Operator
    <2>2. row \in Condition(c.of, op, c.value) <=> Compared(row.key, op, c.value)
        BY <1>7 DEF Condition
    <2>3. About(c, row, Says) <=> row.key = c.value
        BY <1>3, <1>7 DEF About
    <2> QED
        BY <1>2, <1>3, <1>12, <1>4, <2>1, <2>2, <2>3 DEF Compared
<1>8. CASE c.of = "group"
    <2>1. op = IF c.not THEN "!=" ELSE "="
        BY <1>1, <1>8 DEF Inverted, Operator
    <2>2. row \in Condition(c.of, op, c.value) <=> SomeEqual(row.groups, op, c.value)
        BY <1>8 DEF Condition
    <2>3. About(c, row, Says) <=> c.value \in row.groups
        BY <1>3, <1>8 DEF About
    <2>4. c.not => \E g \in row.groups : row.groups = {g}
        BY <1>3, <1>8 DEF Definite
    <2> QED
        BY <1>2, <1>3, <1>12, <1>4, <2>1, <2>2, <2>3, <2>4 DEF SomeEqual, Compared
<1>9. CASE c.of = "snapshot"
    <2>1. op = IF c.not THEN "!=" ELSE "="
        BY <1>1, <1>9 DEF Inverted, Operator
    <2>2. row \in Condition(c.of, op, c.value) <=> SomeEqual(row.snapshots, op, c.value)
        BY <1>9 DEF Condition
    <2>3. About(c, row, Says) <=> c.value \in row.snapshots
        BY <1>3, <1>9 DEF About
    <2>4. c.not => \E s \in row.snapshots : row.snapshots = {s}
        BY <1>3, <1>9 DEF Definite
    <2> QED
        BY <1>2, <1>3, <1>12, <1>4, <2>1, <2>2, <2>3, <2>4 DEF SomeEqual, Compared
<1>10. CASE c.of = "available_on"
    <2>1. op = IF c.not THEN "!=" ELSE "="
        BY <1>1, <1>10 DEF Inverted, Operator
    <2>2. row \in Condition(c.of, op, c.value) <=> ((row.release # Null) <=> (op = "="))
        BY <1>10 DEF Condition
    <2>3. About(c, row, Says) <=> row.release # Null
        BY <1>3, <1>10 DEF About
    <2> QED
        BY <1>2, <1>3, <1>12, <2>1, <2>2, <2>3
<1>11. CASE c.of = "baseline_status"
    <2>1. op = IF c.not THEN "!=" ELSE "="
        BY <1>1, <1>11 DEF Inverted, Operator
    <2>2. row \in Condition(c.of, op, c.value) <=> Compared(row.status, op, c.value)
        BY <1>11 DEF Condition
    <2>3. About(c, row, Says) <=> row.status = c.value
        BY <1>3, <1>11 DEF About
    <2>4. c.not => row.status # Null
        BY <1>3, <1>11 DEF Definite
    <2> QED
        BY <1>2, <1>3, <1>12, <2>1, <2>2, <2>3, <2>4 DEF Compared
<1> QED
    BY <1>5, <1>6, <1>7, <1>8, <1>9, <1>10, <1>11 DEF TermOf

LEMMA RangeReads ==
    ASSUME NEW c, NEW row \in Rows, Clear(c, row), c.of \in Ranges,
           c.value.from \in Nat, c.value.to \in Nat
    PROVE  row \in Found(RangeNode(c).text) <=> Meets(c, row, Says)
<1>1. c.not \in BOOLEAN /\ (c.not => Definite(c, row)) /\ ~HasQuery(c)
    BY DEF Clear, HasQuery, References, Ranges
<1>2. PICK date : date = IF c.of = "baseline_date" THEN row.low ELSE row.release
    OBVIOUS
<1>3. date # Null => date \in Nat
    BY <1>2, RowsAssumption
<1>4. About(c, row, Says) <=> Within(date, c.value)
    BY <1>1, <1>2 DEF About, Ranges
<1>5. c.not => c.of = "baseline_date" /\ date # Null
    BY <1>1, <1>2 DEF Definite, Ranges
<1>6. PICK t, u :
        /\ t = Condition(c.of, IF c.not /\ c.of = "baseline_date" THEN "<" ELSE ">=", c.value)
        /\ u = Condition(c.of, IF c.not /\ c.of = "baseline_date" THEN ">" ELSE "<=", c.value)
        /\ c.not => RangeNode(c) = [is |-> "OR", text |-> << t, u >>]
        /\ ~c.not => RangeNode(c) = [is |-> "AND", text |-> << t \cap u >>]
    BY <1>1, RangeParts
<1>7. \A op : row \in Condition(c.of, op, c.value) <=> Compared(date, op, c.value)
    BY <1>2 DEF Condition, Ranges
<1>10. /\ c.not => (Meets(c, row, Says) <=> ~About(c, row, Says))
       /\ ~c.not => (Meets(c, row, Says) <=> About(c, row, Says))
    BY <1>1, MeetsIs
<1>8. CASE c.not
    <2>1. row \in Found(RangeNode(c).text) <=> row \in t \/ row \in u
        <3>1. RangeNode(c).text = << t, u >>
            BY <1>6, <1>8
        <3> QED
            BY <3>1, FoundTwo
    <2>2. /\ row \in t <=> Compared(date, "<", c.value)
          /\ row \in u <=> Compared(date, ">", c.value)
        BY <1>5, <1>6, <1>7, <1>8
    <2>3. Meets(c, row, Says) <=> ~Within(date, c.value)
        BY <1>4, <1>8, <1>10
    <2> QED
        BY <1>3, <1>5, <1>8, <2>1, <2>2, <2>3 DEF Compared, Within
<1>9. CASE ~c.not
    <2>1. row \in Found(RangeNode(c).text) <=> row \in t /\ row \in u
        <3>1. RangeNode(c).text = << t \cap u >>
            BY <1>6, <1>9
        <3>2. row \in Found(<< t \cap u >>) <=> row \in t \cap u
            BY FoundOne
        <3> QED
            BY <3>1, <3>2
    <2>2. /\ row \in t <=> Compared(date, ">=", c.value)
          /\ row \in u <=> Compared(date, "<=", c.value)
        BY <1>6, <1>7, <1>9
    <2>3. Meets(c, row, Says) <=> Within(date, c.value)
        BY <1>4, <1>9, <1>10
    <2> QED
        BY <1>3, <2>1, <2>2, <2>3 DEF Compared, Within
<1> QED
    BY <1>1, <1>8, <1>9

\* What Plain says of each criterion.
PlainAt(q, i, row) ==
    /\ JoinedAsRead(q, i)
    /\ q[i].not => Definite(q[i], row)
    /\ q[i].not /\ q[i].of = "baseline_date" => Len(q) = 1
    /\ HasQuery(q[i]) => Plain[QueryIn(q[i])][row]
    /\ VoidAt(q, i) => Starts(q) = {1}

LEMMA PlainSays ==
    ASSUME NEW q \in Queries, NEW row \in Rows, Plain[q][row]
    PROVE  \A i \in DOMAIN q : PlainAt(q, i, row)
<1>1. Plain[q][row] = PlainFrom(q, Plain)[row]
    BY PlainIs
<1> QED
    BY <1>1 DEF PlainFrom, PlainAt, VoidAt

\* A query is read as it says, or says everything where it has no text.
Reads(q, row) ==
    Plain[q][row] => /\ Void[q] => Says[q][row]
                     /\ ~Void[q] => (row \in Found(ParseTree[q].text) <=> Says[q][row])

NodeReads(q, i, row, node) ==
    /\ VoidAt(q, i) <=> node.text = NoText
    /\ VoidAt(q, i) => Meets(q[i], row, Says)
    /\ ~VoidAt(q, i) => (row \in Found(node.text) <=> Meets(q[i], row, Says))

LEMMA NodesRead ==
    ASSUME NEW q \in Queries, NEW i \in DOMAIN q, NEW row \in Rows, PlainAt(q, i, row),
           HasQuery(q[i]) => Reads(QueryIn(q[i]), row), NEW node, node = Visit(q[i], ParseTree)
    PROVE  NodeReads(q, i, row, node)
<1>1. PICK c : c = q[i]
    OBVIOUS
<1>2. VoidAt(q, i) <=> node.text = NoText
    <2>1. HasQuery(c) => QueryIn(c) \in Queries
        BY <1>1, QueriesAssumption
    <2>2. HasQuery(c) => (ParseTree[QueryIn(c)].text = NoText <=> Void[QueryIn(c)])
        BY <2>1, EmptyIsVoid
    <2> QED
        BY <1>1, <2>2, NodeEmpty
<1>3. c.not \in BOOLEAN /\ c.value # Null
    BY <1>1, VisitIs
<1>4. c.not => Definite(c, row)
    BY <1>1 DEF PlainAt
<1>5. CASE HasQuery(c)
    <2>1. PICK p \in Queries : p = QueryIn(c) /\ node = ParensNode(ParseTree[p])
        BY <1>1, <1>5, VisitIs
    <2>2. ~c.not
        <3>1. ~Definite(c, row)
            BY <1>5 DEF Definite, HasQuery, References
        <3> QED
            BY <1>4, <3>1
    <2>3. Meets(c, row, Says) <=> Says[p][row]
        <3>1. About(c, row, Says) <=> Says[p][row]
            BY <1>5, <2>1 DEF About, HasQuery, References
        <3>2. ~c.not => (Meets(c, row, Says) <=> About(c, row, Says))
            BY <1>3, MeetsIs
        <3> QED
            BY <2>2, <3>1, <3>2
    <2>4. Plain[p][row] /\ Reads(p, row)
        BY <1>1, <1>5, <2>1 DEF PlainAt
    <2>5. VoidAt(q, i) <=> Void[p]
        BY <1>1, <1>5, <2>1 DEF VoidAt
    <2>6. Void[p] => Meets(c, row, Says)
        BY <2>3, <2>4 DEF Reads
    <2>7. ~Void[p] => (row \in Found(node.text) <=> Meets(c, row, Says))
        <3>1. ~Void[p] => ParseTree[p].text # NoText
            BY EmptyIsVoid
        <3>2. node.text = Parens(ParseTree[p].text)
            BY <2>1 DEF ParensNode, Node
        <3>3. ~Void[p] => node.text = << Found(ParseTree[p].text) >>
            BY <3>1, <3>2 DEF Parens
        <3>4. ~Void[p] => (row \in Found(node.text) <=> row \in Found(ParseTree[p].text))
            BY <3>3, FoundOne
        <3> QED
            BY <2>3, <2>4, <3>4 DEF Reads
    <2> QED
        BY <1>1, <1>2, <2>5, <2>6, <2>7 DEF NodeReads
<1>6. CASE ~HasQuery(c)
    <2>1. Clear(c, row)
        BY <1>3, <1>4 DEF Clear
    <2>2. row \in Found(node.text) <=> Meets(c, row, Says)
        <3>1. CASE c.of \in Ranges
            <4>1. node = RangeNode(c) /\ c.value.from \in Nat /\ c.value.to \in Nat
                BY <1>1, <3>1, VisitIs
            <4> QED
                BY <2>1, <3>1, <4>1, RangeReads
        <3>2. CASE c.of \notin Ranges
            <4>1. node = TermNode(c) /\ c.of \in TermOf
                BY <1>1, <1>6, <3>2, VisitIs
            <4> QED
                BY <2>1, <4>1, TermReads
        <3> QED
            BY <3>1, <3>2
    <2>3. ~VoidAt(q, i)
        BY <1>1, <1>6 DEF VoidAt
    <2> QED
        BY <1>1, <1>2, <2>2, <2>3 DEF NodeReads
<1> QED
    BY <1>5, <1>6

\* A node has one alternative at most, but for that of a negated range.
Single(node) ==
    /\ node \in Nodes /\ node.is # "OR"
    /\ Len(node.text) \in {0, 1}

LEMMA ParensSingle ==
    ASSUME NEW node \in Nodes
    PROVE  Single(ParensNode(node))
<1>1. node.text \in Texts
    BY DEF Nodes
<1>2. PICK t : t = Parens(node.text)
    OBVIOUS
<1>3. t \in Texts
    BY <1>1, <1>2, ParensType
<1>4. Len(t) \in {0, 1}
    <2>1. CASE node.text = NoText
        BY <1>2, <2>1 DEF Parens, NoText
    <2>2. CASE node.text # NoText
        BY <1>2, <2>2 DEF Parens
    <2> QED
        BY <2>1, <2>2
<1>5. ParensNode(node) = [is |-> "parens", text |-> t]
    BY <1>2 DEF ParensNode, Node
<1> QED
    BY <1>3, <1>4, <1>5 DEF Single, Nodes, Keywords

LEMMA NodesSingle ==
    ASSUME NEW q \in Queries, NEW i \in DOMAIN q, ~(q[i].not /\ q[i].of \in Ranges),
           NEW node, node = Visit(q[i], ParseTree)
    PROVE  Single(node)
<1>1. PICK c : c = q[i]
    OBVIOUS
<1>2. node \in Nodes
    BY ParseTreeIs, VisitType
<1>3. CASE HasQuery(c)
    <2>1. PICK p \in Queries : p = QueryIn(c) /\ node = ParensNode(ParseTree[p])
        BY <1>1, <1>3, VisitIs
    <2>2. ParseTree[p] \in Nodes
        BY ParseTreeIs
    <2> QED
        BY <2>1, <2>2, ParensSingle
<1>4. CASE c.of \in Ranges
    <2>1. c.not \in BOOLEAN /\ node = RangeNode(c) /\ ~c.not
        BY <1>1, <1>4, VisitIs
    <2>2. PICK t, u : ~c.not => RangeNode(c) = [is |-> "AND", text |-> << t \cap u >>]
        BY <1>4, <2>1, RangeParts
    <2>3. node.is = "AND" /\ Len(node.text) = 1
        BY <2>1, <2>2
    <2> QED
        BY <1>2, <2>3 DEF Single
<1>5. CASE ~HasQuery(c) /\ c.of \notin Ranges
    <2>1. node = TermNode(c)
        BY <1>1, <1>5, VisitIs
    <2>2. node.is = "term" /\ Len(node.text) = 1
        BY <2>1 DEF TermNode, Node
    <2> QED
        BY <1>2, <2>2 DEF Single
<1> QED
    BY <1>3, <1>4, <1>5

(* The criteria up to m, in blocks that start at the positions of S, where those *)
(* of G are met.                                                                *)
StartsIn(S, i, m) == \E k \in S : i < k /\ k <= m

LastMet(S, G, m) ==
    \E i \in S : /\ i <= m /\ ~StartsIn(S, i, m)
                 /\ \A j \in i .. m : j \in G

EarlierMet(S, G, m) ==
    \E i \in S : /\ i <= m /\ StartsIn(S, i, m)
                 /\ \A j \in i .. m : ~StartsIn(S, i, j) => j \in G

LEMMA FirstBlock ==
    ASSUME NEW S \in SUBSET (Nat \ {0}), NEW G, 1 \in S
    PROVE  (LastMet(S, G, 1) <=> 1 \in G) /\ ~EarlierMet(S, G, 1)
<1>1. \A i \in S : i <= 1 <=> i = 1
    OBVIOUS
<1>2. ~StartsIn(S, 1, 1)
    BY DEF StartsIn
<1> QED
    BY <1>1, <1>2 DEF LastMet, EarlierMet

LEMMA StartsNext ==
    ASSUME NEW S \in SUBSET (Nat \ {0}), NEW i \in S, NEW m \in Nat, i <= m
    PROVE  /\ m + 1 \in S => StartsIn(S, i, m + 1)
           /\ m + 1 \notin S => (StartsIn(S, i, m + 1) <=> StartsIn(S, i, m))
<1>1. \A k \in S : k <= m + 1 <=> k <= m \/ k = m + 1
    OBVIOUS
<1>2. i < m + 1 /\ m + 1 <= m + 1
    OBVIOUS
<1> QED
    BY <1>1, <1>2 DEF StartsIn

LEMMA NewBlock ==
    ASSUME NEW S \in SUBSET (Nat \ {0}), NEW G, NEW m \in Nat, m + 1 \in S
    PROVE  /\ LastMet(S, G, m + 1) <=> m + 1 \in G
           /\ EarlierMet(S, G, m + 1) <=> LastMet(S, G, m) \/ EarlierMet(S, G, m)
<1>1. ~StartsIn(S, m + 1, m + 1)
    BY DEF StartsIn
<1>2. \A i \in S : i <= m + 1 <=> i <= m \/ i = m + 1
    OBVIOUS
<1>3. \A i \in S : i <= m => StartsIn(S, i, m + 1)
    BY StartsNext
<1>4. LastMet(S, G, m + 1) <=> m + 1 \in G
    <2>1. m + 1 \in G => LastMet(S, G, m + 1)
        BY <1>1 DEF LastMet
    <2>2. LastMet(S, G, m + 1) => m + 1 \in G
        BY <1>2, <1>3 DEF LastMet
    <2> QED
        BY <2>1, <2>2
<1>5. ASSUME NEW i \in S, i <= m
      PROVE  (\A j \in i .. m + 1 : ~StartsIn(S, i, j) => j \in G)
                <=> (\A j \in i .. m : ~StartsIn(S, i, j) => j \in G)
    <2>1. \A j : j \in i .. m + 1 <=> j \in i .. m \/ j = m + 1
        BY <1>5
    <2> QED
        BY <1>3, <1>5, <2>1
<1>6. EarlierMet(S, G, m + 1) <=>
          \E i \in S : i <= m /\ \A j \in i .. m : ~StartsIn(S, i, j) => j \in G
    BY <1>1, <1>2, <1>3, <1>5 DEF EarlierMet
<1>7. ASSUME NEW i \in S, i <= m, ~StartsIn(S, i, m)
      PROVE  \A j \in i .. m : ~StartsIn(S, i, j)
    BY <1>7 DEF StartsIn
<1>8. LastMet(S, G, m) \/ EarlierMet(S, G, m) <=>
          \E i \in S : i <= m /\ \A j \in i .. m : ~StartsIn(S, i, j) => j \in G
    BY <1>7 DEF LastMet, EarlierMet
<1> QED
    BY <1>4, <1>6, <1>8

LEMMA SameBlock ==
    ASSUME NEW S \in SUBSET (Nat \ {0}), NEW G, NEW m \in Nat, m + 1 \notin S
    PROVE  /\ LastMet(S, G, m + 1) <=> LastMet(S, G, m) /\ m + 1 \in G
           /\ EarlierMet(S, G, m + 1) <=> EarlierMet(S, G, m)
<1>1. \A i \in S : i <= m + 1 <=> i <= m
    OBVIOUS
<1>2. \A i \in S : i <= m => (StartsIn(S, i, m + 1) <=> StartsIn(S, i, m))
    BY StartsNext
<1>3. \A i \in S : i <= m => \A j : j \in i .. m + 1 <=> j \in i .. m \/ j = m + 1
    OBVIOUS
<1>4. LastMet(S, G, m + 1) <=> LastMet(S, G, m) /\ m + 1 \in G
    <2>1. ASSUME NEW i \in S
          PROVE  (i <= m + 1 /\ ~StartsIn(S, i, m + 1) /\ \A j \in i .. m + 1 : j \in G)
                 <=> (i <= m /\ ~StartsIn(S, i, m) /\ (\A j \in i .. m : j \in G) /\ m + 1 \in G)
        BY <1>1, <1>2, <1>3
    <2> QED
        BY <2>1 DEF LastMet
<1>5. EarlierMet(S, G, m + 1) <=> EarlierMet(S, G, m)
    <2>1. ASSUME NEW i \in S
          PROVE  (/\ i <= m + 1 /\ StartsIn(S, i, m + 1)
                  /\ \A j \in i .. m + 1 : ~StartsIn(S, i, j) => j \in G)
                 <=> (/\ i <= m /\ StartsIn(S, i, m)
                      /\ \A j \in i .. m : ~StartsIn(S, i, j) => j \in G)
        BY <1>1, <1>2, <1>3
    <2> QED
        BY <2>1 DEF EarlierMet
<1> QED
    BY <1>4, <1>5

MetAt(q, row) == {i \in DOMAIN q : Meets(q[i], row, Says)}

LEMMA StartsType ==
    ASSUME NEW q \in Queries, q # Everything
    PROVE  /\ Starts(q) \in SUBSET (Nat \ {0}) /\ 1 \in Starts(q)
           /\ \A m \in Nat \ {0} : m + 1 \in DOMAIN q =>
                  (m + 1 \in Starts(q) <=> q[m + 1].op = "OR")
<1>1. DOMAIN q = 1 .. Len(q) /\ Len(q) \in Nat \ {0} /\ 1 \in DOMAIN q
    BY QueriesAssumption DEF Everything
<1> QED
    BY <1>1 DEF Starts

LEMMA BlocksSay ==
    ASSUME NEW q \in Queries, q # Everything, NEW row \in Rows
    PROVE  Says[q][row] <=> LastMet(Starts(q), MetAt(q, row), Len(q))
                            \/ EarlierMet(Starts(q), MetAt(q, row), Len(q))
<1>1. DOMAIN q = 1 .. Len(q) /\ Len(q) \in Nat \ {0}
    BY QueriesAssumption DEF Everything
<1>2. PICK S : S = Starts(q)
    OBVIOUS
<1>3. S \in SUBSET (Nat \ {0}) /\ S \in SUBSET DOMAIN q
    BY <1>2, StartsType DEF Starts
<1>4. \A i \in S : \A j \in i .. Len(q) : i + 1 .. j \cap S = {} <=> ~StartsIn(S, i, j)
    <2> SUFFICES ASSUME NEW i \in S, NEW j \in i .. Len(q)
                 PROVE  i + 1 .. j \cap S = {} <=> ~StartsIn(S, i, j)
        OBVIOUS
    <2>1. i \in Nat /\ j \in Nat
        BY <1>1, <1>3
    <2>2. \A k \in S : k \in i + 1 .. j <=> i < k /\ k <= j
        BY <1>3, <2>1
    <2> QED
        BY <2>2 DEF StartsIn
<1>5. \A i \in S : \A j \in i .. Len(q) : j \in MetAt(q, row) <=> Meets(q[j], row, Says)
    BY <1>1, <1>3 DEF MetAt
<1>6. Says[q][row] <=> \E i \in S : \A j \in i .. Len(q) :
                            ~StartsIn(S, i, j) => j \in MetAt(q, row)
    <2>1. Says[q][row] = SaysFrom(q, Says)[row]
        BY SaysIs
    <2>2. SaysFrom(q, Says)[row] <=>
              \E i \in S : \A j \in i .. Len(q) : i + 1 .. j \cap S = {} => Meets(q[j], row, Says)
        BY <1>2 DEF SaysFrom
    <2> QED
        BY <1>4, <1>5, <2>1, <2>2
<1>7. \A i \in S : i <= Len(q)
    BY <1>1, <1>3
<1>8. ASSUME NEW i \in S, ~StartsIn(S, i, Len(q))
      PROVE  \A j \in i .. Len(q) : ~StartsIn(S, i, j)
    BY <1>1, <1>3, <1>8 DEF StartsIn
<1> QED
    BY <1>2, <1>6, <1>7, <1>8 DEF LastMet, EarlierMet

\* The last operator written is an OR.
LastIsOr(q, m) == \E j \in 2 .. m : q[j].op = "OR" /\ \A k \in j + 1 .. m : q[k].op = "space"

LEMMA KeywordIs ==
    ASSUME NEW q \in Queries, NEW m \in Nat \ {0}, m + 1 \in DOMAIN q, JoinedAsRead(q, m + 1),
           NEW current, current.is = "OR" <=> LastIsOr(q, m),
           NEW k, k = Keyword(current, q[m + 1].op)
    PROVE  /\ k \in {"AND", "OR"}
           /\ k = "OR" <=> q[m + 1].op = "OR"
           /\ k = "OR" <=> LastIsOr(q, m + 1)
<1>1. PICK op : op = q[m + 1].op
    OBVIOUS
<1>2. op \in {"AND", "OR", "space"}
    BY <1>1, QueriesAssumption
<1>3. \A j : j \in 2 .. m + 1 <=> j \in 2 .. m \/ j = m + 1
    OBVIOUS
<1>4. \A j \in 2 .. m : m + 1 \in j + 1 .. m + 1
    OBVIOUS
<1>5. CASE op = "OR"
    <2>1. LastIsOr(q, m + 1)
        <3>1. m + 1 \in 2 .. m + 1 /\ (m + 1) + 1 .. m + 1 = {}
            OBVIOUS
        <3> QED
            BY <1>1, <1>5, <3>1 DEF LastIsOr
    <2> QED
        BY <1>1, <1>5, <2>1 DEF Keyword
<1>6. CASE op = "AND"
    <2>1. ~LastIsOr(q, m + 1)
        BY <1>1, <1>3, <1>4, <1>6 DEF LastIsOr
    <2> QED
        BY <1>1, <1>6, <2>1 DEF Keyword
<1>7. CASE op = "space"
    <2>1. ~LastIsOr(q, m)
        <3> SUFFICES ASSUME NEW j \in 2 .. m, q[j].op = "OR",
                            \A l \in j + 1 .. m : q[l].op = "space"
                     PROVE  FALSE
            BY DEF LastIsOr
        <3>1. PICK written : written = {i \in 2 .. m + 1 : q[i].op # "space"}
            OBVIOUS
        <3>2. j \in written /\ m + 1 \notin written
            BY <1>1, <1>3, <1>7, <3>1
        <3>3. PICK i \in written : q[i].op = "AND" /\ \A l \in written : l <= i
            BY <3>1, <3>2 DEF JoinedAsRead
        <3>4. i \in 2 .. m /\ j <= i
            BY <1>3, <3>1, <3>2, <3>3
        <3>5. CASE i = j
            BY <3>3, <3>5
        <3>6. CASE i # j
            <4>1. i \in j + 1 .. m
                BY <3>4, <3>6
            <4> QED
                BY <3>3, <4>1
        <3> QED
            BY <3>5, <3>6
    <2>2. ~LastIsOr(q, m + 1)
        <3>1. \A j \in 2 .. m : \A l \in j + 1 .. m : l \in j + 1 .. m + 1
            OBVIOUS
        <3> QED
            BY <1>1, <1>3, <1>7, <2>1, <3>1 DEF LastIsOr
    <2>3. k = "AND"
        BY <1>1, <1>7, <2>1 DEF Keyword, IsKeyword
    <2> QED
        BY <1>1, <1>7, <2>2, <2>3
<1> QED
    BY <1>2, <1>5, <1>6, <1>7

\* The last alternative of a text finds a row, or one before it does.
LastShows(t, row) == row \in t[Len(t)]
EarlierShows(t, row) == \E k \in 1 .. Len(t) - 1 : row \in t[k]

LEMMA TextLength == ASSUME NEW t \in Texts PROVE Len(t) \in Nat /\ (t = NoText <=> Len(t) = 0)
BY DEF NoText, Texts

LEMMA ShowsFound ==
    ASSUME NEW t \in Texts, t # NoText, NEW row
    PROVE  row \in Found(t) <=> LastShows(t, row) \/ EarlierShows(t, row)
<1>1. Len(t) \in Nat \ {0}
    BY TextLength
<1>2. \A k : k \in 1 .. Len(t) <=> k \in 1 .. Len(t) - 1 \/ k = Len(t)
    BY <1>1
<1> QED
    BY <1>2, FoundIs DEF LastShows, EarlierShows

LEMMA OneShows ==
    ASSUME NEW t \in Texts, Len(t) = 1, NEW row
    PROVE  t # NoText /\ (LastShows(t, row) <=> row \in Found(t)) /\ ~EarlierShows(t, row)
<1>1. ~EarlierShows(t, row)
    BY DEF EarlierShows
<1>2. t # NoText
    BY TextLength
<1> QED
    BY <1>1, <1>2, ShowsFound

LEMMA OrShows ==
    ASSUME NEW t \in Texts, NEW u \in Texts, t # NoText, Len(u) = 1, NEW row, NEW w, w = Or(t, u)
    PROVE  /\ w # NoText
           /\ LastShows(w, row) <=> row \in Found(u)
           /\ EarlierShows(w, row) <=> LastShows(t, row) \/ EarlierShows(t, row)
<1>1. IsOr(w, t, u)
    BY OrIs DEF Or
<1>2. Len(t) \in Nat \ {0}
    BY TextLength
<1>3. w \in Texts /\ Len(w) = Len(t) + 1
    BY <1>1 DEF IsOr
<1>4. w[Len(w)] = u[1]
    BY <1>1, <1>3 DEF IsOr
<1>5. LastShows(w, row) <=> row \in Found(u)
    BY <1>4, OneShows DEF LastShows
<1>6. \A k : k \in 1 .. Len(w) - 1 <=> k \in 1 .. Len(t) - 1 \/ k = Len(t)
    BY <1>2, <1>3
<1>7. \A k \in 1 .. Len(t) : w[k] = t[k]
    BY <1>1 DEF IsOr
<1>8. EarlierShows(w, row) <=> LastShows(t, row) \/ EarlierShows(t, row)
    <2>1. \A k : k \in 1 .. Len(w) - 1 <=> k \in 1 .. Len(t)
        BY <1>2, <1>3
    <2> QED
        BY <1>6, <1>7, <2>1 DEF LastShows, EarlierShows
<1>9. w # NoText
    BY <1>2, <1>3, TextLength
<1> QED
    BY <1>5, <1>8, <1>9

LEMMA AndShows ==
    ASSUME NEW t \in Texts, NEW u \in Texts, t # NoText, Len(u) = 1, NEW row, NEW w, w = And(t, u)
    PROVE  /\ w # NoText
           /\ LastShows(w, row) <=> LastShows(t, row) /\ row \in Found(u)
           /\ EarlierShows(w, row) <=> EarlierShows(t, row)
<1>1. IsAnd(w, t, u)
    BY OneShows, AndIs
<1>2. Len(t) \in Nat \ {0}
    BY TextLength
<1>3. w \in Texts /\ Len(w) = Len(t)
    BY <1>1, <1>2 DEF IsAnd
<1>4. w[Len(w)] = t[Len(t)] \cap u[1]
    BY <1>1, <1>3 DEF IsAnd
<1>5. LastShows(w, row) <=> LastShows(t, row) /\ row \in Found(u)
    BY <1>4, OneShows DEF LastShows
<1>6. EarlierShows(w, row) <=> EarlierShows(t, row)
    BY <1>1, <1>3 DEF IsAnd, EarlierShows
<1>7. w # NoText
    BY <1>2, <1>3, TextLength
<1> QED
    BY <1>5, <1>6, <1>7

\* What the node of the criteria up to m says of a row.
UpToReads(q, m, row, node) ==
    /\ node \in Nodes
    /\ node.text = NoText => Starts(q) = {1} /\ LastMet(Starts(q), MetAt(q, row), m)
    /\ node.text # NoText =>
          /\ LastShows(node.text, row) <=> LastMet(Starts(q), MetAt(q, row), m)
          /\ EarlierShows(node.text, row) <=> EarlierMet(Starts(q), MetAt(q, row), m)
    /\ node.is = "OR" <=> LastIsOr(q, m)

\* How a criterion has to be read for that.
Proper(q, i, row, node) ==
    /\ Single(node) /\ NodeReads(q, i, row, node)
    /\ VoidAt(q, i) => Starts(q) = {1}

LEMMA FirstReads ==
    ASSUME NEW q \in Queries, q # Everything, NEW row \in Rows, NEW node, Proper(q, 1, row, node)
    PROVE  UpToReads(q, 1, row, node)
<1>1. PICK S : S = Starts(q)
    OBVIOUS
<1>2. PICK G : G = MetAt(q, row)
    OBVIOUS
<1>3. S \in SUBSET (Nat \ {0}) /\ 1 \in S
    BY <1>1, StartsType
<1>4. (LastMet(S, G, 1) <=> 1 \in G) /\ ~EarlierMet(S, G, 1)
    BY <1>3, FirstBlock
<1>5. 1 \in G <=> Meets(q[1], row, Says)
    BY <1>1, <1>2, <1>3 DEF MetAt, Starts
<1>6. node \in Nodes /\ node.is # "OR" /\ Len(node.text) \in {0, 1} /\ node.text \in Texts
    BY DEF Proper, Single, Nodes
<1>7. ~LastIsOr(q, 1)
    BY DEF LastIsOr
<1>8. node.text = NoText => S = {1} /\ LastMet(S, G, 1)
    BY <1>1, <1>4, <1>5 DEF Proper, NodeReads
<1>9. node.text # NoText => /\ LastShows(node.text, row) <=> LastMet(S, G, 1)
                            /\ EarlierShows(node.text, row) <=> EarlierMet(S, G, 1)
    <2> SUFFICES ASSUME node.text # NoText
                 PROVE  /\ LastShows(node.text, row) <=> LastMet(S, G, 1)
                        /\ EarlierShows(node.text, row) <=> EarlierMet(S, G, 1)
        OBVIOUS
    <2>1. Len(node.text) = 1
        BY <1>6, TextLength
    <2>2. (LastShows(node.text, row) <=> row \in Found(node.text)) /\ ~EarlierShows(node.text, row)
        BY <1>6, <2>1, OneShows
    <2>3. row \in Found(node.text) <=> Meets(q[1], row, Says)
        BY DEF Proper, NodeReads
    <2> QED
        BY <1>4, <1>5, <2>2, <2>3
<1> QED
    BY <1>1, <1>2, <1>6, <1>7, <1>8, <1>9 DEF UpToReads

LEMMA NextReads ==
    ASSUME NEW q \in Queries, q # Everything, NEW row \in Rows,
           NEW m \in Nat \ {0}, m + 1 \in DOMAIN q, JoinedAsRead(q, m + 1),
           NEW current, UpToReads(q, m, row, current),
           NEW node, Proper(q, m + 1, row, node),
           NEW next, next = Chained(current, q[m + 1].op, node)
    PROVE  UpToReads(q, m + 1, row, next)
<1>1. PICK S : S = Starts(q)
    OBVIOUS
<1>2. PICK G : G = MetAt(q, row)
    OBVIOUS
<1>3. S \in SUBSET (Nat \ {0}) /\ 1 \in S /\ (m + 1 \in S <=> q[m + 1].op = "OR")
    BY <1>1, StartsType
<1>4. PICK t : t = current.text
    OBVIOUS
<1>5. PICK u : u = node.text
    OBVIOUS
<1>6. /\ current \in Nodes /\ t \in Texts
      /\ t = NoText => S = {1} /\ LastMet(S, G, m)
      /\ t # NoText => /\ LastShows(t, row) <=> LastMet(S, G, m)
                       /\ EarlierShows(t, row) <=> EarlierMet(S, G, m)
    BY <1>1, <1>2, <1>4 DEF UpToReads, Nodes
<1>7. node \in Nodes /\ u \in Texts /\ (u # NoText => Len(u) = 1)
    <2>1. node \in Nodes /\ u \in Texts /\ Len(u) \in {0, 1}
        BY <1>5 DEF Proper, Single, Nodes
    <2> QED
        BY <2>1, TextLength
<1>8. PICK met : met \in BOOLEAN /\ (met <=> m + 1 \in G)
    <2>1. CASE m + 1 \in G
        <3>1. TRUE \in BOOLEAN /\ (TRUE <=> m + 1 \in G)
            BY <2>1
        <3> QED
            BY <3>1
    <2>2. CASE m + 1 \notin G
        <3>1. FALSE \in BOOLEAN /\ (FALSE <=> m + 1 \in G)
            BY <2>2
        <3> QED
            BY <3>1
    <2> QED
        BY <2>1, <2>2
<1>9. /\ u = NoText => S = {1} /\ met
      /\ u # NoText => (row \in Found(u) <=> met)
    <2>1. met <=> Meets(q[m + 1], row, Says)
        BY <1>2, <1>8 DEF MetAt
    <2> QED
        BY <1>1, <1>5, <2>1 DEF Proper, NodeReads
<1>10. PICK k : k = Keyword(current, q[m + 1].op)
    OBVIOUS
<1>11. k \in {"AND", "OR"} /\ (k = "OR" <=> m + 1 \in S) /\ (k = "OR" <=> LastIsOr(q, m + 1))
    <2>1. current.is = "OR" <=> LastIsOr(q, m)
        BY DEF UpToReads
    <2> QED
        BY <1>3, <1>10, <2>1, KeywordIs
<1>12. PICK w : w = Join(k, t, u)
    OBVIOUS
<1>13. next.is = k /\ next.text = w
    BY <1>4, <1>5, <1>6, <1>7, <1>10, <1>12, ChainedIs
<1>14. next \in Nodes
    <2>1. q[m + 1].op \in {"AND", "OR", "space"}
        BY QueriesAssumption
    <2> QED
        BY <1>6, <1>7, <2>1, ChainedType
<1>15. /\ w = NoText => S = {1} /\ LastMet(S, G, m + 1)
       /\ w # NoText => /\ LastShows(w, row) <=> LastMet(S, G, m + 1)
                        /\ EarlierShows(w, row) <=> EarlierMet(S, G, m + 1)
    <2>1. CASE k = "OR"
        <3>1. m + 1 \in S
            BY <1>11, <2>1
        <3>2. S # {1}
            BY <3>1
        <3>3. t # NoText /\ u # NoText
            BY <1>6, <1>9, <3>2
        <3>4. w = Or(t, u)
            BY <1>12, <2>1 DEF Join
        <3>5. /\ w # NoText /\ (LastShows(w, row) <=> row \in Found(u))
              /\ EarlierShows(w, row) <=> LastShows(t, row) \/ EarlierShows(t, row)
            BY <1>6, <1>7, <3>3, <3>4, OrShows
        <3>6. /\ LastMet(S, G, m + 1) <=> m + 1 \in G
              /\ EarlierMet(S, G, m + 1) <=> LastMet(S, G, m) \/ EarlierMet(S, G, m)
            BY <1>3, <3>1, NewBlock
        <3> QED
            BY <1>6, <1>8, <1>9, <3>3, <3>5, <3>6
    <2>2. CASE k = "AND"
        <3>1. m + 1 \notin S
            BY <1>11, <2>2
        <3>2. /\ LastMet(S, G, m + 1) <=> LastMet(S, G, m) /\ met
              /\ EarlierMet(S, G, m + 1) <=> EarlierMet(S, G, m)
            BY <1>3, <1>8, <3>1, SameBlock
        <3>3. w = And(t, u)
            BY <1>12, <2>2 DEF Join
        <3>4. CASE u = NoText
            <4>1. w = t
                BY <3>3, <3>4 DEF And
            <4> QED
                BY <1>6, <1>9, <3>2, <3>4, <4>1
        <3>5. CASE t = NoText /\ u # NoText
            <4>1. w = u
                BY <3>3, <3>5 DEF And
            <4>2. (LastShows(u, row) <=> row \in Found(u)) /\ ~EarlierShows(u, row)
                BY <1>7, <3>5, OneShows
            <4>3. ~EarlierMet(S, G, m)
                BY <1>6, <3>5 DEF EarlierMet, StartsIn
            <4> QED
                BY <1>6, <1>9, <3>2, <3>5, <4>1, <4>2, <4>3
        <3>6. CASE t # NoText /\ u # NoText
            <4>1. /\ w # NoText
                  /\ LastShows(w, row) <=> LastShows(t, row) /\ row \in Found(u)
                  /\ EarlierShows(w, row) <=> EarlierShows(t, row)
                BY <1>6, <1>7, <3>3, <3>6, AndShows
            <4> QED
                BY <1>6, <1>9, <3>2, <3>6, <4>1
        <3> QED
            BY <3>4, <3>5, <3>6
    <2> QED
        BY <1>11, <2>1, <2>2
<1> QED
    BY <1>1, <1>2, <1>11, <1>13, <1>14, <1>15 DEF UpToReads

LEMMA QueryReads ==
    ASSUME NEW q \in Queries, NEW row \in Rows,
           \A i \in DOMAIN q : HasQuery(q[i]) => Reads(QueryIn(q[i]), row)
    PROVE  Reads(q, row)
<1> SUFFICES ASSUME Plain[q][row]
             PROVE  /\ Void[q] => Says[q][row]
                    /\ ~Void[q] => (row \in Found(ParseTree[q].text) <=> Says[q][row])
    BY DEF Reads
<1>1. PICK tree : tree = ParseTree[q]
    OBVIOUS
<1>2. (tree.text = NoText <=> Void[q]) /\ tree \in Nodes /\ tree.text \in Texts
    BY <1>1, EmptyIsVoid, ParseTreeIs DEF Nodes
<1>3. CASE q = Everything
    <2>1. Void[q]
        <3>1. Void[q] <=> \A i \in DOMAIN q : HasQuery(q[i]) /\ Void[QueryIn(q[i])]
            BY VoidIs DEF VoidFrom
        <3> QED
            BY <1>3, <3>1 DEF Everything
    <2>2. Says[q][row]
        BY <1>3, SaysIs DEF SaysFrom
    <2> QED
        BY <2>1, <2>2
<1>4. CASE q # Everything
    <2>1. PICK up, nodes : Grows(q, up, nodes)
        BY <1>4, TreeGrows
    <2>2. /\ DOMAIN q = 1 .. Len(q) /\ Len(q) \in Nat \ {0} /\ 1 \in DOMAIN q
          /\ up[1] = nodes[1] /\ tree = up[Len(q)]
          /\ \A i \in DOMAIN q : nodes[i] = Visit(q[i], ParseTree)
          /\ \A m \in DOMAIN q :
                m + 1 \in DOMAIN q => up[m + 1] = Chained(up[m], q[m + 1].op, nodes[m + 1])
        BY <1>1, <2>1 DEF Grows
    <2>3. \A i \in DOMAIN q : PlainAt(q, i, row)
        BY PlainSays
    <2>4. \A i \in DOMAIN q : NodeReads(q, i, row, nodes[i])
        BY <2>2, <2>3, NodesRead
    <2>5. PICK S : S = Starts(q)
        OBVIOUS
    <2>6. PICK G : G = MetAt(q, row)
        OBVIOUS
    <2>7. Says[q][row] <=> LastMet(S, G, Len(q)) \/ EarlierMet(S, G, Len(q))
        BY <1>4, <2>5, <2>6, BlocksSay
    <2>8. CASE Len(q) = 1
        <3>1. NodeReads(q, 1, row, tree)
            BY <2>2, <2>4, <2>8
        <3>2. (LastMet(S, G, 1) <=> 1 \in G) /\ ~EarlierMet(S, G, 1)
            BY <1>4, <2>5, StartsType, FirstBlock
        <3>3. 1 \in G <=> Meets(q[1], row, Says)
            BY <2>2, <2>6 DEF MetAt
        <3> QED
            BY <1>1, <1>2, <2>7, <2>8, <3>1, <3>2, <3>3 DEF NodeReads
    <2>9. CASE Len(q) # 1
        <3>1. \A i \in DOMAIN q : Proper(q, i, row, nodes[i])
            <4> SUFFICES ASSUME NEW i \in DOMAIN q
                         PROVE  Proper(q, i, row, nodes[i])
                OBVIOUS
            <4>1. PlainAt(q, i, row) /\ NodeReads(q, i, row, nodes[i])
                BY <2>3, <2>4
            <4>2. ~(q[i].not /\ q[i].of \in Ranges)
                BY <2>9, <4>1 DEF PlainAt, Definite, Ranges
            <4>3. Single(nodes[i])
                BY <2>2, <4>2, NodesSingle
            <4> QED
                BY <4>1, <4>3 DEF Proper, PlainAt
        <3> DEFINE T == {m \in DOMAIN q : UpToReads(q, m, row, up[m])}
        <3>2. Climbs(T, q)
            <4>1. 1 \in T
                BY <1>4, <2>2, <3>1, FirstReads
            <4>2. ASSUME NEW m \in T, m + 1 \in DOMAIN q
                  PROVE  m + 1 \in T
                <5>1. m \in Nat \ {0} /\ UpToReads(q, m, row, up[m])
                    BY <2>2
                <5>2. JoinedAsRead(q, m + 1)
                    BY <2>3, <4>2 DEF PlainAt
                <5>3. UpToReads(q, m + 1, row, up[m + 1])
                    BY <1>4, <2>2, <3>1, <4>2, <5>1, <5>2, NextReads
                <5> QED
                    BY <4>2, <5>3
            <4> QED
                BY <4>1, <4>2 DEF Climbs
        <3>3. UpToReads(q, Len(q), row, tree)
            <4>1. T \in SUBSET DOMAIN q
                OBVIOUS
            <4>2. T = DOMAIN q
                <5> HIDE DEF T
                <5> QED
                    BY <3>2, <4>1, AlongQuery
            <4>3. Len(q) \in T
                BY <2>2, <4>2
            <4> QED
                BY <2>2, <4>3
        <3>4. CASE tree.text = NoText
            BY <1>1, <1>2, <2>5, <2>6, <2>7, <3>3, <3>4 DEF UpToReads
        <3>5. CASE tree.text # NoText
            <4>1. row \in Found(tree.text) <=> LastShows(tree.text, row) \/ EarlierShows(tree.text, row)
                BY <1>2, <3>5, ShowsFound
            <4> QED
                BY <1>1, <1>2, <2>5, <2>6, <2>7, <3>3, <3>5, <4>1 DEF UpToReads
        <3> QED
            BY <3>4, <3>5
    <2> QED
        BY <2>8, <2>9
<1> QED
    BY <1>3, <1>4

LEMMA AllRead == ASSUME NEW row \in Rows PROVE \A q \in Queries : Reads(q, row)
<1> DEFINE T == {n \in Nat : \A q \in Queries : Nesting[q] < n => Reads(q, row)}
<1>1. \A q \in Queries : Nesting[q] \in Nat
    BY NestingAssumption
<1>2. 0 \in T
    BY <1>1
<1>3. ASSUME NEW n \in T
      PROVE  n + 1 \in T
    <2> SUFFICES ASSUME NEW q \in Queries, Nesting[q] < n + 1
                 PROVE  Reads(q, row)
        OBVIOUS
    <2>1. ASSUME NEW i \in DOMAIN q, HasQuery(q[i])
          PROVE  Reads(QueryIn(q[i]), row)
        <3>1. QueryIn(q[i]) \in Queries /\ Nesting[QueryIn(q[i])] < Nesting[q]
            BY <2>1, QueriesAssumption
        <3>2. Nesting[QueryIn(q[i])] < n
            BY <1>1, <3>1
        <3> QED
            BY <3>1, <3>2
    <2> QED
        BY <2>1, QueryReads
<1>4. T = Nat
    <2>1. T \in SUBSET Nat
        OBVIOUS
    <2> HIDE DEF T
    <2> QED
        BY <1>2, <1>3, <2>1, ByInduction
<1> QED
    <2> SUFFICES ASSUME NEW q \in Queries
                 PROVE  Reads(q, row)
        OBVIOUS
    <2>1. Nesting[q] + 1 \in T /\ Nesting[q] < Nesting[q] + 1
        BY <1>1, <1>4
    <2> QED
        BY <2>1

\* The text of a query with no OR outside of parentheses is one alternative.
LEMMA OneAlternative ==
    ASSUME NEW q \in Queries, NoAlternatives(q)
    PROVE  Len(ParseTree[q].text) \in {0, 1}
<1>1. CASE q = Everything
    <2>1. ParseTree[q] = Node("nil", NoText)
        BY <1>1, ParseTreeIs DEF TreeFrom
    <2> QED
        BY <2>1 DEF Node, NoText
<1>2. CASE q # Everything
    <2>1. PICK up, nodes : Grows(q, up, nodes)
        BY <1>2, TreeGrows
    <2>2. /\ DOMAIN q = 1 .. Len(q) /\ Len(q) \in Nat \ {0} /\ 1 \in DOMAIN q
          /\ up[1] = nodes[1] /\ ParseTree[q] = up[Len(q)]
          /\ \A i \in DOMAIN q : nodes[i] = Visit(q[i], ParseTree)
          /\ \A m \in DOMAIN q :
                m + 1 \in DOMAIN q => up[m + 1] = Chained(up[m], q[m + 1].op, nodes[m + 1])
        BY <2>1 DEF Grows
    <2>3. \A i \in DOMAIN q : Single(nodes[i])
        BY <2>2, NodesSingle DEF NoAlternatives
    <2> DEFINE T == {m \in DOMAIN q : Single(up[m])}
    <2>4. Climbs(T, q)
        <3>1. 1 \in T
            BY <2>2, <2>3
        <3>2. ASSUME NEW m \in T, m + 1 \in DOMAIN q
              PROVE  m + 1 \in T
            <4>1. PICK t : t = up[m].text
                OBVIOUS
            <4>2. PICK u : u = nodes[m + 1].text
                OBVIOUS
            <4>3. /\ up[m] \in Nodes /\ nodes[m + 1] \in Nodes /\ t \in Texts /\ u \in Texts
                  /\ Len(t) \in {0, 1} /\ Len(u) \in {0, 1} /\ up[m].is # "OR"
                BY <2>3, <3>2, <4>1, <4>2 DEF Single, Nodes
            <4>4. PICK op \in {"AND", "OR", "space"} : op = q[m + 1].op /\ op # "OR"
                <5>1. m + 1 > 1 /\ m \in Nat \ {0}
                    BY <2>2
                <5>2. q[m + 1].op \in {"AND", "OR", "space"}
                    BY <3>2, <5>1, QueriesAssumption
                <5>3. m + 1 \notin Starts(q)
                    BY <5>1 DEF NoAlternatives
                <5>4. q[m + 1].op # "OR"
                    BY <1>2, <3>2, <5>1, <5>3, StartsType
                <5> QED
                    BY <5>2, <5>4
            <4>5. Keyword(up[m], op) = "AND"
                BY <4>3, <4>4 DEF Keyword, IsKeyword
            <4>6. PICK w : w = Chained(up[m], op, nodes[m + 1])
                OBVIOUS
            <4>7. w \in Nodes /\ w.is = "AND" /\ w.text = And(t, u)
                <5>1. w \in Nodes
                    BY <4>3, <4>6, ChainedType
                <5>2. w.is = "AND" /\ w.text = Join("AND", t, u)
                    <6>1. PICK k : k = Keyword(up[m], op)
                        OBVIOUS
                    <6>2. w.is = k /\ w.text = Join(k, up[m].text, nodes[m + 1].text)
                        BY <4>3, <4>6, <6>1, ChainedIs
                    <6> QED
                        BY <4>1, <4>2, <4>5, <6>1, <6>2
                <5> QED
                    BY <5>1, <5>2 DEF Join
            <4>8. Len(And(t, u)) \in {0, 1}
                <5>1. CASE t = NoText \/ u = NoText
                    BY <4>3, <5>1 DEF And
                <5>2. CASE t # NoText /\ u # NoText
                    <6>1. Len(t) = 1 /\ Len(u) = 1
                        BY <4>3, <5>2, TextLength
                    <6>2. IsAnd(And(t, u), t, u)
                        BY <4>3, <5>2, AndIs
                    <6> QED
                        BY <6>1, <6>2 DEF IsAnd
                <5> QED
                    BY <5>1, <5>2
            <4>9. up[m + 1] = w
                BY <2>2, <3>2, <4>4, <4>6
            <4> QED
                BY <3>2, <4>7, <4>8, <4>9 DEF Single
        <3> QED
            BY <3>1, <3>2 DEF Climbs
    <2>5. Single(ParseTree[q])
        <3>1. T \in SUBSET DOMAIN q
            OBVIOUS
        <3>2. T = DOMAIN q
            <4> HIDE DEF T
            <4> QED
                BY <2>4, <3>1, AlongQuery
        <3>3. Len(q) \in T
            BY <2>2, <3>2
        <3> QED
            BY <2>2, <3>3
    <2> QED
        BY <2>5 DEF Single
<1> QED
    BY <1>1, <1>2

\* The filter that every search has comes before that of the query.
LEMMA WhereFinds ==
    ASSUME NEW q \in Queries, NEW row \in Rows, NEW t, t = ParseTree[q].text
    PROVE  /\ row.excluded /\ Len(t) \in {0, 1} => row \notin Found(Where(q))
           /\ ~row.excluded => (row \in Found(Where(q)) <=> t = NoText \/ row \in Found(t))
<1>1. t \in Texts
    BY ParseTreeIs DEF Nodes
<1>2. PICK N : N = {r \in Rows : ~r.excluded}
    OBVIOUS
<1>3. PICK f : f = << N >>
    OBVIOUS
<1>4. f \in Texts /\ Len(f) = 1 /\ f[1] = N /\ f # NoText
    <2>1. << N >> \in Seq(SUBSET Rows)
        BY <1>2
    <2> QED
        BY <1>3, <2>1 DEF Texts, NoText
<1>5. PICK w : w = And(f, t)
    OBVIOUS
<1>6. Where(q) = w
    BY <1>2, <1>3, <1>5 DEF Where
<1>7. row \in N <=> ~row.excluded
    BY <1>2
<1>8. CASE t = NoText
    <2>1. w = << N >>
        BY <1>3, <1>4, <1>5, <1>8 DEF And
    <2>2. row \in Found(w) <=> row \in N
        BY <2>1, FoundOne
    <2> QED
        BY <1>6, <1>7, <1>8, <2>2
<1>9. CASE t # NoText
    <2>1. PICK n \in Nat \ {0} : n = Len(t)
        BY <1>1, <1>9, TextLength
    <2>2. IsAnd(w, f, t)
        BY <1>1, <1>4, <1>5, <1>9, AndIs
    <2>3. w \in Texts /\ Len(w) = n /\ w[1] = N \cap t[1]
        BY <1>4, <2>1, <2>2 DEF IsAnd
    <2>4. \A k \in 2 .. n : w[k] = t[k]
        <3>1. \A k \in 2 .. n : w[1 + k - 1] = t[k]
            BY <1>4, <2>1, <2>2 DEF IsAnd
        <3>2. \A k \in 2 .. n : 1 + k - 1 = k
            OBVIOUS
        <3> QED
            BY <3>1, <3>2
    <2>5. \A k : k \in 1 .. n <=> k \in 2 .. n \/ k = 1
        BY <2>1
    <2>6. row \in Found(w) <=> row \in w[1] \/ \E k \in 2 .. n : row \in t[k]
        <3>1. row \in Found(w) <=> \E k \in 1 .. n : row \in w[k]
            BY <2>3, FoundIs
        <3> QED
            BY <2>4, <2>5, <3>1
    <2>7. row \in Found(t) <=> row \in t[1] \/ \E k \in 2 .. n : row \in t[k]
        <3>1. row \in Found(t) <=> \E k \in 1 .. n : row \in t[k]
            BY <1>1, <2>1, FoundIs
        <3> QED
            BY <2>5, <3>1
    <2>8. CASE row.excluded
        <3>1. n = 1 => ~(\E k \in 2 .. n : row \in t[k])
            OBVIOUS
        <3> QED
            BY <1>6, <1>7, <2>1, <2>3, <2>6, <2>8, <3>1
    <2>9. CASE ~row.excluded
        BY <1>6, <1>7, <1>9, <2>3, <2>6, <2>7, <2>9
    <2> QED
        BY <2>8, <2>9
<1> QED
    BY <1>8, <1>9

LEMMA QueryFinds ==
    ASSUME query \in Queries
    PROVE  SearchFindsWhatQuerySays
<1>1. ASSUME NEW row \in Rows, row.excluded, NoAlternatives(query)
      PROVE  row \notin Found(Where(query))
    BY <1>1, OneAlternative, WhereFinds
<1>2. ASSUME NEW row \in Rows, ~row.excluded, Plain[query][row]
      PROVE  row \in Found(Where(query)) <=> Says[query][row]
    <2>1. PICK t : t = ParseTree[query].text
        OBVIOUS
    <2>2. row \in Found(Where(query)) <=> t = NoText \/ row \in Found(t)
        BY <1>2, <2>1, WhereFinds
    <2>3. Reads(query, row)
        BY AllRead
    <2>4. t = NoText <=> Void[query]
        BY <2>1, EmptyIsVoid
    <2> QED
        BY <1>2, <2>1, <2>2, <2>3, <2>4 DEF Reads
<1> QED
    BY <1>1, <1>2 DEF SearchFindsWhatQuerySays

(***************************************************************************)
(* For any saved searches, nested to any depth, and any rows: what         *)
(* FeaturesSearch finds for a query - the text parsed by the visitor, the  *)
(* saved: and hotlist: terms expanded by expandSavedSearches, the filters  *)
(* put together by FeatureSearchFilterBuilder - is what the query says of  *)
(* each feature it is Plain for, and no query without alternatives finds   *)
(* an excluded feature.                                                    *)
(***************************************************************************)
THEOREM SearchesFind == SearchSpec => []SearchFindsWhatQuerySays
<1> DEFINE Inv == query = Null \/ query \in Queries
<1>1. SearchInit => Inv
    BY DEF SearchInit
<1>2. Inv /\ [SearchNext]_query => Inv'
    BY DEF SearchNext, Search
<1>3. Inv => SearchFindsWhatQuerySays
    BY QueryFinds DEF SearchFindsWhatQuerySays
<1> QED
    BY <1>1, <1>2, <1>3, PTL DEF SearchSpec
=============================================================================
