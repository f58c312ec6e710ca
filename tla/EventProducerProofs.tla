------------------------ MODULE EventProducerProofs ------------------------
(***************************************************************************)
(* Proofs about EventProducer, for every set of messages and runs and      *)
(* every bound: typing, the announcement of events, the row's blob path;   *)
(* when a lease outlives its run, the lineage of the history and its       *)
(* refinement of SavedSearchHistory; and that contention loses no refresh. *)
(***************************************************************************)
EXTENDS EventProducer, SequenceTheorems, TLAPS

USE DEF external, run, storage

\* What becomes of a message record keeps its type.
LEMMA MessageUpdates ==
    ASSUME NEW r \in Message
    PROVE  /\ Requeued(r) \in Message
           /\ \A w \in Workers :
                  [r EXCEPT !.holder = w, !.tries = r.tries + 1] \in Message
           /\ [r EXCEPT !.holder = NoOne, !.st = "acked"] \in Message
<1>1. Requeued(r) \in Message
  <2>1. /\ Requeued(r).holder = NoOne
        /\ Requeued(r).st \in {"dead", "pending"}
    BY DEF Requeued, Message
  <2> QED BY <2>1 DEF Requeued, Message
<1>2. ASSUME NEW w \in Workers
      PROVE  [r EXCEPT !.holder = w, !.tries = r.tries + 1] \in Message
  <2>1. r.tries + 1 \in Nat
    BY DEF Message
  <2>2. ASSUME NEW n \in Nat
        PROVE  [r EXCEPT !.holder = w, !.tries = n] \in Message
    BY DEF Message
  <2> QED BY <2>1, <2>2
<1>3. [r EXCEPT !.holder = NoOne, !.st = "acked"] \in Message
  BY DEF Message
<1> QED BY <1>1, <1>2, <1>3

\* The type invariant is inductive.
LEMMA TypeStep ==
    ASSUME TypeOK, [Next]_vars
    PROVE  TypeOK'
<1> USE DEF TypeOK, GoTo, Forget, Retire
<1>n. NoState \in State /\ NoOne \notin Messages
  BY NoOneAssumption DEF NoState, State
<1>s. {"idle", "acquire", "load", "compare", "storeState", "storeDiff",
       "publishEvent", "notify", "release", "ack", "nack"} = Steps
  BY DEF Steps
<1>1. CASE DataChanges
  BY <1>1 DEF DataChanges
<1>2. CASE EditQuery
  <2>1. CASE UNCHANGED msg
    BY <1>2, <2>1 DEF EditQuery
  <2>2. ASSUME NEW m \in Messages, Send(m, query + 1)
        PROVE  TypeOK'
    <3>1. msg' \in [Messages -> Message]
      BY <2>2 DEF Send, Message
    <3> QED BY <1>2, <3>1 DEF EditQuery
  <2> QED BY <1>2, <2>1, <2>2 DEF EditQuery
<1>3. ASSUME NEW m \in Messages, PublishRefreshCommand(m)
      PROVE  TypeOK'
  BY <1>3 DEF PublishRefreshCommand, Send, Message
<1>4. ASSUME NEW m \in Messages, LeaseLapses(m)
      PROVE  TypeOK'
  BY <1>4, MessageUpdates DEF LeaseLapses
<1>5. CASE ExpireLock
  BY <1>5 DEF ExpireLock, Row
<1>6. ASSUME NEW w \in Workers, NEW m \in Messages, Receive(w, m)
      PROVE  TypeOK'
  <2>1. msg' \in [Messages -> Message]
    <3>1. [msg[m] EXCEPT !.holder = w, !.tries = msg[m].tries + 1] \in Message
      <4>1. msg[m] \in Message
        OBVIOUS
      <4> QED BY <4>1, MessageUpdates, Zenon
    <3> QED BY <1>6, <3>1 DEF Receive
  <2> QED BY <1>6, <2>1, <1>s DEF Receive
<1>7. ASSUME NEW w \in Workers, Crash(w)
      PROVE  TypeOK'
  <2>1. msg' \in [Messages -> Message]
    BY <1>7, MessageUpdates DEF Crash, Holds
  <2> QED BY <1>7, <2>1, <1>s, <1>n DEF Crash
<1>8. ASSUME NEW w \in Workers, Handler(w)
      PROVE  TypeOK'
  <2>1. CASE AcquireLock(w)
    <3>1. trigger[w] \in Messages /\ pc' \in [Workers -> Steps]
      BY <2>1, <1>s DEF AcquireLock
    <3>2. row' \in Row
      BY <2>1, <3>1 DEF AcquireLock, Row
    <3>3. \A v \in Workers : pc'[v] # "idle" => trigger[v] \in Messages
      BY <2>1 DEF AcquireLock
    <3> QED BY <2>1, <3>1, <3>2, <3>3 DEF AcquireLock
  <2>2. CASE LoadPrevious(w)
    <3>1. LatestState \in State \/ ~(log = <<>> \/ LatestState \in states)
      BY <1>n DEF LatestState
    <3> QED BY <2>2, <3>1, <1>s DEF LoadPrevious
  <2>3. CASE Compare(w)
    <3>1. trigger[w] \in Messages /\ msg[trigger[w]] \in Message
      BY <2>3 DEF Compare
    <3>2. [id |-> clock + 1, query |-> msg[trigger[w]].query, data |-> data] \in State
      BY <3>1 DEF State, Message
    <3>3. result' \in [Workers -> State]
      BY <2>3, <3>2, <1>n DEF Compare
    <3>5. clock' \in Nat
      BY <2>3 DEF Compare
    <3>4. base' \in [Workers -> State] /\ pc' \in [Workers -> Steps]
      BY <2>3, <1>s, <1>n DEF Compare
    <3> QED BY <2>3, <3>1, <3>3, <3>4, <3>5 DEF Compare
  <2>4. CASE StoreState(w)
    BY <2>4, <1>s DEF StoreState
  <2>5. CASE StoreDiff(w)
    BY <2>5, <1>s DEF StoreDiff, State
  <2>6. CASE PublishEvent(w)
    <3>1. trigger[w] \in Messages
      BY <2>6 DEF PublishEvent
    <3> DEFINE new == [id |-> trigger[w], base |-> base[w], state |-> result[w]]
    <3>2. new \in Event
      BY <3>1 DEF Event
    <3>3. log' = log \/ log' = Append(log, new)
      BY <2>6 DEF PublishEvent, Commit
    <3>4. log' \in Seq(Event)
      <4> HIDE DEF new
      <4>1. log \in Seq(Event)
        OBVIOUS
      <4>2. Append(log, new) \in Seq(Event)
        BY <3>2, <4>1, AppendProperties
      <4> QED BY <3>3, <4>1, <4>2
    <3>5. row' = row \/ row' = [row EXCEPT !.path = result[w].id]
      BY <2>6 DEF PublishEvent, Commit
    <3>6. row' \in Row
      <4>1. result[w].id \in Nat
        BY DEF State
      <4> QED BY <3>5, <4>1 DEF Row
    <3> QED BY <2>6, <3>1, <3>4, <3>6, <1>s, <1>n DEF PublishEvent
  <2>7. CASE PublishNotification(w)
    BY <2>7, <1>s DEF PublishNotification
  <2>8. CASE ReleaseLock(w)
    BY <2>8, <1>s DEF ReleaseLock, Row
  <2>9. CASE CallFails(w)
    BY <2>9, <1>s, <1>n DEF CallFails, AfterFailure
  <2>10. CASE Ack(w)
    <3>1. msg' \in [Messages -> Message]
      BY <2>10, MessageUpdates DEF Ack, Holds
    <3> QED BY <2>10, <3>1, <1>s, <1>n DEF Ack
  <2>11. CASE Nack(w)
    <3>1. msg' \in [Messages -> Message]
      BY <2>11, MessageUpdates DEF Nack, Holds
    <3> QED BY <2>11, <3>1, <1>s, <1>n DEF Nack
  <2> QED
    BY <1>8, <2>1, <2>2, <2>3, <2>4, <2>5, <2>6, <2>7, <2>8, <2>9, <2>10, <2>11
    DEF Handler, ProcessSearch
<1>9. CASE UNCHANGED vars
  BY <1>9 DEF vars
<1> QED
  BY <1>1, <1>2, <1>3, <1>4, <1>5, <1>6, <1>7, <1>8, <1>9 DEF Next

\* TypeOK is an invariant.
THEOREM Typing == Spec => []TypeOK
<1>1. Init => TypeOK
  <2> SUFFICES ASSUME Init PROVE TypeOK
    OBVIOUS
  <2>1. NoState \in State
    BY DEF NoState, State
  <2>2. msg \in [Messages -> Message]
    BY DEF Init, Message
  <2>3. row \in Row
    BY DEF Init, Row
  <2>4. log \in Seq(Event) /\ states \in SUBSET State
    BY DEF Init
  <2> QED BY <2>1, <2>2, <2>3, <2>4 DEF Init, TypeOK, Steps
<1> QED BY <1>1, TypeStep, PTL DEF Spec
-----------------------------------------------------------------------------
(* Announcements and the blob path: no assumption on leases *)

\* What a commit does to the log.
LEMMA CommitExtends ==
    ASSUME TypeOK, NEW w \in Workers, PublishEvent(w), MayCommit(w)
    PROVE  /\ log \in Seq(Event) /\ log' \in Seq(Event)
           /\ Len(log') = Len(log) + 1
           /\ DOMAIN log = 1 .. Len(log)
           /\ DOMAIN log' = 1 .. Len(log) + 1
           /\ \A i \in 1 .. Len(log) : log'[i] = log[i]
           /\ log'[Len(log) + 1] = [id |-> trigger[w], base |-> base[w],
                                    state |-> result[w]]
<1> DEFINE new == [id |-> trigger[w], base |-> base[w], state |-> result[w]]
<1>1. trigger[w] \in Messages /\ base[w] \in State /\ result[w] \in State
  BY DEF TypeOK, PublishEvent
<1>2. new \in Event
  BY <1>1 DEF Event
<1>3. log' = Append(log, new)
  BY DEF PublishEvent, Commit
<1>4. log \in Seq(Event)
  BY DEF TypeOK
<1>5. Append(log, new) \in Seq(Event) /\ Len(Append(log, new)) = Len(log) + 1
  <2> HIDE DEF new
  <2> QED BY <1>2, <1>4, AppendProperties
<1>6. /\ \A i \in 1 .. Len(log) : Append(log, new)[i] = log[i]
      /\ Append(log, new)[Len(log) + 1] = new
  <2> HIDE DEF new
  <2> QED BY <1>2, <1>4, AppendProperties
<1>7. DOMAIN log = 1 .. Len(log) /\ DOMAIN log' = 1 .. Len(log')
  <2> HIDE DEF new
  <2> QED BY <1>3, <1>4, <1>5, LenProperties
<1> QED BY <1>3, <1>4, <1>5, <1>6, <1>7

\* AnnouncedOnce, strengthened to be inductive: a run about to announce its
\* event is the only one that will.
AnnouncementInv ==
    /\ AnnouncedOnce
    /\ \A w \in Workers :
           pc[w] = "notify" => HasEvent(trigger[w]) /\ topic[trigger[w]] = 0
    /\ \A v, w \in Workers :
           pc[v] = "notify" /\ pc[w] = "notify" /\ trigger[v] = trigger[w]
               => v = w

\* No step announces what is not committed, or a second time: PublishEvent sends a
\* run to its announcement only when it has inserted the event.
LEMMA AnnouncementStep ==
    ASSUME TypeOK, AnnouncementInv, [Next]_vars
    PROVE  AnnouncementInv'
<1>1. ASSUME log' = log, topic' = topic,
             \A w \in Workers : pc'[w] = "notify"
                 => pc[w] = "notify" /\ trigger'[w] = trigger[w]
      PROVE  AnnouncementInv'
  BY <1>1 DEF AnnouncementInv, AnnouncedOnce, HasEvent
<1>2. ASSUME NEW w \in Workers, PublishEvent(w)
      PROVE  AnnouncementInv'
  <2>1. CASE ~MayCommit(w)
    <3>1. /\ log' = log /\ topic' = topic /\ trigger' = trigger
          /\ pc' = [pc EXCEPT ![w] = "release"]
      BY <1>2, <2>1 DEF PublishEvent, GoTo
    <3> QED BY <1>1, <3>1 DEF TypeOK
  <2>2. CASE MayCommit(w)
    <3>1. /\ topic' = topic /\ trigger' = trigger
          /\ pc' = [pc EXCEPT ![w] = "notify"]
          /\ ~HasEvent(trigger[w]) /\ trigger[w] \in Messages
      BY <1>2, <2>2 DEF PublishEvent, GoTo, MayCommit, TypeOK
    <3>2. /\ \A m : HasEvent(m) => HasEvent(m)'
          /\ HasEvent(trigger[w])'
      <4>0. PublishEvent(w) /\ MayCommit(w) /\ log \in Seq(Event)
        BY <1>2, <2>2 DEF TypeOK
      <4>1. DOMAIN log = 1 .. Len(log) /\ DOMAIN log' = 1 .. Len(log) + 1
            /\ Len(log) \in Nat
        BY <4>0, CommitExtends, LenProperties
      <4>2. \A i \in 1 .. Len(log) : i \in 1 .. Len(log) + 1 /\ log'[i] = log[i]
        <5>1. \A i \in 1 .. Len(log) : i \in 1 .. Len(log) + 1
          BY <4>1
        <5> QED BY <4>0, <5>1, CommitExtends
      <4>3. Len(log) + 1 \in DOMAIN log' /\ log'[Len(log) + 1].id = trigger[w]
        <5>1. Len(log) + 1 \in 1 .. Len(log) + 1
          BY <4>1
        <5>2. log'[Len(log) + 1] = [id |-> trigger[w], base |-> base[w],
                                    state |-> result[w]]
          BY <4>0, CommitExtends
        <5> QED BY <4>1, <5>1, <5>2
      <4> QED BY <4>1, <4>2, <4>3, <3>1 DEF HasEvent
    <3>3. topic[trigger[w]] = 0
      BY <3>1 DEF AnnouncementInv, AnnouncedOnce, TypeOK
    <3> QED BY <3>1, <3>2, <3>3 DEF AnnouncementInv, AnnouncedOnce, TypeOK
  <2> QED BY <2>1, <2>2
<1>3. ASSUME NEW w \in Workers, PublishNotification(w)
      PROVE  AnnouncementInv'
  <2>1. /\ log' = log /\ trigger' = trigger /\ pc[w] = "notify"
        /\ topic' = [topic EXCEPT ![trigger[w]] = topic[trigger[w]] + 1]
        /\ pc' = [pc EXCEPT ![w] = "release"]
        /\ trigger[w] \in Messages
    BY <1>3 DEF PublishNotification, GoTo, TypeOK
  <2>2. \A v \in Workers : pc'[v] = "notify"
            => v # w /\ pc[v] = "notify" /\ trigger[v] # trigger[w]
    BY <2>1 DEF AnnouncementInv, TypeOK
  <2>3. HasEvent(trigger[w]) /\ topic[trigger[w]] = 0
    BY <2>1 DEF AnnouncementInv
  <2>4. topic \in [Messages -> Nat]
    BY DEF TypeOK
  <2>5. AnnouncedOnce'
    BY <2>1, <2>3, <2>4 DEF AnnouncementInv, AnnouncedOnce, HasEvent
  <2>6. \A v \in Workers :
            pc'[v] = "notify" => HasEvent(trigger[v])' /\ topic'[trigger[v]] = 0
    BY <2>1, <2>2, <2>4 DEF AnnouncementInv, HasEvent
  <2>7. \A v, u \in Workers :
            pc'[v] = "notify" /\ pc'[u] = "notify" /\ trigger[v] = trigger[u]
                => v = u
    BY <2>1, <2>2 DEF AnnouncementInv
  <2> QED BY <2>1, <2>5, <2>6, <2>7 DEF AnnouncementInv
<1>4. ASSUME NEW w \in Workers, Handler(w),
             ~PublishEvent(w), ~PublishNotification(w)
      PROVE  AnnouncementInv'
  <2>1. log' = log /\ topic' = topic
    BY <1>4 DEF Handler, ProcessSearch, AcquireLock, LoadPrevious, Compare,
                StoreState, StoreDiff, ReleaseLock, CallFails, Ack, Nack
  <2>2. \E s \in Steps \ {"notify"} : pc' = [pc EXCEPT ![w] = s]
    BY <1>4 DEF Handler, ProcessSearch, AcquireLock, LoadPrevious, Compare,
                StoreState, StoreDiff, ReleaseLock, CallFails, Ack, Nack,
                AfterFailure, GoTo, Retire, Steps
  <2>3. \A v \in Workers : v # w => trigger'[v] = trigger[v]
    BY <1>4 DEF Handler, ProcessSearch, AcquireLock, LoadPrevious, Compare,
                StoreState, StoreDiff, ReleaseLock, CallFails, Ack, Nack,
                Retire, TypeOK
  <2> QED BY <1>1, <2>1, <2>2, <2>3 DEF TypeOK
<1>5. CASE \/ DataChanges \/ EditQuery \/ ExpireLock \/ UNCHANGED vars
           \/ \E m \in Messages : PublishRefreshCommand(m) \/ LeaseLapses(m)
  BY <1>1, <1>5 DEF DataChanges, EditQuery, ExpireLock, vars,
                    PublishRefreshCommand, LeaseLapses
<1>6. CASE \/ \E w \in Workers : Crash(w)
           \/ \E w \in Workers, m \in Messages : Receive(w, m)
  BY <1>1, <1>6 DEF Crash, Receive, Retire, GoTo, TypeOK
<1> QED BY <1>2, <1>3, <1>4, <1>5, <1>6 DEF Next

\* No event is announced twice and none that is not committed, whatever Pub/Sub
\* redelivers and whenever a run dies.
THEOREM AnnouncedOnceHolds == Spec => []AnnouncedOnce
<1>1. Init => AnnouncementInv
  BY DEF Init, AnnouncementInv, AnnouncedOnce, HasEvent
<1>2. AnnouncementInv => AnnouncedOnce
  BY DEF AnnouncementInv
<1> QED BY <1>1, <1>2, Typing, AnnouncementStep, PTL DEF Spec

\* The blob path changes with the event only; acquiring, expiring and releasing the
\* lock keep it.
LEMMA PathStep ==
    ASSUME TypeOK, PathIsLastCommit, [Next]_vars
    PROVE  PathIsLastCommit'
<1>1. ASSUME log' = log, row'.path = row.path
      PROVE  PathIsLastCommit'
  BY <1>1 DEF PathIsLastCommit, LastState
<1>2. ASSUME NEW w \in Workers, PublishEvent(w), MayCommit(w)
      PROVE  PathIsLastCommit'
  <2>1. row'.path = result[w].id
    BY <1>2 DEF PublishEvent, Commit, TypeOK, Row
  <2>2. log' # <<>> /\ log'[Len(log')].state = result[w]
    <3>0. /\ log' \in Seq(Event) /\ Len(log') = Len(log) + 1
          /\ log'[Len(log) + 1] = [id |-> trigger[w], base |-> base[w],
                                   state |-> result[w]]
      BY <1>2, CommitExtends
    <3>1. /\ log' \in Seq(Event) /\ Len(log') = Len(log) + 1
          /\ log'[Len(log) + 1].state = result[w]
      BY <3>0
    <3>2. Len(log) \in Nat
      BY LenProperties DEF TypeOK
    <3>3. log' # <<>>
      BY <3>1, <3>2, EmptySeq
    <3> QED BY <3>1, <3>3
  <2> QED BY <2>1, <2>2 DEF PathIsLastCommit, LastState
<1>3. ASSUME NEW w \in Workers, Handler(w), ~(PublishEvent(w) /\ MayCommit(w))
      PROVE  log' = log /\ row'.path = row.path
  BY <1>3 DEF Handler, ProcessSearch, AcquireLock, LoadPrevious, Compare,
              StoreState, StoreDiff, PublishEvent, PublishNotification,
              ReleaseLock, CallFails, Ack, Nack, TypeOK, Row
<1>4. CASE \/ DataChanges \/ EditQuery \/ ExpireLock \/ UNCHANGED vars
           \/ \E m \in Messages : PublishRefreshCommand(m) \/ LeaseLapses(m)
           \/ \E w \in Workers : Crash(w)
           \/ \E w \in Workers, m \in Messages : Receive(w, m)
  BY <1>1, <1>4 DEF DataChanges, EditQuery, ExpireLock, vars, TypeOK, Row,
                    PublishRefreshCommand, LeaseLapses, Crash, Receive
<1> QED BY <1>1, <1>2, <1>3, <1>4 DEF Next

\* The row always names the state of the event committed last.
THEOREM PathIsLastCommitHolds == Spec => []PathIsLastCommit
<1>1. Init => PathIsLastCommit
  BY DEF Init, PathIsLastCommit, LastState, NoState
<1> QED BY <1>1, Typing, PathStep, PTL DEF Spec

-----------------------------------------------------------------------------
(* The lineage of the history, when a lease outlives its run *)

\* Every run that is not idle holds the lease of its message.
Leased ==
    /\ \A w \in Workers : pc[w] # "idle" => msg[trigger[w]].holder = w
    /\ \A m \in Messages : msg[m].holder # NoOne => msg[m].st # "unsent"

\* Snapshots in the history carry identifiers the clock has given out, and
\* later events carry larger ones.
Stamped ==
    \A i \in DOMAIN log : 0 < log[i].state.id /\ log[i].state.id <= clock

Increasing ==
    \A i, j \in DOMAIN log : i < j => log[i].state.id < log[j].state.id

Writing == {"storeState", "storeDiff", "publishEvent"}
Reading == {"compare"} \cup Writing

\* A run that has read the previous state and still owns the lock has read the
\* state of the last event.
Fenced ==
    \A w \in Workers :
        pc[w] \in Reading /\ row.owner = trigger[w] => base[w] = LastState

\* What a run is about to commit differs from what it has read and, if it still
\* owns the lock, is newer than the last event.
Fresh ==
    \A w \in Workers :
        pc[w] \in Writing =>
            /\ 0 < result[w].id /\ result[w].id <= clock
            /\ ShouldWrite(base[w], result[w])
            /\ row.owner = trigger[w] => LastState.id < result[w].id

ChainInv ==
    /\ Stamped
    /\ Increasing
    /\ Fenced
    /\ Fresh
    /\ Lineage

\* With no lapse of a lease, only the run itself gives its lease up.
LEMMA LeasedStep ==
    ASSUME TypeOK, ~EarlyRedelivery, Leased, [Next]_vars
    PROVE  Leased'
<1> USE DEF TypeOK
<1>n. NoOne \notin Workers
  BY NoOneAssumption
<1>1. ASSUME pc' = pc, trigger' = trigger,
             \A m \in Messages :
                 /\ msg[m].holder # NoOne => msg'[m] = msg[m]
                 /\ msg'[m].holder # NoOne => msg[m].holder # NoOne
      PROVE  Leased'
  BY <1>1, <1>n DEF Leased
<1>2. CASE \/ DataChanges \/ ExpireLock \/ UNCHANGED vars
           \/ \E m \in Messages : LeaseLapses(m)
  BY <1>1, <1>2 DEF DataChanges, ExpireLock, vars, LeaseLapses
<1>3. ASSUME NEW m \in Messages, NEW q \in Nat, Send(m, q)
      PROVE  \A k \in Messages :
                 /\ msg[k].holder # NoOne => msg'[k] = msg[k]
                 /\ msg'[k].holder # NoOne => msg[k].holder # NoOne
  BY <1>3 DEF Leased, Send
<1>4. CASE EditQuery \/ \E m \in Messages : PublishRefreshCommand(m)
  <2>1. CASE UNCHANGED msg
    BY <1>1, <1>4, <2>1 DEF EditQuery, PublishRefreshCommand
  <2>2. \/ UNCHANGED msg
        \/ \E m \in Messages, q \in Nat : Send(m, q)
    BY <1>4 DEF EditQuery, PublishRefreshCommand
  <2>3. pc' = pc /\ trigger' = trigger
    BY <1>4 DEF EditQuery, PublishRefreshCommand
  <2> QED BY <1>1, <1>3, <2>1, <2>2, <2>3
<1>5. ASSUME NEW w \in Workers, NEW m \in Messages, Receive(w, m)
      PROVE  Leased'
  <2>1. /\ msg'[m].holder = w /\ msg'[m].st = "pending"
        /\ \A k \in Messages \ {m} : msg'[k] = msg[k]
    BY <1>5 DEF Receive, Message
  <2>2. /\ pc' = [pc EXCEPT ![w] = "acquire"]
        /\ trigger' = [trigger EXCEPT ![w] = m]
        /\ msg[m].holder = NoOne
    BY <1>5 DEF Receive, GoTo
  <2>3. \A v \in Workers \ {w} : pc'[v] # "idle" => trigger'[v] \in Messages \ {m}
    BY <2>2, <1>n DEF Leased
  <2> QED BY <2>1, <2>2, <2>3 DEF Leased
<1>6. ASSUME NEW w \in Workers, pc[w] # "idle", Retire(w),
             \A k \in Messages \ {trigger[w]} : msg'[k] = msg[k],
             msg'[trigger[w]].holder = NoOne
      PROVE  Leased'
  <2>1. \A v \in Workers \ {w} :
            pc[v] # "idle" => trigger[v] \in Messages \ {trigger[w]}
    BY <1>6 DEF Leased
  <2> QED BY <1>6, <2>1 DEF Leased, Retire, GoTo
<1>7. ASSUME NEW w \in Workers, Crash(w) \/ Ack(w) \/ Nack(w)
      PROVE  Leased'
  <2>1. pc[w] # "idle" /\ Retire(w)
    BY <1>7 DEF Crash, Ack, Nack
  <2>2. trigger[w] \in Messages /\ msg[trigger[w]].holder = w /\ Holds(w)
    BY <2>1, NoOneAssumption DEF Leased, Holds
  <2>3. \/ msg' = [msg EXCEPT ![trigger[w]] = Requeued(msg[trigger[w]])]
        \/ msg' = [msg EXCEPT ![trigger[w]] =
                      [msg[trigger[w]] EXCEPT !.holder = NoOne, !.st = "acked"]]
    BY <1>7, <2>2 DEF Crash, Ack, Nack
  <2>4. /\ \A k \in Messages \ {trigger[w]} : msg'[k] = msg[k]
        /\ msg'[trigger[w]].holder = NoOne
    <3>1. \A r \in Message :
              /\ Requeued(r).holder = NoOne
              /\ [r EXCEPT !.holder = NoOne, !.st = "acked"].holder = NoOne
      BY DEF Requeued, Message
    <3>2. msg[trigger[w]] \in Message
      BY <2>2
    <3>3. \E r : r.holder = NoOne /\ msg' = [msg EXCEPT ![trigger[w]] = r]
      BY <2>3, <3>1, <3>2
    <3> QED BY <2>2, <3>3
  <2> QED BY <1>6, <2>1, <2>4
<1>8. ASSUME NEW w \in Workers, ProcessSearch(w)
      PROVE  Leased'
  <2>1. msg' = msg /\ trigger' = trigger /\ pc[w] # "idle"
    BY <1>8 DEF ProcessSearch, AcquireLock, LoadPrevious, Compare, StoreState,
                StoreDiff, PublishEvent, PublishNotification, ReleaseLock,
                CallFails, AfterFailure, Steps
  <2>2. \A v \in Workers : v # w => pc'[v] = pc[v]
    BY <1>8 DEF ProcessSearch, AcquireLock, LoadPrevious, Compare, StoreState,
                StoreDiff, PublishEvent, PublishNotification, ReleaseLock,
                CallFails, GoTo
  <2> QED BY <2>1, <2>2 DEF Leased
<1> QED
  BY <1>2, <1>4, <1>5, <1>7, <1>8 DEF Next, Handler

\* Two runs never work on the same message.
LEMMA OneRunPerTrigger ==
    ASSUME Leased, NEW v \in Workers, NEW w \in Workers,
           pc[v] # "idle", pc[w] # "idle", trigger[v] = trigger[w]
    PROVE  v = w
BY DEF Leased

\* The event with the latest timestamp is the one committed last.
LEMMA LatestIsLast ==
    ASSUME TypeOK, Increasing
    PROVE  LatestState = LastState
<1>1. CASE log = <<>>
  BY <1>1 DEF LatestState, LastState
<1>2. CASE log # <<>>
  <2> DEFINE n == Len(log)
  <2>1. log \in Seq(Event) /\ n \in Nat \ {0} /\ DOMAIN log = 1 .. n
    BY <1>2, EmptySeq, LenProperties DEF TypeOK
  <2>2. n \in DOMAIN log /\ \A i \in DOMAIN log : log[i].state.id \in Nat
    <3>1. \A i \in 1 .. n : log[i].state.id \in Nat
      <4>1. \A i \in 1 .. n : log[i] \in Event
        BY <2>1, ElementOfSeq
      <4>2. \A e \in Event : e.state.id \in Nat
        BY DEF Event, State
      <4> QED BY <4>1, <4>2
    <3>2. n \in 1 .. n
      BY <2>1
    <3> QED BY <2>1, <3>1, <3>2
  <2>3. \A i \in DOMAIN log : i # n => log[i].state.id < log[n].state.id
    BY <2>1, <2>2 DEF Increasing
  <2>4. \A e \in Events : e # log[n] => e.state.id < log[n].state.id
    BY <2>3 DEF Events
  <2>5. log[n] \in Events /\ \A e \in Events : e.state.id <= log[n].state.id
    BY <2>2, <2>3 DEF Events
  <2>6. \A e \in Events :
            (\A f \in Events : f.state.id <= e.state.id) => e = log[n]
    BY <2>2, <2>4, <2>5 DEF Events
  <2>7. LatestEvent = log[n]
    BY <2>5, <2>6 DEF LatestEvent
  <2> QED BY <1>2, <2>7 DEF LatestState, LastState
<1> QED BY <1>1, <1>2

\* The tip of the history is a state, no newer than the clock.
LEMMA LastIsStamped ==
    ASSUME TypeOK, Stamped
    PROVE  LastState \in State /\ LastState.id <= clock
<1>1. CASE log = <<>>
  BY <1>1 DEF LastState, NoState, State, TypeOK
<1>2. CASE log # <<>>
  <2>1. Len(log) \in 1 .. Len(log) /\ DOMAIN log = 1 .. Len(log)
    BY <1>2, EmptySeq, LenProperties DEF TypeOK
  <2>2. log[Len(log)] \in Event
    BY <2>1, ElementOfSeq DEF TypeOK
  <2> QED BY <1>2, <2>1, <2>2 DEF LastState, Stamped, Event
<1> QED BY <1>1, <1>2

\* Steps that leave the history alone and let no run advance to reading or
\* writing, nor into the lock.
LEMMA QuietStep ==
    ASSUME ChainInv, log' = log, clock' = clock,
           \A w \in Workers : pc'[w] \in Reading =>
               /\ pc[w] \in Reading
               /\ pc'[w] \in Writing => pc[w] \in Writing
               /\ trigger'[w] = trigger[w]
               /\ base'[w] = base[w] /\ result'[w] = result[w]
               /\ row'.owner = trigger[w] => row.owner = trigger[w]
    PROVE  ChainInv'
BY DEF ChainInv, Stamped, Increasing, Fenced, Fresh, Lineage, LastState,
       Reading, Writing, ShouldWrite

\* The last event and the tip, in terms of indices.
LEMMA TipOfLog ==
    ASSUME TypeOK
    PROVE  /\ Len(log) \in Nat /\ DOMAIN log = 1 .. Len(log)
           /\ \A i \in 1 .. Len(log) :
                  log[i].state \in State /\ log[i].state.id \in Nat
           /\ LastState = IF Len(log) = 0 THEN NoState ELSE log[Len(log)].state
<1>1. log \in Seq(Event) /\ Len(log) \in Nat /\ DOMAIN log = 1 .. Len(log)
  BY LenProperties DEF TypeOK
<1>2. \A i \in 1 .. Len(log) : log[i] \in Event
  BY <1>1, ElementOfSeq
<1>3. log = <<>> <=> Len(log) = 0
  BY <1>1, EmptySeq
<1> QED BY <1>1, <1>2, <1>3 DEF LastState, Event, State

\* A commit extends the lineage and leaves every other run out of the lock.
LEMMA CommitStep ==
    ASSUME TypeOK, Leased, ChainInv,
           NEW w \in Workers, PublishEvent(w), MayCommit(w)
    PROVE  /\ ChainInv'
           /\ base[w] = LastState
           /\ LastState.id < result[w].id
           /\ ShouldWrite(base[w], result[w])
<1> DEFINE n == Len(log)
           new == [id |-> trigger[w], base |-> base[w], state |-> result[w]]
<1>1. /\ pc[w] = "publishEvent" /\ row.owner = trigger[w]
      /\ trigger' = trigger /\ clock' = clock
      /\ pc' = [pc EXCEPT ![w] = "notify"]
      /\ base' = [base EXCEPT ![w] = NoState]
      /\ result' = [result EXCEPT ![w] = NoState]
      /\ row'.owner = row.owner
  BY DEF PublishEvent, MayCommit, Commit, GoTo, Forget, TypeOK, Row
<1>2. /\ n \in Nat /\ DOMAIN log = 1 .. n /\ DOMAIN log' = 1 .. n + 1
      /\ \A i \in 1 .. n : log'[i] = log[i]
      /\ log'[n + 1] = new
  BY CommitExtends, TipOfLog
<1>3. /\ base[w] = LastState
      /\ 0 < result[w].id /\ result[w].id <= clock
      /\ LastState.id < result[w].id
      /\ ShouldWrite(base[w], result[w])
  BY <1>1 DEF ChainInv, Fenced, Fresh, Reading, Writing
<1>4. log'[n + 1].state = result[w] /\ log'[n + 1].base = LastState
  BY <1>2, <1>3
<1>5. /\ \A i \in 1 .. n : log[i].state.id \in Nat
      /\ LastState = IF n = 0 THEN NoState ELSE log[n].state
      /\ result[w].id \in Nat
  BY TipOfLog DEF TypeOK, State
<1> HIDE DEF n, new
<1>6. Stamped'
  <2> SUFFICES ASSUME NEW i \in 1 .. n + 1
               PROVE  0 < log'[i].state.id /\ log'[i].state.id <= clock
    BY <1>1, <1>2 DEF Stamped
  <2>1. CASE i = n + 1
    BY <2>1, <1>3, <1>4
  <2>2. CASE i \in 1 .. n
    BY <2>2, <1>2 DEF ChainInv, Stamped
  <2> QED BY <1>2, <2>1, <2>2
<1>7. Increasing'
  <2> SUFFICES ASSUME NEW i \in 1 .. n + 1, NEW j \in 1 .. n + 1, i < j
               PROVE  log'[i].state.id < log'[j].state.id
    BY <1>2 DEF Increasing
  <2>1. i \in 1 .. n
    BY <1>2
  <2>2. CASE j \in 1 .. n
    BY <2>1, <2>2, <1>2 DEF ChainInv, Increasing
  <2>3. CASE j = n + 1
    <3>1. i = n \/ log[i].state.id < log[n].state.id
      BY <2>1, <1>2 DEF ChainInv, Increasing
    <3>2. log[n].state.id < result[w].id
      BY <2>1, <1>2, <1>3, <1>5
    <3>3. log[i].state.id < result[w].id
      <4>1. n \in 1 .. n
        BY <2>1, <1>2
      <4> QED BY <3>1, <3>2, <2>1, <4>1, <1>5
    <3> QED BY <2>1, <2>3, <3>3, <1>2, <1>4
  <2> QED BY <1>2, <2>2, <2>3
<1>8. \A v \in Workers : pc'[v] \in Reading =>
          v # w /\ pc[v] \in Reading /\ trigger[v] # trigger[w]
  BY <1>1, OneRunPerTrigger DEF Reading, Writing, TypeOK
<1>9. Fenced'
  BY <1>1, <1>8 DEF Fenced
<1>10. Fresh'
  <2> SUFFICES ASSUME NEW v \in Workers, pc'[v] \in Writing
               PROVE  /\ 0 < result'[v].id /\ result'[v].id <= clock'
                      /\ ShouldWrite(base'[v], result'[v])
                      /\ row'.owner # trigger'[v]
    BY DEF Fresh
  <2>1. v # w /\ trigger[v] # trigger[w]
    BY <1>8 DEF Reading
  <2>2. /\ pc[v] \in Writing /\ result'[v] = result[v] /\ base'[v] = base[v]
    BY <1>1, <2>1 DEF TypeOK
  <2> QED BY <1>1, <2>1, <2>2 DEF ChainInv, Fresh
<1>11. Lineage'
  <2> SUFFICES ASSUME NEW i \in 1 .. n + 1
               PROVE  log'[i].base = IF i = 1 THEN NoState ELSE log'[i - 1].state
    BY <1>2 DEF Lineage
  <2>1. CASE i = n + 1
    <3>1. CASE n = 0
      BY <2>1, <3>1, <1>4, <1>5
    <3>2. CASE n # 0
      <4>1. n \in 1 .. n /\ i - 1 = n /\ i # 1
        BY <2>1, <3>2, <1>2
      <4> QED BY <2>1, <3>2, <4>1, <1>2, <1>4, <1>5
    <3> QED BY <3>1, <3>2
  <2>2. CASE i \in 1 .. n
    <3>1. i = 1 \/ i - 1 \in 1 .. n
      BY <2>2, <1>2
    <3> QED BY <2>2, <3>1, <1>2 DEF ChainInv, Lineage
  <2> QED BY <1>2, <2>1, <2>2
<1> QED BY <1>3, <1>6, <1>7, <1>9, <1>10, <1>11 DEF ChainInv

\* Every step keeps the chain as long as only one run works on a message: the run
\* that commits is the only one that has held the lock since it read its base.
LEMMA ChainStep ==
    ASSUME TypeOK, Leased, ChainInv, [Next]_vars
    PROVE  ChainInv'
<1>1. CASE \/ DataChanges \/ EditQuery \/ ExpireLock \/ UNCHANGED vars
           \/ \E m \in Messages : PublishRefreshCommand(m) \/ LeaseLapses(m)
  <2>1. /\ log' = log /\ clock' = clock /\ pc' = pc /\ trigger' = trigger
        /\ base' = base /\ result' = result /\ row'.owner = row.owner
    BY <1>1 DEF DataChanges, EditQuery, ExpireLock, vars, TypeOK, Row,
                PublishRefreshCommand, LeaseLapses
  <2> QED BY <2>1, QuietStep
<1>2. ASSUME NEW w \in Workers, NEW m \in Messages, Receive(w, m)
      PROVE  ChainInv'
  <2>1. /\ log' = log /\ clock' = clock /\ base' = base /\ result' = result
        /\ row' = row
        /\ pc' = [pc EXCEPT ![w] = "acquire"]
        /\ trigger' = [trigger EXCEPT ![w] = m]
    BY <1>2 DEF Receive, GoTo
  <2> QED BY <2>1, QuietStep DEF TypeOK, Reading, Writing
<1>3. ASSUME NEW w \in Workers, log' = log, clock' = clock,
             row' = row \/ row' = [row EXCEPT !.owner = NoOne, !.expired = FALSE],
             pc'[w] \notin Reading,
             \A v \in Workers \ {w} :
                 /\ pc'[v] = pc[v] /\ trigger'[v] = trigger[v]
                 /\ base'[v] = base[v] /\ result'[v] = result[v]
      PROVE  ChainInv'
  <2>1. \A v \in Workers \ {w} : pc'[v] \in Reading => trigger[v] # NoOne
    BY <1>3, NoOneAssumption DEF TypeOK, Reading, Writing
  <2>2. row'.owner # NoOne => row'.owner = row.owner
    BY <1>3 DEF TypeOK, Row
  <2> QED BY <1>3, <2>1, <2>2, QuietStep
<1>4. ASSUME NEW w \in Workers,
             \/ Crash(w) \/ Ack(w) \/ Nack(w) \/ PublishNotification(w)
             \/ ReleaseLock(w) \/ CallFails(w)
      PROVE  ChainInv'
  <2>1. log' = log /\ clock' = clock
    BY <1>4 DEF Crash, Ack, Nack, PublishNotification, ReleaseLock, CallFails
  <2>2. row' = row \/ row' = [row EXCEPT !.owner = NoOne, !.expired = FALSE]
    BY <1>4 DEF Crash, Ack, Nack, PublishNotification, ReleaseLock, CallFails
  <2>3. pc'[w] \notin Reading
    BY <1>4 DEF Crash, Ack, Nack, PublishNotification, ReleaseLock, CallFails,
                Retire, GoTo, AfterFailure, Steps, Reading, Writing, TypeOK
  <2>4. \A v \in Workers \ {w} :
            /\ pc'[v] = pc[v] /\ trigger'[v] = trigger[v]
            /\ base'[v] = base[v] /\ result'[v] = result[v]
    BY <1>4 DEF Crash, Ack, Nack, PublishNotification, ReleaseLock, CallFails,
                Retire, Forget, GoTo, TypeOK
  <2> QED BY <1>3, <2>1, <2>2, <2>3, <2>4
<1>5. ASSUME NEW w \in Workers, AcquireLock(w)
      PROVE  ChainInv'
  <2>1. /\ log' = log /\ clock' = clock /\ trigger' = trigger
        /\ base' = base /\ result' = result /\ pc[w] = "acquire"
        /\ pc'[w] \in {"nack", "load"}
        /\ \A v \in Workers \ {w} : pc'[v] = pc[v]
    BY <1>5 DEF AcquireLock, GoTo, TypeOK
  <2>2. row'.owner = row.owner \/ row'.owner = trigger[w]
    BY <1>5 DEF AcquireLock, TypeOK, Row
  <2>3. \A v \in Workers \ {w} : pc[v] \in Reading => trigger[v] # trigger[w]
    BY <2>1, OneRunPerTrigger DEF Reading, Writing
  <2> QED BY <2>1, <2>2, <2>3, QuietStep DEF Reading, Writing
<1>6. ASSUME NEW w \in Workers, LoadPrevious(w)
      PROVE  ChainInv'
  <2>1. /\ log' = log /\ clock' = clock /\ trigger' = trigger /\ row' = row
        /\ result' = result
        /\ \A v \in Workers \ {w} : pc'[v] = pc[v] /\ base'[v] = base[v]
    BY <1>6 DEF LoadPrevious, GoTo, TypeOK
  <2>2. \/ pc'[w] = "release"
        \/ pc'[w] = "compare" /\ base'[w] = LatestState
    BY <1>6 DEF LoadPrevious, GoTo, TypeOK
  <2>3. LatestState = LastState
    BY LatestIsLast DEF ChainInv
  <2>4. LastState' = LastState
    BY <2>1 DEF LastState
  <2>5. Fenced'
    BY <2>1, <2>2, <2>3, <2>4 DEF ChainInv, Fenced, Reading, Writing
  <2>6. Fresh'
    BY <2>1, <2>2, <2>4 DEF ChainInv, Fresh, Reading, Writing, ShouldWrite
  <2> QED BY <2>1, <2>5, <2>6 DEF ChainInv, Stamped, Increasing, Lineage
<1>7. ASSUME NEW w \in Workers, Compare(w)
      PROVE  ChainInv'
  <2> DEFINE new == [id |-> clock + 1, query |-> msg[trigger[w]].query,
                     data |-> data]
  <2>1. CASE ~ShouldWrite(base[w], new)
    <3>1. /\ log' = log /\ clock' = clock /\ row' = row /\ trigger' = trigger
          /\ pc' = [pc EXCEPT ![w] = "release"]
          /\ base' = [base EXCEPT ![w] = NoState]
          /\ result' = [result EXCEPT ![w] = NoState]
      BY <1>7, <2>1 DEF Compare, Forget, GoTo
    <3> QED BY <1>3, <3>1 DEF TypeOK, Reading, Writing
  <2>2. CASE ShouldWrite(base[w], new)
    <3>1. /\ log' = log /\ clock' = clock + 1 /\ row' = row
          /\ trigger' = trigger /\ base' = base /\ pc[w] = "compare"
          /\ pc' = [pc EXCEPT ![w] = "storeState"]
          /\ result' = [result EXCEPT ![w] = new]
      BY <1>7, <2>2 DEF Compare, GoTo
    <3>2. LastState' = LastState /\ LastState.id \in Nat /\ LastState.id <= clock
      BY <3>1, LastIsStamped DEF LastState, State, ChainInv
    <3>3. clock \in Nat /\ new.id = clock + 1 /\ result'[w] = new
      BY <3>1 DEF TypeOK
    <3>4. Stamped'
      <4>1. \A i \in DOMAIN log : log[i].state.id \in Nat
        <5>1. \A i \in DOMAIN log : log[i] \in Event
          BY ElementOfSeq, LenProperties DEF TypeOK
        <5> QED BY <5>1 DEF Event, State
      <4> QED BY <3>1, <3>3, <4>1 DEF ChainInv, Stamped
    <3>5. Fenced'
      BY <3>1, <3>2 DEF ChainInv, Fenced, Reading, Writing, TypeOK
    <3>6. Fresh'
      <4>1. ASSUME NEW v \in Workers \ {w}, pc'[v] \in Writing
            PROVE  /\ 0 < result'[v].id /\ result'[v].id <= clock'
                   /\ ShouldWrite(base'[v], result'[v])
                   /\ row'.owner = trigger'[v] => LastState'.id < result'[v].id
        <5>1. pc[v] \in Writing /\ result'[v] = result[v] /\ result[v] \in State
          BY <3>1, <4>1 DEF TypeOK
        <5>2. result[v].id \in Nat
          BY <5>1 DEF State
        <5>3. /\ 0 < result[v].id /\ result[v].id <= clock
              /\ ShouldWrite(base[v], result[v])
              /\ row.owner = trigger[v] => LastState.id < result[v].id
          BY <5>1 DEF ChainInv, Fresh
        <5> QED BY <3>1, <3>2, <3>3, <5>1, <5>2, <5>3
      <4>2. /\ 0 < result'[w].id /\ result'[w].id <= clock'
            /\ ShouldWrite(base'[w], result'[w])
            /\ LastState'.id < result'[w].id
        <5> HIDE DEF new
        <5> QED BY <3>1, <3>2, <3>3, <2>2
      <4> QED BY <4>1, <4>2 DEF Fresh
    <3> QED BY <3>1, <3>4, <3>5, <3>6 DEF ChainInv, Increasing, Lineage
  <2> QED BY <2>1, <2>2
<1>8. ASSUME NEW w \in Workers, StoreState(w) \/ StoreDiff(w)
      PROVE  ChainInv'
  <2>1. /\ log' = log /\ clock' = clock /\ trigger' = trigger /\ row' = row
        /\ base' = base /\ result' = result /\ pc[w] \in Writing
        /\ \A v \in Workers \ {w} : pc'[v] = pc[v]
    BY <1>8 DEF StoreState, StoreDiff, GoTo, TypeOK, Writing
  <2> QED BY <2>1, QuietStep DEF Reading
<1>9. ASSUME NEW w \in Workers, PublishEvent(w)
      PROVE  ChainInv'
  <2>1. CASE ~MayCommit(w)
    <3>1. /\ log' = log /\ clock' = clock /\ row' = row /\ trigger' = trigger
          /\ pc' = [pc EXCEPT ![w] = "release"]
          /\ base' = [base EXCEPT ![w] = NoState]
          /\ result' = [result EXCEPT ![w] = NoState]
      BY <1>9, <2>1 DEF PublishEvent, Forget, GoTo
    <3> QED BY <1>3, <3>1 DEF TypeOK, Reading, Writing
  <2>2. CASE MayCommit(w)
    BY <1>9, <2>2, CommitStep
  <2> QED BY <2>1, <2>2
<1> QED
  BY <1>1, <1>2, <1>4, <1>5, <1>6, <1>7, <1>8, <1>9
  DEF Next, Handler, ProcessSearch

\* Without early redelivery the chain's invariant holds of every behaviour.
LEMMA ChainInvariance ==
    ASSUME ~EarlyRedelivery
    PROVE  Spec => [](TypeOK /\ Leased /\ ChainInv)
<1>1. Init => Leased
  BY DEF Init, Leased
<1>2. Init => ChainInv
  BY DEF Init, ChainInv, Stamped, Increasing, Fenced, Fresh, Lineage, Reading,
         Writing
<1> QED BY <1>1, <1>2, Typing, LeasedStep, ChainStep, PTL DEF Spec

\* As long as no lease lapses under a live run, the history is a chain: crashes,
\* failing calls, expiring locks and takeovers never make two events report
\* changes from the same starting point.
THEOREM LineageHolds ==
    ASSUME ~EarlyRedelivery
    PROVE  Spec => []Lineage
<1>1. ChainInv => Lineage
  BY DEF ChainInv
<1> QED BY <1>1, ChainInvariance, PTL
-----------------------------------------------------------------------------
(* The producer implements the append-only history *)

\* Only a commit changes the log and only a notification the topic.
LEMMA LogAndTopicMoves ==
    ASSUME TypeOK, [Next]_vars
    PROVE  \/ log' = log /\ topic' = topic
           \/ \E w \in Workers : PublishEvent(w) /\ MayCommit(w)
           \/ \E w \in Workers : PublishNotification(w)
<1>1. ASSUME NEW w \in Workers, Handler(w),
             ~(PublishEvent(w) /\ MayCommit(w)), ~PublishNotification(w)
      PROVE  log' = log /\ topic' = topic
  BY <1>1 DEF Handler, ProcessSearch, AcquireLock, LoadPrevious, Compare,
              StoreState, StoreDiff, PublishEvent, ReleaseLock, CallFails, Ack,
              Nack
<1>2. CASE \/ DataChanges \/ EditQuery \/ ExpireLock \/ UNCHANGED vars
           \/ \E m \in Messages : PublishRefreshCommand(m) \/ LeaseLapses(m)
           \/ \E w \in Workers : Crash(w)
           \/ \E w \in Workers, m \in Messages : Receive(w, m)
  BY <1>2 DEF DataChanges, EditQuery, ExpireLock, vars, PublishRefreshCommand,
              LeaseLapses, Crash, Receive
<1> QED BY <1>1, <1>2 DEF Next

\* A commit appends an entry computed against the tip of the history.
LEMMA CommitExtendsHistory ==
    ASSUME TypeOK, Leased, ChainInv,
           NEW w \in Workers, PublishEvent(w), MayCommit(w)
    PROVE  History!Extend(trigger[w])
<1> DEFINE new == [id |-> trigger[w], base |-> base[w], state |-> result[w]]
<1>1. /\ ~HasEvent(trigger[w]) /\ topic' = topic /\ log' = Append(log, new)
  BY DEF PublishEvent, MayCommit, Commit
<1>2. Len(log') = Len(log) + 1 /\ log'[Len(log')] = new
  BY CommitExtends
<1>3. History!Tip = LastState
  BY DEF History!Tip, History!Empty, LastState, NoState
<1>4. /\ base[w] = LastState
      /\ LastState.id < result[w].id
      /\ ShouldWrite(base[w], result[w])
  BY CommitStep
<1>5. result[w].id > LastState.id
  <2>1. result[w].id \in Nat /\ LastState.id \in Nat
    BY LastIsStamped DEF TypeOK, State, ChainInv
  <2> QED BY <1>4, <2>1
<1>6. /\ new.id = trigger[w] /\ new.base = History!Tip
      /\ new.state.id > History!Tip.id
      /\ History!Differs(History!Tip, new.state)
  BY <1>3, <1>4, <1>5 DEF History!Differs, ShouldWrite
<1>7. trigger[w] \notin History!Recorded
  BY <1>1 DEF History!Recorded, HasEvent
<1>8. {m \in Messages : topic[m] > 0}' = {m \in Messages : topic[m] > 0}
  BY <1>1
<1> HIDE DEF new
<1> QED BY <1>1, <1>2, <1>6, <1>7, <1>8 DEF History!Extend

\* A notification announces an entry that was not announced before.
LEMMA NotificationAnnounces ==
    ASSUME TypeOK, AnnouncementInv, NEW w \in Workers, PublishNotification(w)
    PROVE  History!Announce(trigger[w])
<1>1. /\ trigger[w] \in Messages /\ log' = log
      /\ topic' = [topic EXCEPT ![trigger[w]] = topic[trigger[w]] + 1]
      /\ pc[w] = "notify" /\ topic \in [Messages -> Nat]
  BY DEF PublishNotification, TypeOK
<1>2. HasEvent(trigger[w]) /\ topic[trigger[w]] = 0
  BY <1>1 DEF AnnouncementInv
<1>3. {m \in Messages : topic'[m] > 0}
          = {m \in Messages : topic[m] > 0} \cup {trigger[w]}
  BY <1>1, <1>2
<1>4. trigger[w] \in History!Recorded
  BY <1>2 DEF HasEvent, History!Recorded
<1>5. trigger[w] \notin {m \in Messages : topic[m] > 0}
  BY <1>2
<1> QED BY <1>1, <1>3, <1>4, <1>5 DEF History!Announce

\* Every step of the producer extends the history, announces an entry, or leaves
\* both alone.
LEMMA HistoryStep ==
    ASSUME TypeOK, Leased, ChainInv, AnnouncementInv, [Next]_vars
    PROVE  [History!Next]_(History!hvars)
<1>1. CASE log' = log /\ topic' = topic
  BY <1>1 DEF History!hvars
<1>2. ASSUME NEW w \in Workers, PublishEvent(w), MayCommit(w)
      PROVE  History!Next
  <2>1. trigger[w] \in Messages
    BY <1>2 DEF PublishEvent, TypeOK
  <2> QED BY <1>2, <2>1, CommitExtendsHistory DEF History!Next
<1>3. ASSUME NEW w \in Workers, PublishNotification(w)
      PROVE  History!Next
  <2>1. trigger[w] \in Messages
    BY <1>3 DEF PublishNotification, TypeOK
  <2>2. History!Announce(trigger[w])
    BY <1>3, NotificationAnnounces
  <2> QED BY <2>1, <2>2 DEF History!Next, History!Announce
<1> QED BY <1>1, <1>2, <1>3, LogAndTopicMoves

\* Locks, leases, blobs, crashes and retries are invisible to a reader of the
\* history, as long as no lease lapses under a live run.
THEOREM HistoryRefined ==
    ASSUME ~EarlyRedelivery
    PROVE  Spec => ImplementsHistory
<1>1. Init => History!Init
  <2> SUFFICES ASSUME Init PROVE History!Init
    OBVIOUS
  <2>1. {m \in Messages : topic[m] > 0} = {}
    BY DEF Init
  <2> QED BY <2>1 DEF Init, History!Init
<1>2. Spec => []AnnouncementInv
  <2>1. Init => AnnouncementInv
    BY DEF Init, AnnouncementInv, AnnouncedOnce, HasEvent
  <2> QED BY <2>1, Typing, AnnouncementStep, PTL DEF Spec
<1> QED
  BY <1>1, <1>2, ChainInvariance, HistoryStep, PTL
  DEF Spec, ImplementsHistory, History!Spec
-----------------------------------------------------------------------------
(* The blobs of the history, when closing a blob writer reports its failure *)

\* A run past StoreState has its state in storage.
StoredInv ==
    /\ EventBlobsExist
    /\ \A w \in Workers :
           pc[w] \in {"storeDiff", "publishEvent"} => result[w] \in states

\* A run passes StoreState only with its state in storage, and blobs are never
\* removed.
LEMMA StoredStep ==
    ASSUME TypeOK, ~LossyClose, StoredInv, [Next]_vars
    PROVE  StoredInv'
<1>1. ASSUME log' = log, states \subseteq states',
             \A w \in Workers : pc'[w] \in {"storeDiff", "publishEvent"} =>
                 \/ pc[w] \in {"storeDiff", "publishEvent"} /\ result'[w] = result[w]
                 \/ result'[w] \in states'
      PROVE  StoredInv'
  BY <1>1 DEF StoredInv, EventBlobsExist
<1>2. ASSUME NEW w \in Workers, PublishEvent(w), MayCommit(w)
      PROVE  StoredInv'
  <2>1. /\ pc[w] = "publishEvent" /\ states' = states
        /\ \A v \in Workers \ {w} : pc'[v] = pc[v] /\ result'[v] = result[v]
        /\ pc'[w] = "notify"
    BY <1>2 DEF PublishEvent, Forget, GoTo, TypeOK
  <2>2. \A i \in DOMAIN log' : log'[i].state \in states
    <3>1. /\ Len(log) \in Nat /\ DOMAIN log = 1 .. Len(log)
          /\ DOMAIN log' = 1 .. Len(log) + 1
          /\ \A i \in 1 .. Len(log) : log'[i] = log[i]
          /\ log'[Len(log) + 1] = [id |-> trigger[w], base |-> base[w],
                                   state |-> result[w]]
      BY <1>2, CommitExtends, TipOfLog
    <3>2. \A i \in 1 .. Len(log) : log'[i].state \in states
      BY <3>1 DEF StoredInv, EventBlobsExist
    <3>3. log'[Len(log) + 1].state \in states
      BY <2>1, <3>1 DEF StoredInv
    <3> QED BY <3>1, <3>2, <3>3
  <2> QED BY <2>1, <2>2 DEF StoredInv, EventBlobsExist
<1>3. ASSUME NEW w \in Workers, StoreState(w)
      PROVE  StoredInv'
  <2>1. /\ log' = log /\ states' = states \cup {result[w]} /\ result' = result
        /\ \A v \in Workers \ {w} : pc'[v] = pc[v]
    BY <1>3 DEF StoreState, GoTo, TypeOK
  <2> QED BY <1>1, <2>1
<1>4. ASSUME NEW w \in Workers, Handler(w) \/ Crash(w), ~StoreState(w),
             ~(PublishEvent(w) /\ MayCommit(w))
      PROVE  StoredInv'
  <2>1. log' = log /\ states' = states
    BY <1>4 DEF Handler, ProcessSearch, AcquireLock, LoadPrevious, Compare,
                StoreDiff, PublishEvent, PublishNotification, ReleaseLock,
                CallFails, Ack, Nack, Crash
  <2>2. \A v \in Workers \ {w} : pc'[v] = pc[v] /\ result'[v] = result[v]
    BY <1>4 DEF Handler, ProcessSearch, AcquireLock, LoadPrevious, Compare,
                StoreDiff, PublishEvent, PublishNotification, ReleaseLock,
                CallFails, Ack, Nack, Crash, Retire, Forget, GoTo, TypeOK
  <2>3. pc'[w] \in {"storeDiff", "publishEvent"} =>
            pc[w] \in {"storeDiff", "publishEvent"} /\ result'[w] = result[w]
    BY <1>4 DEF Handler, ProcessSearch, AcquireLock, LoadPrevious, Compare,
                StoreDiff, PublishEvent, PublishNotification, ReleaseLock,
                CallFails, AfterFailure, Steps, Ack, Nack, Crash, Retire, GoTo,
                TypeOK
  <2> QED BY <1>1, <2>1, <2>2, <2>3
<1>5. CASE \/ DataChanges \/ EditQuery \/ ExpireLock \/ UNCHANGED vars
           \/ \E m \in Messages : PublishRefreshCommand(m) \/ LeaseLapses(m)
           \/ \E w \in Workers, m \in Messages : Receive(w, m)
  BY <1>1, <1>5 DEF DataChanges, EditQuery, ExpireLock, vars, TypeOK, GoTo,
                    PublishRefreshCommand, LeaseLapses, Receive
<1> QED BY <1>2, <1>3, <1>4, <1>5 DEF Next

\* Every event's state blob is in storage, so no later run is stuck on a missing
\* one, unless a writer loses a blob at close.
THEOREM EventBlobsExistHolds ==
    ASSUME ~LossyClose
    PROVE  Spec => []EventBlobsExist
<1>1. Init => StoredInv
  BY DEF Init, StoredInv, EventBlobsExist
<1>2. StoredInv => EventBlobsExist
  BY DEF StoredInv
<1> QED BY <1>1, <1>2, Typing, StoredStep, PTL DEF Spec
-----------------------------------------------------------------------------
(* What contention alone cannot lose, when blobs are stored and leases hold *)

\* No message is newer than the data, and a message with a run waits for its
\* settlement.
Sent ==
    \A m \in Messages :
        /\ msg[m].since <= data
        /\ msg[m].holder # NoOne => msg[m].st = "pending"

InLock == {"load", "compare", "notify", "release"} \cup Writing
Past == InLock \cup {"ack"}
BeforeCommit == {"acquire", "nack", "load", "compare"} \cup Writing

\* The message has had the lock: it is acknowledged, or its run is on its way
\* there.
Taken(m) ==
    \/ msg[m].st = "acked"
    \/ \E w \in Workers : trigger[w] = m /\ pc[w] \in Past

\* The history covers every message that has had the lock.
Covered ==
    \A m \in Messages : Taken(m) => log # <<>> /\ msg[m].since <= LastState.data

\* A message that may yet be committed has no event.
Uncommitted ==
    /\ \A m \in Messages :
           msg[m].st # "acked" /\ msg[m].holder = NoOne => ~HasEvent(m)
    /\ \A w \in Workers : pc[w] \in BeforeCommit => ~HasEvent(trigger[w])

\* The run that owns the lock answers for every message that has had it before:
\* with its result until the commit, with the history after it.
Answerable ==
    \A w \in Workers : row.owner = trigger[w] =>
        /\ pc[w] \in Writing =>
               \A m \in Messages : Taken(m) => msg[m].since <= result[w].data
        /\ pc[w] \in {"notify", "release"} => Covered

\* The lock is free when all it was needed for is covered, and has a live owner
\* otherwise.
Owned ==
    \/ row.owner = NoOne /\ Covered
    \/ \E w \in Workers : row.owner = trigger[w] /\ pc[w] \in InLock

CalmInv == calm => Uncommitted /\ Answerable /\ Owned

\* Data only grows, a message is sent with the data of its time, and only a
\* pending message is given to a run.
LEMMA SentStep ==
    ASSUME TypeOK, Sent, [Next]_vars
    PROVE  Sent'
<1> USE DEF TypeOK, Message
<1>n. NoOne \notin Workers
  BY NoOneAssumption
<1>1. ASSUME data' = data,
             \A m \in Messages :
                 /\ msg'[m].since = msg[m].since
                 /\ msg'[m].holder # NoOne => msg'[m].st = "pending"
      PROVE  Sent'
  BY <1>1 DEF Sent
<1>2. CASE DataChanges
  BY <1>2 DEF DataChanges, Sent
<1>3. CASE EditQuery \/ \E m \in Messages : PublishRefreshCommand(m)
  <2>1. data' = data /\ (msg' = msg \/ \E m \in Messages, q \in Nat : Send(m, q))
    BY <1>3 DEF EditQuery, PublishRefreshCommand
  <2>2. ASSUME NEW m \in Messages, NEW q \in Nat, Send(m, q)
        PROVE  \A k \in Messages :
                   /\ msg'[k].since <= data
                   /\ msg'[k].holder # NoOne => msg'[k].st = "pending"
    <3>1. msg'[m].since = data /\ msg'[m].holder = NoOne
      BY <2>2 DEF Send
    <3>2. \A k \in Messages \ {m} : msg'[k] = msg[k]
      BY <2>2 DEF Send
    <3>3. data <= data
      OBVIOUS
    <3>4. \A k \in Messages :
              msg[k].since <= data /\ (msg[k].holder # NoOne => msg[k].st = "pending")
      BY DEF Sent
    <3> HIDE DEF TypeOK, Message
    <3> QED BY <3>1, <3>2, <3>3, <3>4
  <2>3. CASE msg' = msg
    BY <2>1, <2>3 DEF Sent
  <2>4. CASE \E m \in Messages, q \in Nat : Send(m, q)
    <3>1. \A k \in Messages :
              /\ msg'[k].since <= data
              /\ msg'[k].holder # NoOne => msg'[k].st = "pending"
      BY <2>2, <2>4
    <3> QED BY <2>1, <3>1 DEF Sent
  <2> QED BY <2>1, <2>3, <2>4
<1>4. ASSUME NEW w \in Workers, NEW m \in Messages, Receive(w, m)
      PROVE  Sent'
  <2>1. /\ data' = data
        /\ msg'[m].since = msg[m].since /\ msg'[m].st = "pending"
        /\ \A k \in Messages \ {m} : msg'[k] = msg[k]
    BY <1>4 DEF Receive
  <2> QED BY <2>1 DEF Sent
<1>5. ASSUME NEW m \in Messages, data' = data,
             \/ msg' = [msg EXCEPT ![m] = Requeued(msg[m])]
             \/ msg' = [msg EXCEPT ![m] =
                           [msg[m] EXCEPT !.holder = NoOne, !.st = "acked"]]
      PROVE  Sent'
  <2>1. msg'[m].since = msg[m].since /\ msg'[m].holder = NoOne
    <3>1. \A r \in Message :
              /\ Requeued(r).holder = NoOne /\ Requeued(r).since = r.since
              /\ [r EXCEPT !.holder = NoOne, !.st = "acked"].holder = NoOne
              /\ [r EXCEPT !.holder = NoOne, !.st = "acked"].since = r.since
      BY DEF Requeued
    <3>2. msg[m] \in Message /\ m \in DOMAIN msg
      BY DEF TypeOK
    <3>3. PICK r : msg' = [msg EXCEPT ![m] = r] /\ r.since = msg[m].since /\ r.holder = NoOne
      BY <1>5, <3>1, <3>2
    <3> QED BY <3>2, <3>3
  <2>2. \A k \in Messages \ {m} : msg'[k] = msg[k]
    BY <1>5
  <2> QED BY <1>5, <2>1, <2>2 DEF Sent
<1>6. ASSUME NEW w \in Workers, Crash(w) \/ Ack(w) \/ Nack(w)
      PROVE  Sent'
  <2>1. CASE Holds(w)
    <3>1. trigger[w] \in Messages
      BY <2>1 DEF Holds
    <3> QED BY <1>5, <1>6, <2>1, <3>1 DEF Crash, Ack, Nack
  <2>2. CASE ~Holds(w)
    BY <1>6, <2>2 DEF Crash, Ack, Nack, Sent
  <2> QED BY <2>1, <2>2
<1>7. CASE \/ ExpireLock \/ UNCHANGED vars
           \/ \E w \in Workers : ProcessSearch(w)
  <2>1. data' = data /\ msg' = msg
    BY <1>7 DEF ExpireLock, vars, ProcessSearch, AcquireLock, LoadPrevious,
                Compare, StoreState, StoreDiff, PublishEvent,
                PublishNotification, ReleaseLock, CallFails
  <2> QED BY <2>1 DEF Sent
<1>8. ASSUME NEW m \in Messages, LeaseLapses(m)
      PROVE  Sent'
  BY <1>5, <1>8 DEF LeaseLapses
<1> QED
  BY <1>2, <1>3, <1>4, <1>6, <1>7, <1>8 DEF Next, Handler

\* Only taking the lock makes a message one that has had it, and such a message
\* is not sent again.
LEMMA TakenByAcquisition ==
    ASSUME TypeOK, Leased, [Next]_vars, calm',
           \A w \in Workers : ~AcquireLock(w)
    PROVE  \A m \in Messages :
               Taken(m)' => Taken(m) /\ msg'[m].since = msg[m].since
<1> USE DEF TypeOK, Message
<1>g. ASSUME \A m \in Messages : msg'[m].st = "acked" => Taken(m),
             \A m \in Messages : Taken(m) => msg'[m].since = msg[m].since,
             \A w \in Workers :
                 pc'[w] \in Past => pc[w] \in Past /\ trigger'[w] = trigger[w]
      PROVE  \A m \in Messages :
                 Taken(m)' => Taken(m) /\ msg'[m].since = msg[m].since
  <2>1. ASSUME NEW m \in Messages, Taken(m)'
        PROVE  Taken(m)
    BY <1>g, <2>1 DEF Taken
  <2> QED BY <1>g, <2>1
<1>1. CASE \/ DataChanges \/ ExpireLock \/ UNCHANGED vars
  BY <1>1, <1>g DEF DataChanges, ExpireLock, vars, Taken
<1>2. CASE EditQuery \/ \E m \in Messages : PublishRefreshCommand(m)
  <2>0. msg' = msg \/ \E m \in Messages, q \in Nat : Send(m, q)
    <3> HIDE DEF Message
    <3>1. query \in Nat /\ query + 1 \in Nat
      OBVIOUS
    <3> HIDE DEF TypeOK
    <3> QED BY <1>2, <3>1 DEF EditQuery, PublishRefreshCommand
  <2>1. /\ pc' = pc /\ trigger' = trigger
        /\ msg' = msg \/ \E m \in Messages, q \in Nat : Send(m, q)
    BY <1>2, <2>0 DEF EditQuery, PublishRefreshCommand
  <2>2. ASSUME NEW m \in Messages, NEW q \in Nat, Send(m, q)
        PROVE  /\ ~Taken(m) /\ msg'[m].st = "pending"
               /\ \A k \in Messages \ {m} : msg'[k] = msg[k]
    <3>1. ~Taken(m)
      <4>1. msg[m].st = "unsent" /\ msg[m].holder = NoOne
        BY <2>2 DEF Send, Leased
      <4>2. \A w \in Workers : trigger[w] = m => pc[w] = "idle"
        BY <4>1, NoOneAssumption DEF Leased
      <4> QED BY <4>1, <4>2 DEF Taken, Past, InLock, Writing
    <3> QED BY <2>2, <3>1 DEF Send
  <2>3. CASE msg' = msg
    BY <1>g, <2>1, <2>3 DEF Taken
  <2>4. CASE \E m \in Messages, q \in Nat : Send(m, q)
    <3>1. PICK m \in Messages : \E q \in Nat : Send(m, q)
      BY <2>4
    <3>2. /\ ~Taken(m) /\ msg'[m].st = "pending"
          /\ \A k \in Messages \ {m} : msg'[k] = msg[k]
      BY <2>2, <3>1
    <3>3. \A k \in Messages : msg'[k].st = "acked" => Taken(k)
      BY <3>2 DEF Taken
    <3>4. \A k \in Messages : Taken(k) => msg'[k].since = msg[k].since
      BY <3>2
    <3> QED BY <1>g, <2>1, <3>3, <3>4
  <2> QED BY <2>1, <2>3, <2>4
<1>3. ASSUME NEW w \in Workers, NEW m \in Messages, Receive(w, m)
      PROVE  \A k \in Messages : Taken(k)' => Taken(k) /\ msg'[k].since = msg[k].since
  <2>1. /\ \A k \in Messages : msg'[k].st = msg[k].st /\ msg'[k].since = msg[k].since
        /\ pc'[w] = "acquire"
        /\ \A v \in Workers \ {w} : pc'[v] = pc[v] /\ trigger'[v] = trigger[v]
    BY <1>3 DEF Receive, GoTo
  <2>2. \A v \in Workers :
            pc'[v] \in Past => pc[v] \in Past /\ trigger'[v] = trigger[v]
    BY <2>1 DEF Past, InLock, Writing
  <2>3. \A k \in Messages : msg'[k].st = "acked" => Taken(k)
    BY <2>1 DEF Taken
  <2> QED BY <1>g, <2>1, <2>2, <2>3
<1>4. ASSUME NEW w \in Workers, Ack(w) \/ Nack(w)
      PROVE  \A k \in Messages : Taken(k)' => Taken(k) /\ msg'[k].since = msg[k].since
  <2>1. /\ pc'[w] = "idle"
        /\ \A v \in Workers \ {w} : pc'[v] = pc[v] /\ trigger'[v] = trigger[v]
    BY <1>4 DEF Ack, Nack, Retire, GoTo
  <2>2. \A v \in Workers :
            pc'[v] \in Past => pc[v] \in Past /\ trigger'[v] = trigger[v]
    BY <2>1 DEF Past, InLock, Writing
  <2>3. \A r \in Message :
            /\ Requeued(r).st # "acked" /\ Requeued(r).since = r.since
            /\ [r EXCEPT !.holder = NoOne, !.st = "acked"].since = r.since
    BY DEF Requeued
  <2>4. CASE ~Holds(w)
    BY <1>4, <1>g, <2>2, <2>4 DEF Ack, Nack, Taken
  <2>5. CASE Holds(w)
    <3>1. trigger[w] \in Messages /\ msg[trigger[w]] \in Message
      BY <2>5 DEF Holds
    <3>2. PICK r : /\ msg' = [msg EXCEPT ![trigger[w]] = r]
                   /\ r.since = msg[trigger[w]].since
                   /\ r.st = "acked" => pc[w] = "ack"
      <4>1. CASE Ack(w)
        <5> DEFINE r == [msg[trigger[w]] EXCEPT !.holder = NoOne, !.st = "acked"]
        <5>1. msg' = [msg EXCEPT ![trigger[w]] = r] /\ pc[w] = "ack"
          BY <2>5, <4>1 DEF Ack
        <5>2. r.since = msg[trigger[w]].since
          BY <2>3, <3>1
        <5> HIDE DEF r
        <5> QED BY <5>1, <5>2
      <4>2. CASE Nack(w)
        <5>1. msg' = [msg EXCEPT ![trigger[w]] = Requeued(msg[trigger[w]])]
          BY <2>5, <4>2 DEF Nack
        <5>2. /\ Requeued(msg[trigger[w]]).since = msg[trigger[w]].since
              /\ Requeued(msg[trigger[w]]).st # "acked"
          BY <2>3, <3>1
        <5> QED BY <5>1, <5>2
      <4> QED BY <1>4, <4>1, <4>2
    <3>3. /\ \A k \in Messages \ {trigger[w]} : msg'[k] = msg[k]
          /\ msg'[trigger[w]] = r
      BY <3>1, <3>2
    <3>4. \A k \in Messages : msg'[k].st = "acked" => Taken(k)
      BY <3>2, <3>3 DEF Taken, Past
    <3>5. \A k \in Messages : msg'[k].since = msg[k].since
      BY <3>2, <3>3
    <3> QED BY <1>g, <2>2, <3>4, <3>5
  <2> QED BY <2>4, <2>5
<1>5. ASSUME NEW w \in Workers, ProcessSearch(w)
      PROVE  \A k \in Messages : Taken(k)' => Taken(k) /\ msg'[k].since = msg[k].since
  <2>1. msg' = msg /\ trigger' = trigger
    BY <1>5 DEF ProcessSearch, AcquireLock, LoadPrevious, Compare, StoreState,
                StoreDiff, PublishEvent, PublishNotification, ReleaseLock,
                CallFails
  <2>2. pc[w] \in InLock /\ \A v \in Workers \ {w} : pc'[v] = pc[v]
    BY <1>5 DEF ProcessSearch, LoadPrevious, Compare, StoreState, StoreDiff,
                PublishEvent, PublishNotification, ReleaseLock, CallFails,
                GoTo, InLock, Writing
  <2>3. \A v \in Workers : pc'[v] \in Past => pc[v] \in Past
    BY <2>2 DEF Past
  <2> QED BY <1>g, <2>1, <2>3 DEF Taken
<1>6. ASSUME NEW m \in Messages, LeaseLapses(m)
      PROVE  \A k \in Messages : Taken(k)' => Taken(k) /\ msg'[k].since = msg[k].since
  <2>1. \A r \in Message : Requeued(r).st # "acked" /\ Requeued(r).since = r.since
    BY DEF Requeued
  <2>2. /\ pc' = pc /\ trigger' = trigger
        /\ \A k \in Messages :
               /\ msg'[k].since = msg[k].since
               /\ msg'[k].st = "acked" => msg[k].st = "acked"
    BY <1>6, <2>1 DEF LeaseLapses
  <2> QED BY <1>g, <2>2 DEF Taken
<1>7. ASSUME NEW w \in Workers, Crash(w)
      PROVE  FALSE
  BY <1>7 DEF Crash
<1> QED
  BY <1>1, <1>2, <1>3, <1>4, <1>5, <1>6, <1>7 DEF Next, Handler

\* Steps that leave the history and the lock's owner alone keep the invariant if
\* they make no message taken and bring no run to a duty it does not meet.
LEMMA CalmQuietStep ==
    ASSUME Uncommitted, Answerable, Owned, log' = log, row'.owner = row.owner,
           \A m \in Messages :
               Taken(m)' => Taken(m) /\ msg'[m].since = msg[m].since,
           \A m \in Messages : msg'[m].st # "acked" /\ msg'[m].holder = NoOne =>
               \/ msg[m].st # "acked" /\ msg[m].holder = NoOne
               \/ ~HasEvent(m),
           \A w \in Workers : pc'[w] \in BeforeCommit =>
               \/ pc[w] \in BeforeCommit /\ trigger'[w] = trigger[w]
               \/ ~HasEvent(trigger'[w]),
           \A w \in Workers : row.owner = trigger'[w] /\ pc'[w] \in Writing =>
               \/ /\ pc[w] \in Writing /\ trigger'[w] = trigger[w]
                  /\ result'[w] = result[w]
               \/ \A m \in Messages : Taken(m) => msg[m].since <= result'[w].data,
           \A w \in Workers :
               row.owner = trigger'[w] /\ pc'[w] \in {"notify", "release"} => Covered,
           \A w \in Workers : row.owner = trigger[w] /\ pc[w] \in InLock =>
               trigger'[w] = trigger[w] /\ pc'[w] \in InLock
    PROVE  Uncommitted' /\ Answerable' /\ Owned'
<1>1. \A m \in Messages : HasEvent(m)' <=> HasEvent(m)
  BY DEF HasEvent
<1>3. Covered => Covered'
  <2>1. LastState' = LastState
    BY DEF LastState
  <2> QED BY <2>1 DEF Covered
<1>4. Uncommitted'
  <2>1. ASSUME NEW m \in Messages, msg'[m].st # "acked" /\ msg'[m].holder = NoOne
        PROVE  ~HasEvent(m)'
    BY <1>1, <2>1 DEF Uncommitted
  <2>2. ASSUME NEW w \in Workers, pc'[w] \in BeforeCommit
        PROVE  ~HasEvent(trigger[w])'
    BY <2>2 DEF Uncommitted, HasEvent
  <2> QED BY <2>1, <2>2 DEF Uncommitted
<1>5. Answerable'
  <2>1. ASSUME NEW w \in Workers, row.owner = trigger'[w], pc'[w] \in Writing,
               NEW m \in Messages, Taken(m)'
        PROVE  msg'[m].since <= result'[w].data
    BY <2>1 DEF Answerable
  <2>2. ASSUME NEW w \in Workers, row.owner = trigger'[w],
               pc'[w] \in {"notify", "release"}
        PROVE  Covered'
    BY <1>3, <2>2
  <2> QED BY <2>1, <2>2 DEF Answerable
<1>6. Owned'
  BY <1>3 DEF Owned
<1> QED BY <1>4, <1>5, <1>6

\* A run that takes the lock is answerable to all, and nobody else is.
LEMMA AcquisitionStep ==
    ASSUME TypeOK, Leased, Uncommitted, Answerable, Owned,
           NEW w \in Workers, AcquireLock(w), ~LockRefused(trigger[w])
    PROVE  Uncommitted' /\ Answerable' /\ Owned'
<1>1. /\ log' = log /\ msg' = msg /\ trigger' = trigger /\ pc[w] = "acquire"
      /\ pc' = [pc EXCEPT ![w] = "load"]
      /\ row'.owner = trigger[w]
  BY DEF AcquireLock, GoTo, TypeOK, Row
<1>2. Uncommitted'
  <2>1. \A v \in Workers : pc'[v] \in BeforeCommit => pc[v] \in BeforeCommit
    BY <1>1 DEF BeforeCommit, Writing, TypeOK
  <2> QED BY <1>1, <2>1 DEF Uncommitted, HasEvent
<1>3. \A v \in Workers :
          row'.owner = trigger'[v] =>
              pc'[v] \notin Writing \cup {"notify", "release"}
  <2>1. ASSUME NEW v \in Workers \ {w}, trigger[v] = trigger[w]
        PROVE  pc[v] = "idle"
    BY <1>1, <2>1, OneRunPerTrigger
  <2> QED BY <1>1, <2>1 DEF Writing, TypeOK
<1>4. Answerable'
  BY <1>3 DEF Answerable
<1>5. row'.owner = trigger'[w] /\ pc'[w] \in InLock
  BY <1>1 DEF InLock, TypeOK
<1> QED BY <1>2, <1>4, <1>5 DEF Owned

\* The commit of the owner covers every message that has had the lock.
LEMMA CoveringStep ==
    ASSUME TypeOK, Leased, ChainInv, Sent, Uncommitted, Answerable, Owned,
           NEW w \in Workers, PublishEvent(w), MayCommit(w),
           \A m \in Messages :
               Taken(m)' => Taken(m) /\ msg'[m].since = msg[m].since
    PROVE  Uncommitted' /\ Answerable' /\ Owned'
<1>1. /\ msg' = msg /\ trigger' = trigger /\ pc[w] = "publishEvent"
      /\ pc' = [pc EXCEPT ![w] = "notify"]
      /\ row.owner = trigger[w] /\ row'.owner = trigger[w]
      /\ trigger[w] \in Messages
  BY DEF PublishEvent, MayCommit, Commit, GoTo, TypeOK, Row
<1>2. /\ Len(log) \in Nat /\ DOMAIN log = 1 .. Len(log)
      /\ DOMAIN log' = 1 .. Len(log) + 1 /\ Len(log') = Len(log) + 1
      /\ \A i \in 1 .. Len(log) : log'[i] = log[i]
      /\ log'[Len(log) + 1] = [id |-> trigger[w], base |-> base[w],
                               state |-> result[w]]
  BY CommitExtends, TipOfLog
<1>3. log' # <<>> /\ LastState' = result[w]
  <2>1. log' # <<>>
    BY <1>2
  <2> QED BY <1>2, <2>1 DEF LastState
<1>4. Covered'
  BY <1>1, <1>3 DEF Covered, Answerable, Writing
<1>5. \A m \in Messages : HasEvent(m)' => HasEvent(m) \/ m = trigger[w]
  <2> SUFFICES ASSUME NEW m \in Messages, NEW i \in 1 .. Len(log) + 1,
                      log'[i].id = m, m # trigger[w]
               PROVE  \E j \in 1 .. Len(log) : log[j].id = m
    BY <1>2 DEF HasEvent
  <2>1. i # Len(log) + 1
    BY <1>2
  <2> QED BY <1>2, <2>1
<1>6. Uncommitted'
  <2>1. ASSUME NEW m \in Messages, msg'[m].st # "acked", msg'[m].holder = NoOne
        PROVE  ~HasEvent(m)'
    <3>1. m # trigger[w]
      BY <1>1, <2>1, NoOneAssumption DEF Leased
    <3> QED BY <1>1, <1>5, <2>1, <3>1 DEF Uncommitted
  <2>2. ASSUME NEW v \in Workers, pc'[v] \in BeforeCommit
        PROVE  ~HasEvent(trigger[v])'
    <3>1. v # w /\ pc[v] \in BeforeCommit
      BY <1>1, <2>2 DEF BeforeCommit, Writing, TypeOK
    <3>2. trigger[v] \in Messages /\ trigger[v] # trigger[w]
      BY <1>1, <3>1, OneRunPerTrigger DEF BeforeCommit, Writing, TypeOK
    <3>3. ~HasEvent(trigger[v])
      BY <3>1 DEF Uncommitted
    <3>4. \A m \in Messages : m = trigger[v] => ~HasEvent(m)'
      BY <1>5, <3>2, <3>3
    <3> QED BY <1>1, <3>2, <3>4 DEF HasEvent
  <2> QED BY <2>1, <2>2 DEF Uncommitted
<1>7. \A v \in Workers : row'.owner = trigger'[v] => pc'[v] \notin Writing
  <2>1. ASSUME NEW v \in Workers \ {w}, trigger[v] = trigger[w]
        PROVE  pc[v] = "idle"
    BY <1>1, <2>1, OneRunPerTrigger
  <2> QED BY <1>1, <2>1 DEF Writing, TypeOK
<1>8. Answerable'
  BY <1>4, <1>7 DEF Answerable
<1>9. Owned'
  BY <1>1 DEF Owned, InLock, TypeOK
<1> QED BY <1>6, <1>8, <1>9

\* Steps of a run that keep the history and the lock's owner, and give up nothing
\* the run is answerable for.
LEMMA CalmRunStep ==
    ASSUME TypeOK, Uncommitted, Answerable, Owned, NEW w \in Workers,
           log' = log, row' = row, msg' = msg, trigger' = trigger,
           \A m \in Messages :
               Taken(m)' => Taken(m) /\ msg'[m].since = msg[m].since,
           \A v \in Workers \ {w} : pc'[v] = pc[v] /\ result'[v] = result[v],
           pc'[w] \in BeforeCommit => pc[w] \in BeforeCommit,
           row.owner = trigger[w] =>
               /\ pc'[w] \in Writing =>
                      \/ pc[w] \in Writing /\ result'[w] = result[w]
                      \/ \A m \in Messages : msg[m].since <= result'[w].data
               /\ pc'[w] \in {"notify", "release"} => Covered
               /\ pc[w] \in InLock => pc'[w] \in InLock
    PROVE  Uncommitted' /\ Answerable' /\ Owned'
<1>1. \A v \in Workers : pc'[v] \in BeforeCommit =>
          pc[v] \in BeforeCommit /\ trigger'[v] = trigger[v]
  OBVIOUS
<1>2. \A v \in Workers : row.owner = trigger'[v] /\ pc'[v] \in Writing =>
          \/ pc[v] \in Writing /\ trigger'[v] = trigger[v] /\ result'[v] = result[v]
          \/ \A m \in Messages : Taken(m) => msg[m].since <= result'[v].data
  OBVIOUS
<1>3. \A v \in Workers :
          row.owner = trigger'[v] /\ pc'[v] \in {"notify", "release"} => Covered
  BY DEF Answerable
<1>4. \A v \in Workers : row.owner = trigger[v] /\ pc[v] \in InLock =>
          trigger'[v] = trigger[v] /\ pc'[v] \in InLock
  OBVIOUS
<1> QED BY <1>1, <1>2, <1>3, <1>4, CalmQuietStep

\* Every calm step keeps the invariant.
LEMMA CalmStep ==
    ASSUME TypeOK, Leased, ChainInv, EventBlobsExist, Sent, CalmInv,
           ~EarlyRedelivery, [Next]_vars
    PROVE  CalmInv'
<1> SUFFICES ASSUME calm'
             PROVE  Uncommitted' /\ Answerable' /\ Owned'
  BY DEF CalmInv
<1>1. Uncommitted /\ Answerable /\ Owned
  <2>1. calm
    BY DEF Next, vars, external, DataChanges, EditQuery, PublishRefreshCommand,
           LeaseLapses, ExpireLock, Handler, ProcessSearch, AcquireLock,
           LoadPrevious, Compare, StoreState, StoreDiff, PublishEvent,
           PublishNotification, ReleaseLock, CallFails, Ack, Nack, Crash, Receive
  <2> QED BY <2>1 DEF CalmInv
<1>t. ASSUME \A w \in Workers : ~AcquireLock(w)
      PROVE  \A m \in Messages :
                 Taken(m)' => Taken(m) /\ msg'[m].since = msg[m].since
  BY <1>t, TakenByAcquisition
<1>2. CASE \/ DataChanges \/ EditQuery \/ ExpireLock \/ UNCHANGED vars
           \/ \E m \in Messages : PublishRefreshCommand(m)
  <2>1. /\ log' = log /\ pc' = pc /\ trigger' = trigger /\ result' = result
        /\ row'.owner = row.owner
    BY <1>2 DEF DataChanges, EditQuery, ExpireLock, vars, TypeOK, Row,
                PublishRefreshCommand
  <2>2. \A w \in Workers : ~AcquireLock(w)
    BY <2>1 DEF AcquireLock, GoTo, TypeOK
  <2>3. \A m \in Messages :
            msg'[m].st # "acked" /\ msg'[m].holder = NoOne =>
                msg[m].st # "acked" /\ msg[m].holder = NoOne
    <3>1. ASSUME NEW m \in Messages, NEW q, Send(m, q)
          PROVE  \A k \in Messages :
                     msg'[k].st # "acked" /\ msg'[k].holder = NoOne =>
                         msg[k].st # "acked" /\ msg[k].holder = NoOne
      <4>1. msg[m].st = "unsent" /\ msg[m].holder = NoOne
        BY <3>1 DEF Send, Leased
      <4>2. \A k \in Messages \ {m} : msg'[k] = msg[k]
        BY <3>1 DEF Send, TypeOK
      <4> QED BY <4>1, <4>2
    <3>2. msg' = msg \/ \E m \in Messages : \E q : Send(m, q)
      BY <1>2 DEF DataChanges, EditQuery, ExpireLock, vars, PublishRefreshCommand
    <3> QED BY <3>1, <3>2
  <2>4. \A w \in Workers :
            row.owner = trigger'[w] /\ pc'[w] \in {"notify", "release"} => Covered
    BY <1>1, <2>1 DEF Answerable
  <2> QED BY <1>1, <1>t, <2>1, <2>2, <2>3, <2>4, CalmQuietStep
<1>3. ASSUME NEW w \in Workers, NEW m \in Messages, Receive(w, m)
      PROVE  Uncommitted' /\ Answerable' /\ Owned'
  <2>1. /\ log' = log /\ row' = row /\ result' = result
        /\ pc[w] = "idle" /\ pc'[w] = "acquire" /\ trigger'[w] = m
        /\ \A v \in Workers \ {w} : pc'[v] = pc[v] /\ trigger'[v] = trigger[v]
        /\ msg[m].st = "pending" /\ msg[m].holder = NoOne
        /\ \A k \in Messages \ {m} : msg'[k] = msg[k]
        /\ msg'[m].holder = w
    BY <1>3 DEF Receive, GoTo, TypeOK, Message
  <2>2. \A v \in Workers : ~AcquireLock(v)
    BY <2>1 DEF AcquireLock, GoTo, TypeOK
  <2>3. ~HasEvent(m) /\ w # NoOne
    BY <1>1, <2>1, NoOneAssumption DEF Uncommitted
  <2>4. /\ "acquire" \notin Writing \cup InLock \cup {"notify", "release"}
        /\ "idle" \notin InLock
    BY DEF Writing, InLock
  <2>5. \A v \in Workers :
            row.owner = trigger'[v] /\ pc'[v] \in {"notify", "release"} => Covered
    BY <1>1, <2>1, <2>4 DEF Answerable
  <2>6. \A v \in Workers : row.owner = trigger[v] /\ pc[v] \in InLock =>
            trigger'[v] = trigger[v] /\ pc'[v] \in InLock
    BY <2>1, <2>4
  <2>7. \A v \in Workers : pc'[v] \in BeforeCommit =>
            \/ pc[v] \in BeforeCommit /\ trigger'[v] = trigger[v]
            \/ ~HasEvent(trigger'[v])
    BY <2>1, <2>3
  <2>8. \A v \in Workers : row.owner = trigger'[v] /\ pc'[v] \in Writing =>
            pc[v] \in Writing /\ trigger'[v] = trigger[v] /\ result'[v] = result[v]
    BY <2>1, <2>4
  <2>9. \A k \in Messages : msg'[k].st # "acked" /\ msg'[k].holder = NoOne =>
            msg[k].st # "acked" /\ msg[k].holder = NoOne
    BY <2>1, <2>3
  <2>10. row'.owner = row.owner
    BY <2>1
  <2> QED
    BY <1>1, <1>t, <2>1, <2>2, <2>5, <2>6, <2>7, <2>8, <2>9, <2>10, CalmQuietStep
<1>4. ASSUME NEW w \in Workers, Ack(w) \/ Nack(w)
      PROVE  Uncommitted' /\ Answerable' /\ Owned'
  <2>1. /\ log' = log /\ row' = row
        /\ pc[w] \in {"ack", "nack"} /\ pc'[w] = "idle"
        /\ \A v \in Workers \ {w} :
               /\ pc'[v] = pc[v] /\ trigger'[v] = trigger[v]
               /\ result'[v] = result[v]
    BY <1>4 DEF Ack, Nack, Retire, Forget, GoTo, TypeOK
  <2>2. trigger[w] \in Messages /\ msg[trigger[w]].holder = w /\ Holds(w)
    BY <2>1, NoOneAssumption DEF Leased, Holds, TypeOK
  <2>3. \A k \in Messages \ {trigger[w]} : msg'[k] = msg[k]
    BY <1>4, <2>2 DEF Ack, Nack, TypeOK
  <2>4. msg'[trigger[w]].st = "acked" \/ ~HasEvent(trigger[w])
    <3>1. CASE Ack(w)
      <4>1. msg'[trigger[w]] = [msg[trigger[w]] EXCEPT !.holder = NoOne, !.st = "acked"]
        BY <2>2, <3>1 DEF Ack, TypeOK
      <4>2. msg[trigger[w]] \in Message
        BY <2>2 DEF TypeOK
      <4> QED BY <4>1, <4>2 DEF Message
    <3>2. CASE Nack(w)
      BY <1>1, <3>2 DEF Nack, Uncommitted, BeforeCommit
    <3> QED BY <1>4, <3>1, <3>2
  <2>5. \A v \in Workers : ~AcquireLock(v)
    BY <2>1 DEF AcquireLock, GoTo, TypeOK
  <2>6. /\ "idle" \notin Writing \cup BeforeCommit \cup {"notify", "release"}
        /\ "ack" \notin InLock /\ "nack" \notin InLock
    BY DEF Writing, InLock, BeforeCommit
  <2>7. \A k \in Messages : msg'[k].st # "acked" /\ msg'[k].holder = NoOne =>
            (msg[k].st # "acked" /\ msg[k].holder = NoOne) \/ ~HasEvent(k)
    BY <2>3, <2>4
  <2>8. \A v \in Workers :
            row.owner = trigger'[v] /\ pc'[v] \in {"notify", "release"} => Covered
    BY <1>1, <2>1, <2>6 DEF Answerable
  <2>9. row'.owner = row.owner
    BY <2>1
  <2>10. \A v \in Workers : pc'[v] \in BeforeCommit =>
             pc[v] \in BeforeCommit /\ trigger'[v] = trigger[v]
    BY <2>1, <2>6
  <2>11. \A v \in Workers : row.owner = trigger'[v] /\ pc'[v] \in Writing =>
             pc[v] \in Writing /\ trigger'[v] = trigger[v] /\ result'[v] = result[v]
    BY <2>1, <2>6
  <2>12. \A v \in Workers : row.owner = trigger[v] /\ pc[v] \in InLock =>
             trigger'[v] = trigger[v] /\ pc'[v] \in InLock
    BY <2>1, <2>6
  <2> QED
    BY <1>1, <1>t, <2>1, <2>5, <2>7, <2>8, <2>9, <2>10, <2>11, <2>12,
       CalmQuietStep
<1>5. ASSUME NEW w \in Workers, AcquireLock(w)
      PROVE  Uncommitted' /\ Answerable' /\ Owned'
  <2>1. CASE ~LockRefused(trigger[w])
    BY <1>1, <1>5, <2>1, AcquisitionStep
  <2>2. CASE LockRefused(trigger[w])
    <3>1. /\ log' = log /\ row' = row /\ msg' = msg /\ trigger' = trigger
          /\ result' = result /\ pc[w] = "acquire" /\ pc'[w] = "nack"
          /\ \A v \in Workers \ {w} : pc'[v] = pc[v]
      BY <1>5, <2>2 DEF AcquireLock, GoTo, TypeOK
    <3>2. \A v \in Workers : pc'[v] \in Past => pc[v] \in Past
      BY <3>1 DEF Past, InLock, Writing
    <3>3. \A m \in Messages : Taken(m)' => Taken(m) /\ msg'[m].since = msg[m].since
      BY <3>1, <3>2 DEF Taken
    <3> QED BY <1>1, <3>1, <3>3, CalmRunStep DEF BeforeCommit, Writing, InLock
  <2> QED BY <2>1, <2>2
<1>6. ASSUME NEW w \in Workers, LoadPrevious(w)
      PROVE  Uncommitted' /\ Answerable' /\ Owned'
  <2>1. log = <<>> \/ LatestState \in states
    <3>1. LatestState = LastState
      BY LatestIsLast DEF ChainInv
    <3>2. CASE log # <<>>
      <4>1. Len(log) \in DOMAIN log
        BY <3>2, EmptySeq, LenProperties DEF TypeOK
      <4> QED BY <3>1, <3>2, <4>1 DEF LastState, EventBlobsExist
    <3> QED BY <3>2
  <2>2. /\ log' = log /\ row' = row /\ msg' = msg /\ trigger' = trigger
        /\ result' = result /\ pc[w] = "load" /\ pc'[w] = "compare"
        /\ \A v \in Workers \ {w} : pc'[v] = pc[v]
    BY <1>6, <2>1 DEF LoadPrevious, GoTo, TypeOK
  <2>3. \A v \in Workers : ~AcquireLock(v)
    BY <2>2 DEF AcquireLock, GoTo, TypeOK
  <2> QED
    BY <1>1, <1>t, <2>2, <2>3, CalmRunStep DEF BeforeCommit, Writing, InLock
<1>7. ASSUME NEW w \in Workers, Compare(w)
      PROVE  Uncommitted' /\ Answerable' /\ Owned'
  <2> DEFINE new == [id |-> clock + 1, query |-> msg[trigger[w]].query,
                     data |-> data]
  <2>1. /\ log' = log /\ row' = row /\ msg' = msg /\ trigger' = trigger
        /\ pc[w] = "compare"
    BY <1>7 DEF Compare
  <2>2. /\ pc'[w] \in {"storeState", "release"}
        /\ \A v \in Workers \ {w} : pc'[v] = pc[v] /\ result'[v] = result[v]
    BY <1>7 DEF Compare, GoTo, Forget, TypeOK
  <2>3. \A v \in Workers : ~AcquireLock(v)
    BY <2>1, <2>2 DEF AcquireLock, GoTo, TypeOK
  <2>4. pc'[w] = "storeState" => result'[w].data = data
    BY <1>7 DEF Compare, GoTo, TypeOK
  <2>5. ASSUME pc'[w] = "release", row.owner = trigger[w]
        PROVE  Covered
    <3>1. ~ShouldWrite(base[w], new)
      BY <1>7, <2>5 DEF Compare, GoTo, TypeOK
    <3>2. base[w] = LastState
      BY <2>1, <2>5 DEF ChainInv, Fenced, Reading
    <3>3. LastState.id # 0 /\ LastState.data = data
      BY <3>1, <3>2 DEF ShouldWrite
    <3>4. log # <<>>
      BY <3>3 DEF LastState, NoState
    <3> QED BY <3>3, <3>4 DEF Covered, Sent
  <2>6. \A m \in Messages : pc'[w] = "storeState" => msg[m].since <= result'[w].data
    BY <2>4 DEF Sent
  <2> HIDE DEF new
  <2>7. row.owner = trigger[w] =>
            /\ pc'[w] \in Writing => \A m \in Messages : msg[m].since <= result'[w].data
            /\ pc'[w] \in {"notify", "release"} => Covered
            /\ pc'[w] \in InLock
    BY <2>2, <2>5, <2>6 DEF Writing, InLock
  <2>8. pc[w] \in BeforeCommit
    BY <2>1 DEF BeforeCommit
  <2> QED BY <1>1, <1>t, <2>1, <2>2, <2>3, <2>7, <2>8, CalmRunStep
<1>8. ASSUME NEW w \in Workers, StoreState(w) \/ StoreDiff(w)
      PROVE  Uncommitted' /\ Answerable' /\ Owned'
  <2>1. /\ log' = log /\ row' = row /\ msg' = msg /\ trigger' = trigger
        /\ result' = result /\ pc[w] \in Writing
        /\ pc'[w] \in {"storeDiff", "publishEvent"}
        /\ \A v \in Workers \ {w} : pc'[v] = pc[v]
    BY <1>8 DEF StoreState, StoreDiff, GoTo, TypeOK, Writing
  <2>2. \A v \in Workers : ~AcquireLock(v)
    BY <2>1 DEF AcquireLock, GoTo, TypeOK
  <2> QED
    BY <1>1, <1>t, <2>1, <2>2, CalmRunStep DEF BeforeCommit, Writing, InLock
<1>9. ASSUME NEW w \in Workers, PublishEvent(w)
      PROVE  Uncommitted' /\ Answerable' /\ Owned'
  <2>1. pc[w] = "publishEvent" /\ pc'[w] \in {"notify", "release"}
    BY <1>9 DEF PublishEvent, GoTo, TypeOK
  <2>2. \A v \in Workers : ~AcquireLock(v)
    BY <1>9, <2>1 DEF PublishEvent, AcquireLock, GoTo, TypeOK
  <2>3. CASE MayCommit(w)
    BY <1>1, <1>9, <1>t, <2>2, <2>3, CoveringStep
  <2>4. CASE ~MayCommit(w)
    <3>1. /\ log' = log /\ row' = row /\ msg' = msg /\ trigger' = trigger
          /\ pc'[w] = "release"
          /\ \A v \in Workers \ {w} : pc'[v] = pc[v] /\ result'[v] = result[v]
      BY <1>9, <2>4 DEF PublishEvent, GoTo, Forget, TypeOK
    <3>2. row.owner # trigger[w]
      BY <1>1, <2>1, <2>4 DEF MayCommit, Uncommitted, BeforeCommit, Writing
    <3>3. "release" \notin BeforeCommit
      BY DEF BeforeCommit, Writing
    <3> QED BY <1>1, <1>t, <2>2, <3>1, <3>2, <3>3, CalmRunStep
  <2> QED BY <2>3, <2>4
<1>10. ASSUME NEW w \in Workers, PublishNotification(w)
       PROVE  Uncommitted' /\ Answerable' /\ Owned'
  <2>1. /\ log' = log /\ row' = row /\ msg' = msg /\ trigger' = trigger
        /\ result' = result /\ pc[w] = "notify" /\ pc'[w] = "release"
        /\ \A v \in Workers \ {w} : pc'[v] = pc[v]
    BY <1>10 DEF PublishNotification, GoTo, TypeOK
  <2>2. \A v \in Workers : ~AcquireLock(v)
    BY <2>1 DEF AcquireLock, GoTo, TypeOK
  <2>3. row.owner = trigger[w] => Covered
    BY <1>1, <2>1 DEF Answerable
  <2> QED BY <1>1, <1>t, <2>1, <2>2, <2>3, CalmRunStep
             DEF BeforeCommit, Writing, InLock
<1>11. ASSUME NEW w \in Workers, ReleaseLock(w)
       PROVE  Uncommitted' /\ Answerable' /\ Owned'
  <2>1. /\ log' = log /\ msg' = msg /\ trigger' = trigger /\ result' = result
        /\ pc[w] = "release" /\ pc'[w] = "ack"
        /\ \A v \in Workers \ {w} : pc'[v] = pc[v]
    BY <1>11 DEF ReleaseLock, GoTo, TypeOK
  <2>2. \A v \in Workers : ~AcquireLock(v)
    BY <2>1 DEF AcquireLock, GoTo, TypeOK
  <2>3. CASE row.owner # trigger[w]
    <3>1. row' = row
      BY <1>11, <2>3 DEF ReleaseLock
    <3> QED BY <1>1, <1>t, <2>1, <2>2, <2>3, <3>1, CalmRunStep
               DEF BeforeCommit, Writing
  <2>4. CASE row.owner = trigger[w]
    <3>1. row'.owner = NoOne
      BY <1>11, <2>4 DEF ReleaseLock, TypeOK, Row
    <3>2. Covered
      BY <1>1, <2>1, <2>4 DEF Answerable
    <3>3. Covered'
      BY <1>t, <2>1, <2>2, <3>2 DEF Covered, LastState
    <3>4. Uncommitted'
      BY <1>1, <2>1 DEF Uncommitted, HasEvent, BeforeCommit, Writing
    <3>5. \A v \in Workers : pc'[v] \in Writing => trigger'[v] # NoOne
      BY <2>1, NoOneAssumption DEF TypeOK, Writing
    <3>6. Answerable'
      BY <3>1, <3>3, <3>5 DEF Answerable
    <3> QED BY <3>1, <3>3, <3>4, <3>6 DEF Owned
  <2> QED BY <2>3, <2>4
<1>12. ASSUME NEW w \in Workers, CallFails(w) \/ Crash(w)
       PROVE  FALSE
  BY <1>12 DEF CallFails, Crash
<1>13. ASSUME NEW m \in Messages, LeaseLapses(m)
       PROVE  FALSE
  BY <1>13 DEF LeaseLapses
<1> QED
  BY <1>2, <1>3, <1>4, <1>5, <1>6, <1>7, <1>8, <1>9, <1>10, <1>11, <1>12, <1>13
  DEF Next, Handler, ProcessSearch

\* As long as no lease lapses under a live run and blobs are stored, a refresh
\* that lost its lock to another run was made good by that run: contention and
\* expired locks lose no acknowledged refresh, however many runs take the lock
\* over in turn.
THEOREM CalmLosesNothingHolds ==
    ASSUME ~EarlyRedelivery, ~LossyClose
    PROVE  Spec => []CalmLosesNothing
<1>1. Init => Sent /\ CalmInv
  BY DEF Init, Sent, CalmInv, Uncommitted, Answerable, Owned, Covered, Taken,
         HasEvent, BeforeCommit, Past, InLock, Writing
<1>2. Spec => [](TypeOK /\ Leased /\ ChainInv)
  BY ChainInvariance
<1>3. Spec => []EventBlobsExist
  BY EventBlobsExistHolds
<1>4. Spec => [](Sent /\ CalmInv)
  BY <1>1, <1>2, <1>3, SentStep, CalmStep, PTL DEF Spec
<1>5. ASSUME TypeOK, Leased, ChainInv, Sent, CalmInv, calm,
             \A m \in Messages : msg[m].st \in {"unsent", "acked"}
      PROVE  \A m \in Messages : msg[m].st = "acked"
                 => log # <<>> /\ LatestState.data >= msg[m].since
  <2>1. ASSUME NEW w \in Workers, pc[w] # "idle"
        PROVE  FALSE
    <3>1. trigger[w] \in Messages /\ w # NoOne
      BY <1>5, <2>1, NoOneAssumption DEF TypeOK
    <3>2. msg[trigger[w]].holder = w
      BY <1>5, <2>1 DEF Leased
    <3>3. msg[trigger[w]].st = "pending"
      BY <1>5, <3>1, <3>2 DEF Sent
    <3> QED BY <1>5, <3>1, <3>3
  <2>2. Covered
    BY <1>5, <2>1 DEF CalmInv, Owned, InLock, Writing
  <2>3. LatestState = LastState
    BY <1>5, LatestIsLast DEF ChainInv
  <2>4. LastState \in State
    BY <1>5, LastIsStamped DEF ChainInv
  <2>5. \A m \in Messages : msg[m].since \in Nat
    BY <1>5 DEF TypeOK, Message
  <2> QED BY <2>2, <2>3, <2>4, <2>5 DEF Covered, Taken, State
<1>6. TypeOK /\ Leased /\ ChainInv /\ Sent /\ CalmInv => CalmLosesNothing
  BY <1>5 DEF CalmLosesNothing, NoSilentLoss
<1> QED BY <1>2, <1>4, <1>6, PTL
=============================================================================
