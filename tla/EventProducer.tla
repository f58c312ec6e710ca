--------------------------- MODULE EventProducer ---------------------------
(***************************************************************************)
(* The event producer worker on one (saved search, snapshot type) pair:    *)
(* every row, lock, event and blob it touches is keyed by that pair, so    *)
(* pairs do not interact.                                                  *)
(*                                                                         *)
(* A refresh command or a configuration-changed event is a Pub/Sub message *)
(* whose identifier is the trigger of the run.  A run takes the worker     *)
(* lock on the SavedSearchState row, reads the latest event and its state  *)
(* blob, compares it with the live result of the query, stores the new     *)
(* state and diff blobs, commits the event together with the row under the *)
(* fencing check, announces it on the notification topic and releases the  *)
(* lock.  Any step may fail, the process may die between two steps, the    *)
(* lock may expire and Pub/Sub may deliver a message again.                *)
(***************************************************************************)
EXTENDS Naturals, Sequences

CONSTANTS
    Messages,         \* Pub/Sub message identifiers, used as triggers
    Workers,          \* concurrent runs of the message handler
    NoOne,            \* no owner, no lease holder
    MaxDeliveries,    \* max_delivery_attempts of the subscription
    MaxData,          \* bound: changes of the matched features
    MaxQuery,         \* bound: edits of the saved query
    EarlyRedelivery,  \* may a lease lapse while its handler still runs?
    Crashes,          \* may the process of a run die?
    OpErrors,         \* may a call to Spanner, storage or Pub/Sub fail?
    LossyClose        \* may closing a blob writer fail?

ASSUME NoOneAssumption == NoOne \notin Messages \cup Workers
ASSUME MaxDeliveriesAssumption == MaxDeliveries \in Nat \ {0}
ASSUME BoundsAssumption == MaxData \in Nat /\ MaxQuery \in Nat
ASSUME SwitchesAssumption ==
    /\ EarlyRedelivery \in BOOLEAN
    /\ Crashes \in BOOLEAN
    /\ OpErrors \in BOOLEAN
    /\ LossyClose \in BOOLEAN

VARIABLES
    query,    \* version of the query the user saved last
    data,     \* version of the features that query matches
    msg,      \* the search subscription: one record per message
    row,      \* the SavedSearchState row
    log,      \* SavedSearchNotificationEvents, in commit order
    states,   \* state blobs in storage
    diffs,    \* diff/<trigger>.json: the state its diff leads to, 0 if none
    topic,    \* per trigger, the notifications published
    pc,       \* next step of each run
    trigger,  \* message each run works on
    base,     \* previous state the run has read
    result,   \* new state the run has computed
    clock,    \* states generated so far: state identifiers and GeneratedAt
    calm      \* (history) no process has died and no call of a run has failed

external == <<query, data, calm>>
run == <<trigger, base, result>>
storage == <<states, diffs>>
vars == <<query, data, calm, msg, row, log, states, diffs, topic, pc, trigger,
          base, result, clock>>

State == [id : Nat, query : Nat, data : Nat]
NoState == [id |-> 0, query |-> 0, data |-> 0]

Steps == {"idle", "acquire", "load", "compare", "storeState", "storeDiff",
          "publishEvent", "notify", "release", "ack", "nack"}

Message == [st : {"unsent", "pending", "acked", "dead"}, query : Nat,
            since : Nat, tries : Nat, holder : Workers \cup {NoOne}]
Row == [owner : Messages \cup {NoOne}, expired : BOOLEAN, path : Nat]
Event == [id : Messages, base : State, state : State]

\* Every variable stays within its declared shape, and a run that is not idle
\* works on a message.
TypeOK ==
    /\ query \in Nat
    /\ data \in Nat
    /\ msg \in [Messages -> Message]
    /\ row \in Row
    /\ log \in Seq(Event)
    /\ states \in SUBSET State
    /\ diffs \in [Messages -> Nat]
    /\ topic \in [Messages -> Nat]
    /\ pc \in [Workers -> Steps]
    /\ trigger \in [Workers -> Messages \cup {NoOne}]
    /\ \A w \in Workers : pc[w] # "idle" => trigger[w] \in Messages
    /\ base \in [Workers -> State]
    /\ result \in [Workers -> State]
    /\ clock \in Nat
    /\ calm \in BOOLEAN

Init ==
    /\ query = 0
    /\ data = 0
    /\ msg = [m \in Messages |-> [st |-> "unsent", query |-> 0, since |-> 0,
                                  tries |-> 0, holder |-> NoOne]]
    /\ row = [owner |-> NoOne, expired |-> FALSE, path |-> 0]
    /\ log = <<>>
    /\ states = {}
    /\ diffs = [m \in Messages |-> 0]
    /\ topic = [m \in Messages |-> 0]
    /\ pc = [w \in Workers |-> "idle"]
    /\ trigger = [w \in Workers |-> NoOne]
    /\ base = [w \in Workers |-> NoState]
    /\ result = [w \in Workers |-> NoState]
    /\ clock = 0
    /\ calm = TRUE
-----------------------------------------------------------------------------
(* The world: ingestion, the backend and the batch fan-out *)

\* Ingestion changes the features the query matches.
DataChanges ==
    /\ data < MaxData
    /\ data' = data + 1
    /\ UNCHANGED <<query, calm, msg, row, log, storage, topic, pc, run, clock>>

\* A message published now: it carries the query as it is now, and nothing
\* later corrects it.  since (history) is the data version of that moment.
Send(m, q) ==
    /\ msg[m].st = "unsent"
    /\ msg' = [msg EXCEPT ![m] = [st |-> "pending", query |-> q, since |-> data,
                                   tries |-> 0, holder |-> NoOne]]

\* The user edits the query: the row is updated, then the configuration-changed
\* event is published; a publication that fails is only logged.
EditQuery ==
    /\ query < MaxQuery
    /\ query' = query + 1
    /\ \/ \E m \in Messages : Send(m, query + 1)
       \/ OpErrors /\ UNCHANGED msg
    /\ UNCHANGED <<data, calm, row, log, storage, topic, pc, run, clock>>

\* The batch fan-out lists the saved searches and publishes a refresh command.
PublishRefreshCommand(m) ==
    /\ Send(m, query)
    /\ UNCHANGED <<external, row, log, storage, topic, pc, run, clock>>
-----------------------------------------------------------------------------
(* Pub/Sub: leases, acknowledgements and the dead-letter policy *)

\* The message after a delivery that ended without an acknowledgement.
Requeued(r) ==
    [r EXCEPT !.holder = NoOne,
              !.st = IF r.tries >= MaxDeliveries THEN "dead" ELSE "pending"]

Holds(w) == trigger[w] # NoOne /\ msg[trigger[w]].holder = w

GoTo(w, step) == pc' = [pc EXCEPT ![w] = step]

\* What a run has read and computed is of no use to its later steps.
Forget(w) ==
    /\ base' = [base EXCEPT ![w] = NoState]
    /\ result' = [result EXCEPT ![w] = NoState]

\* The run is over.
Retire(w) ==
    /\ GoTo(w, "idle")
    /\ trigger' = [trigger EXCEPT ![w] = NoOne]
    /\ Forget(w)

Receive(w, m) ==
    /\ pc[w] = "idle"
    /\ msg[m].st = "pending"
    /\ msg[m].holder = NoOne
    /\ msg' = [msg EXCEPT ![m] = [@ EXCEPT !.holder = w,
                                            !.tries = msg[m].tries + 1]]
    /\ trigger' = [trigger EXCEPT ![w] = m]
    /\ GoTo(w, "acquire")
    /\ UNCHANGED <<external, row, log, storage, topic, base, result, clock>>

\* Acknowledging with a lease that is gone has no effect: the message is
\* delivered again or already belongs to another run.
Ack(w) ==
    /\ pc[w] = "ack"
    /\ msg' = IF Holds(w)
                THEN [msg EXCEPT ![trigger[w]] =
                          [@ EXCEPT !.holder = NoOne, !.st = "acked"]]
                ELSE msg
    /\ Retire(w)
    /\ UNCHANGED <<external, row, log, storage, topic, clock>>

\* Variant: the handler returns without a negative acknowledgement.
NackForgotten(w) ==
    /\ pc[w] = "nack"
    /\ Retire(w)
    /\ UNCHANGED <<external, msg, row, log, storage, topic, clock>>

Nack(w) ==
    /\ pc[w] = "nack"
    /\ msg' = IF Holds(w)
                THEN [msg EXCEPT ![trigger[w]] = Requeued(@)]
                ELSE msg
    /\ Retire(w)
    /\ UNCHANGED <<external, row, log, storage, topic, clock>>

\* The process of a run dies at any of its steps; its lease then runs out.
Crash(w) ==
    /\ Crashes
    /\ pc[w] # "idle"
    /\ msg' = IF Holds(w)
                THEN [msg EXCEPT ![trigger[w]] = Requeued(@)]
                ELSE msg
    /\ Retire(w)
    /\ calm' = FALSE
    /\ UNCHANGED <<query, data, row, log, storage, topic, clock>>

\* The lease of a message lapses although its run is alive (a lost lease
\* extension, a duplicate delivery).
LeaseLapses(m) ==
    /\ EarlyRedelivery
    /\ msg[m].holder # NoOne
    /\ msg' = [msg EXCEPT ![m] = Requeued(@)]
    /\ UNCHANGED <<external, row, log, storage, topic, pc, run, clock>>
-----------------------------------------------------------------------------
(* ProcessSearch, one action per call it makes *)

\* An active lock of another trigger is refused; a free or expired lock, or one
\* the same trigger left behind, is taken.  Time passes in ExpireLock only.
LockRefused(m) == row.owner \notin {NoOne, m} /\ ~row.expired

\* Variant: a refused lock is not reported as transient.
AcquireLockGivesUp(w) ==
    /\ pc[w] = "acquire"
    /\ IF LockRefused(trigger[w])
         THEN GoTo(w, "ack") /\ UNCHANGED row
         ELSE /\ row' = [row EXCEPT !.owner = trigger[w], !.expired = FALSE]
              /\ GoTo(w, "load")
    /\ UNCHANGED <<external, msg, log, storage, topic, run, clock>>

AcquireLock(w) ==
    /\ pc[w] = "acquire"
    /\ IF LockRefused(trigger[w])
         THEN GoTo(w, "nack") /\ UNCHANGED row
         ELSE /\ row' = [row EXCEPT !.owner = trigger[w], !.expired = FALSE]
              /\ GoTo(w, "load")
    /\ UNCHANGED <<external, msg, log, storage, topic, run, clock>>

\* The two minutes of the lock's TTL are over.
ExpireLock ==
    /\ row.owner # NoOne
    /\ ~row.expired
    /\ row' = [row EXCEPT !.expired = TRUE]
    /\ UNCHANGED <<external, msg, log, storage, topic, pc, run, clock>>

Events == {log[i] : i \in DOMAIN log}

\* ORDER BY Timestamp DESC LIMIT 1; an event's timestamp is the GeneratedAt of
\* its state.
LatestEvent ==
    CHOOSE e \in Events : \A f \in Events : f.state.id <= e.state.id

LatestState == IF log = <<>> THEN NoState ELSE LatestEvent.state

\* GetLatestEvent, then the state blob it names.  A missing blob ends the run.
LoadPrevious(w) ==
    /\ pc[w] = "load"
    /\ IF log = <<>> \/ LatestState \in states
         THEN /\ base' = [base EXCEPT ![w] = LatestState]
              /\ GoTo(w, "compare")
         ELSE GoTo(w, "release") /\ UNCHANGED base
    /\ UNCHANGED <<external, msg, row, log, storage, topic, trigger, result,
                   clock>>

\* Variant: every run writes, changed or not.
ShouldWriteAlways(old, new) == TRUE

\* The differ's decision to write: cold start, another query, other features.
ShouldWrite(old, new) ==
    old.id = 0 \/ old.query # new.query \/ old.data # new.data

\* differ.Run: fetch the live result of the query the message carries and
\* compare it with the state that was read.
Compare(w) ==
    /\ pc[w] = "compare"
    /\ LET new == [id |-> clock + 1, query |-> msg[trigger[w]].query,
                   data |-> data]
       IN IF ShouldWrite(base[w], new)
            THEN /\ result' = [result EXCEPT ![w] = new]
                 /\ clock' = clock + 1
                 /\ GoTo(w, "storeState")
                 /\ UNCHANGED base
            ELSE GoTo(w, "release") /\ Forget(w) /\ UNCHANGED clock
    /\ UNCHANGED <<external, msg, row, log, storage, topic, trigger>>

\* A state blob has a fresh name.  A writer that fails to close has stored
\* nothing, and WriteBlob reports success all the same.
StoreState(w) ==
    /\ pc[w] = "storeState"
    /\ \/ states' = states \cup {result[w]}
       \/ LossyClose /\ UNCHANGED states
    /\ GoTo(w, "storeDiff")
    /\ UNCHANGED <<external, msg, row, log, diffs, topic, run, clock>>

\* A diff blob is named after the trigger: a second run of the same trigger
\* writes over the first one's.
StoreDiff(w) ==
    /\ pc[w] = "storeDiff"
    /\ \/ diffs' = [diffs EXCEPT ![trigger[w]] = result[w].id]
       \/ LossyClose /\ UNCHANGED diffs
    /\ GoTo(w, "publishEvent")
    /\ UNCHANGED <<external, msg, row, log, states, topic, run, clock>>

HasEvent(m) == \E i \in DOMAIN log : log[i].id = m

\* Variant: no fencing check.
MayCommitUnfenced(w) == ~HasEvent(trigger[w])

\* Variant: the event is upserted.
MayCommitAgain(w) == row.owner = trigger[w]

\* One transaction: the fencing check, the row's new blob path with the lock
\* kept, and the insertion of the event under the trigger's identifier.
MayCommit(w) == row.owner = trigger[w] /\ ~HasEvent(trigger[w])

Commit(w) ==
    /\ row' = [row EXCEPT !.path = result[w].id]
    /\ log' = Append(log, [id |-> trigger[w], base |-> base[w],
                           state |-> result[w]])

PublishEvent(w) ==
    /\ pc[w] = "publishEvent"
    /\ IF MayCommit(w)
         THEN Commit(w) /\ GoTo(w, "notify")
         ELSE GoTo(w, "release") /\ UNCHANGED <<row, log>>
    /\ Forget(w)
    /\ UNCHANGED <<external, msg, storage, topic, trigger, clock>>

PublishNotification(w) ==
    /\ pc[w] = "notify"
    /\ topic' = [topic EXCEPT ![trigger[w]] = @ + 1]
    /\ GoTo(w, "release")
    /\ UNCHANGED <<external, msg, row, log, storage, run, clock>>

\* Deferred on every path once the lock is taken; a lock that is no longer
\* this trigger's is left alone.
ReleaseLock(w) ==
    /\ pc[w] = "release"
    /\ row' = IF row.owner = trigger[w]
                THEN [row EXCEPT !.owner = NoOne, !.expired = FALSE]
                ELSE row
    /\ GoTo(w, "ack")
    /\ UNCHANGED <<external, msg, log, storage, topic, run, clock>>

\* Variant: a failure to store the state is logged and ignored.
AfterFailureIgnored ==
    [s \in Steps \ {"idle", "ack", "nack"} |->
        CASE s = "acquire" -> "nack"
          [] s = "storeState" -> "storeDiff"
          [] s = "release" -> "ack"
          [] OTHER -> "release"]

\* Where the run goes when the call of a step fails: only a failure to take the
\* lock is reported as transient, all others are acknowledged.
AfterFailure ==
    [s \in Steps \ {"idle", "ack", "nack"} |->
        CASE s = "acquire" -> "nack"
          [] s = "release" -> "ack"
          [] OTHER -> "release"]

CallFails(w) ==
    /\ OpErrors
    /\ pc[w] \in DOMAIN AfterFailure
    /\ GoTo(w, AfterFailure[pc[w]])
    /\ Forget(w)
    /\ calm' = FALSE
    /\ UNCHANGED <<query, data, msg, row, log, storage, topic, trigger, clock>>
-----------------------------------------------------------------------------
ProcessSearch(w) ==
    \/ AcquireLock(w)
    \/ LoadPrevious(w)
    \/ Compare(w)
    \/ StoreState(w)
    \/ StoreDiff(w)
    \/ PublishEvent(w)
    \/ PublishNotification(w)
    \/ ReleaseLock(w)
    \/ CallFails(w)

Handler(w) == ProcessSearch(w) \/ Ack(w) \/ Nack(w)

Next ==
    \/ DataChanges
    \/ EditQuery
    \/ \E m \in Messages : PublishRefreshCommand(m) \/ LeaseLapses(m)
    \/ ExpireLock
    \/ \E w \in Workers : Handler(w) \/ Crash(w)
    \/ \E w \in Workers, m \in Messages : Receive(w, m)

Spec == Init /\ [][Next]_vars

\* A live handler makes progress, Pub/Sub delivers what is pending and time
\* passes.  Crashes, edits and data changes owe nothing.
Fairness ==
    /\ \A w \in Workers : WF_vars(Handler(w))
    /\ \A m \in Messages : WF_vars(\E w \in Workers : Receive(w, m))
    /\ WF_vars(ExpireLock)

FairSpec == Spec /\ Fairness
-----------------------------------------------------------------------------
(* Safety *)

LastState == IF log = <<>> THEN NoState ELSE log[Len(log)].state

\* Every event was computed against the event committed just before it: two runs
\* never report the same change from the same starting point, however locks
\* expire and are taken over (the fencing check of
\* PublishSavedSearchNotificationEvent).
Lineage ==
    \A i \in DOMAIN log :
        log[i].base = IF i = 1 THEN NoState ELSE log[i - 1].state

\* The row's LastKnownStateBlobPath names the state of the event committed last,
\* through every acquisition, takeover and release of the lock.
PathIsLastCommit == row.path = LastState.id

\* Every event's state blob is in storage: without it all later runs of this
\* search stop at reading it.
EventBlobsExist == \A i \in DOMAIN log : log[i].state \in states

\* Nothing is announced that is not committed, and nothing is announced twice,
\* even when a crash or a duplicate delivery runs a trigger again.
AnnouncedOnce ==
    \A m \in Messages : topic[m] <= 1 /\ (topic[m] > 0 => HasEvent(m))

\* Once every message is acknowledged and none was dead-lettered, the newest
\* event covers the data every one of them was sent for: a refresh that lost its
\* lock to another run was made good by that run.
NoSilentLoss ==
    (\A m \in Messages : msg[m].st \in {"unsent", "acked"})
        => \A m \in Messages :
               msg[m].st = "acked"
                   => log # <<>> /\ LatestState.data >= msg[m].since

\* Contention and expired locks alone lose no refresh that was acknowledged.
CalmLosesNothing == calm => NoSilentLoss

\* The promise to the rest of the system.
History == INSTANCE SavedSearchHistory WITH
    Triggers <- Messages,
    history <- log,
    announced <- {m \in Messages : topic[m] > 0}

\* The producer implements the append-only history.
ImplementsHistory == History!Spec
-----------------------------------------------------------------------------
(* Liveness *)

\* Every message sent is settled: acknowledged or dead-lettered, never lost or
\* redelivered for ever.
MessagesSettle ==
    \A m \in Messages :
        msg[m].st = "pending" ~> msg[m].st \in {"acked", "dead"}
-----------------------------------------------------------------------------
(* Expectations that the code does not meet; see README.md *)

\* diff/<trigger>.json of an event holds the diff that led to its state.
DiffMatchesEvent ==
    \A i \in DOMAIN log : diffs[log[i].id] = log[i].state.id

\* An event that reports a changed query reports an edit of the user: the query
\* of the history never goes back to one the user has replaced.
QueryChangesFollowEdits ==
    \A i \in DOMAIN log :
        i > 1 => log[i].state.query >= log[i - 1].state.query

\* Downstream workers are notified of every event that is committed.
CommittedEventsAreAnnounced ==
    \A m \in Messages : HasEvent(m) ~> topic[m] > 0
=============================================================================
