------------------------------ MODULE Delivery ------------------------------
(***************************************************************************)
(* From an announced event to the subscribers of its saved search: the     *)
(* push-delivery dispatcher fans the event out into one job per active     *)
(* subscription, the email and webhook workers deliver the jobs and record *)
(* the outcome in the health of the channel, and logging in reconciles the *)
(* email channels with the addresses of the user's GitHub profile.         *)
(*                                                                         *)
(* Every queue is at-least-once: a run that dies or answers "transient" is *)
(* followed by another delivery until the dead-letter limit.  A message is *)
(* handled by one run at a time.  The receivers (the mail service Chime,   *)
(* the webhook's server) answer as they like; Chime remembers the          *)
(* identifiers of the mails it accepted.                                   *)
(***************************************************************************)
EXTENDS Integers

CONSTANTS
    Events,          \* events of one saved search at one frequency
    Emails,          \* email channels, each with its own address
    Webhooks,        \* webhook channels
    MaxFanOuts,      \* max_delivery_attempts of the dispatcher's subscription
    MaxDeliveries,   \* max_delivery_attempts of the workers' subscriptions
    MaxFailures,     \* maxConsecutiveFailuresPerChannel
    Crashes,         \* may the process of a run die?
    OpErrors         \* may a call to Spanner or Pub/Sub fail?

ASSUME ChannelsAssumption == Emails \cap Webhooks = {}
ASSUME LimitsAssumption ==
    /\ MaxFanOuts \in Nat \ {0}
    /\ MaxDeliveries \in Nat \ {0}
    /\ MaxFailures \in Nat \ {0}
ASSUME SwitchesAssumption == Crashes \in BOOLEAN /\ OpErrors \in BOOLEAN

VARIABLES
    listed,    \* addresses of the profile at the last login
    sub,       \* channels subscribed, with triggers that the events match
    health,    \* NotificationChannels and NotificationChannelStates
    note,      \* the notification of each event, on the dispatcher's queue
    todo,      \* jobs a fan-out has yet to publish
    due,       \* jobs the latest fan-out of an event generated, less those it
               \* counted as not published
    job,       \* the delivery jobs, on the queues of the workers
    answer,    \* how the current delivery of a job went: the receiver's answer,
               \* or what kept the worker from asking it
    accepted,  \* identifiers of the mails Chime has accepted
    inbox,     \* how often the receiver got the job's notification
    logged     \* statuses in NotificationChannelDeliveryAttempts, per job

queue == <<note, todo, due>>
work == <<job, answer, accepted, inbox, logged>>
vars == <<listed, sub, health, queue, work>>

Channels == Emails \cup Webhooks

\* A job is identified by its message, one per publication: the event, the
\* channel and the delivery of the notification that published it.
Jobs == Events \X Channels \X (1 .. MaxFanOuts)
ChannelOf(j) == j[2]

Health == [life : {"absent", "live", "deleted"}, disabled : BOOLEAN,
           failures : Nat]
Answers == {"none", "delivered", "duplicate", "permanent", "system", "transient",
            "unrendered"}

TypeOK ==
    /\ listed \in SUBSET Emails
    /\ sub \in SUBSET Channels
    /\ health \in [Channels -> Health]
    /\ note \in [Events -> [st : {"unsent", "pending", "fanout", "acked", "dead"},
                            tries : Nat]]
    /\ todo \in [Events -> SUBSET Channels]
    /\ due \in [Events -> SUBSET Channels]
    /\ job \in [Jobs -> [st : {"unsent", "pending", "send", "record", "settle",
                               "acked", "dead"},
                         tries : Nat]]
    /\ answer \in [Jobs -> Answers]
    /\ accepted \in SUBSET Jobs
    /\ inbox \in [Jobs -> Nat]
    /\ logged \in [Jobs -> SUBSET {"SUCCESS", "FAILURE"}]

Init ==
    /\ listed = {}
    /\ sub = {}
    /\ health = [c \in Channels |->
                    [life |-> "absent", disabled |-> FALSE, failures |-> 0]]
    /\ note = [e \in Events |-> [st |-> "unsent", tries |-> 0]]
    /\ todo = [e \in Events |-> {}]
    /\ due = [e \in Events |-> {}]
    /\ job = [j \in Jobs |-> [st |-> "unsent", tries |-> 0]]
    /\ answer = [j \in Jobs |-> "none"]
    /\ accepted = {}
    /\ inbox = [j \in Jobs |-> 0]
    /\ logged = [j \in Jobs |-> {}]
-----------------------------------------------------------------------------
(* The user: login, channels and subscriptions *)

Live(c) == health[c].life = "live"

\* Logging in: a listed address gets an enabled channel, an address that is no
\* longer listed has its channel disabled; failure counts are left alone.  A
\* channel deleted by its user is succeeded by a new one, outside this instance.
SyncUserProfileInfo(addresses) ==
    /\ listed' = addresses
    /\ health' = [c \in Channels |->
           CASE c \in addresses /\ health[c].life = "absent" ->
                    [life |-> "live", disabled |-> FALSE, failures |-> 0]
             [] c \in Emails /\ Live(c) ->
                    [health[c] EXCEPT !.disabled = c \notin addresses]
             [] OTHER -> health[c]]
    /\ UNCHANGED <<sub, queue, work>>

CreateNotificationChannel(c) ==
    /\ c \in Webhooks
    /\ health[c].life = "absent"
    /\ health' = [health EXCEPT ![c] = [life |-> "live", disabled |-> FALSE,
                                         failures |-> 0]]
    /\ UNCHANGED <<listed, sub, queue, work>>

\* The states and subscriptions of a channel are deleted with it.
DeleteNotificationChannel(c) ==
    /\ Live(c)
    /\ health' = [health EXCEPT ![c] = [life |-> "deleted", disabled |-> FALSE,
                                         failures |-> 0]]
    /\ sub' = sub \ {c}
    /\ UNCHANGED <<listed, queue, work>>

CreateSavedSearchSubscription(c) ==
    /\ Live(c)
    /\ c \notin sub
    /\ sub' = sub \cup {c}
    /\ UNCHANGED <<listed, health, queue, work>>

DeleteSavedSearchSubscription(c) ==
    /\ c \in sub
    /\ sub' = sub \ {c}
    /\ UNCHANGED <<listed, health, queue, work>>
-----------------------------------------------------------------------------
(* The dispatcher *)

\* A message after a delivery that ended without an acknowledgement.
Requeued(r, limit) ==
    [r EXCEPT !.st = IF r.tries >= limit THEN "dead" ELSE "pending"]

\* The event producer announces an event.
Announce(e) ==
    /\ note[e].st = "unsent"
    /\ note' = [note EXCEPT ![e].st = "pending"]
    /\ UNCHANGED <<listed, sub, health, todo, due, work>>

\* FindAllActivePushSubscriptions, joined with the health of the channel.
Active == {c \in sub : ~health[c].disabled}

\* ProcessEvent generates all jobs before it publishes the first.
FanOut(e) ==
    /\ note[e].st = "pending"
    /\ note' = [note EXCEPT ![e] = [st |-> "fanout", tries |-> note[e].tries + 1]]
    /\ todo' = [todo EXCEPT ![e] = Active]
    /\ due' = [due EXCEPT ![e] = Active]
    /\ UNCHANGED <<listed, sub, health, work>>

\* Failing to read the subscriptions is not reported as transient.
FindSubscribersFails(e) ==
    /\ OpErrors
    /\ note[e].st = "pending"
    /\ note' = [note EXCEPT ![e] = [st |-> "acked", tries |-> note[e].tries + 1]]
    /\ due' = [due EXCEPT ![e] = {}]
    /\ UNCHANGED <<listed, sub, health, todo, work>>

\* Email jobs go first.
Upcoming(e) ==
    IF todo[e] \cap Emails # {} THEN todo[e] \cap Emails ELSE todo[e]

PublishJob(e, c) ==
    /\ note[e].st = "fanout"
    /\ c \in Upcoming(e)
    /\ todo' = [todo EXCEPT ![e] = todo[e] \ {c}]
    /\ job' = [job EXCEPT ![<<e, c, note[e].tries>>].st = "pending"]
    /\ UNCHANGED <<listed, sub, health, note, due, answer, accepted, inbox, logged>>

\* A job that cannot be published is counted, and the next one is tried.
PublishJobFails(e, c) ==
    /\ OpErrors
    /\ note[e].st = "fanout"
    /\ c \in Upcoming(e)
    /\ todo' = [todo EXCEPT ![e] = todo[e] \ {c}]
    /\ due' = [due EXCEPT ![e] = due[e] \ {c}]
    /\ UNCHANGED <<listed, sub, health, note, work>>

\* Variant: the notification is acknowledged when the email jobs are out.
FinishFanOutEarly(e) ==
    /\ note[e].st = "fanout"
    /\ todo[e] \cap Emails = {}
    /\ note' = [note EXCEPT ![e].st = "acked"]
    /\ todo' = [todo EXCEPT ![e] = {}]
    /\ UNCHANGED <<listed, sub, health, due, work>>

\* The notification is acknowledged whether or not all jobs were published: a
\* partial failure is not reported as transient.
FinishFanOut(e) ==
    /\ note[e].st = "fanout"
    /\ todo[e] = {}
    /\ note' = [note EXCEPT ![e].st = "acked"]
    /\ UNCHANGED <<listed, sub, health, todo, due, work>>

CrashFanOut(e) ==
    /\ Crashes
    /\ note[e].st = "fanout"
    /\ note' = [note EXCEPT ![e] = Requeued(note[e], MaxFanOuts)]
    /\ todo' = [todo EXCEPT ![e] = {}]
    /\ UNCHANGED <<listed, sub, health, due, work>>
-----------------------------------------------------------------------------
(* The email and webhook workers *)

Receive(j) ==
    /\ job[j].st = "pending"
    /\ job' = [job EXCEPT ![j] = [st |-> "send", tries |-> job[j].tries + 1]]
    /\ answer' = [answer EXCEPT ![j] = "none"]
    /\ UNCHANGED <<listed, sub, health, queue, accepted, inbox, logged>>

\* The receiver's answer reaches the worker.
Answered(j, a) ==
    /\ job' = [job EXCEPT ![j].st = "record"]
    /\ answer' = [answer EXCEPT ![j] = a]
    /\ UNCHANGED <<listed, sub, health, queue, logged>>

Delivered(j) == inbox' = [inbox EXCEPT ![j] = @ + 1]

\* Variant: every attempt has an identifier of its own.
SendEmailUnkeyed(j) ==
    /\ ChannelOf(j) \in Emails
    /\ job[j].st = "send"
    /\ Delivered(j)
    /\ \E a \in {"delivered", "transient"} : Answered(j, a)
    /\ accepted' = accepted \cup {j}

\* The digest of a mail cannot be rendered: a failure to record, and no mail.
RenderFails(j) ==
    /\ ChannelOf(j) \in Emails
    /\ job[j].st = "send"
    /\ Answered(j, "unrendered")
    /\ UNCHANGED <<accepted, inbox>>

\* Chime is given the job's message identifier.  It refuses an identifier it has
\* accepted; its answer, or the connection, may be lost after it has accepted.
\* "system" is a refusal that is not the address's fault, or no access token.
SendEmail(j) ==
    /\ ChannelOf(j) \in Emails
    /\ job[j].st = "send"
    /\ \/ /\ j \notin accepted
          /\ Delivered(j)
          /\ accepted' = accepted \cup {j}
          /\ \E a \in {"delivered", "transient"} : Answered(j, a)
       \/ /\ j \in accepted
          /\ \E a \in {"duplicate", "system", "transient"} : Answered(j, a)
          /\ UNCHANGED <<accepted, inbox>>
       \/ /\ j \notin accepted
          /\ \E a \in {"permanent", "system", "transient"} : Answered(j, a)
          /\ UNCHANGED <<accepted, inbox>>

\* A webhook's server knows no identifier.  A webhook that cannot be prepared (an
\* unknown type, an unreadable summary) fails as permanently as one refused.
SendWebhook(j) ==
    /\ ChannelOf(j) \in Webhooks
    /\ job[j].st = "send"
    /\ \/ Delivered(j) /\ \E a \in {"delivered", "transient"} : Answered(j, a)
       \/ /\ \E a \in {"permanent", "transient"} : Answered(j, a)
          /\ UNCHANGED inbox
    /\ UNCHANGED accepted

\* Variant: a success resets the failure count only.
RecordedCountOnly(h, a) ==
    IF a = "delivered"
      THEN [h EXCEPT !.failures = 0]
      ELSE LET n == IF a = "permanent" THEN h.failures + 1 ELSE h.failures
           IN [h EXCEPT !.failures = n, !.disabled = n >= MaxFailures]

\* RecordNotificationChannelSuccess resets the health; a failure is counted if
\* it is permanent, and whether the channel is disabled is decided anew.
Recorded(h, a) ==
    IF a = "delivered"
      THEN [h EXCEPT !.failures = 0, !.disabled = FALSE]
      ELSE LET n == IF a = "permanent" THEN h.failures + 1 ELSE h.failures
           IN [h EXCEPT !.failures = n, !.disabled = n >= MaxFailures]

\* One transaction writes the health and the attempt.  It fails for a channel
\* that was deleted in the meantime; a failure is only logged.
Record(j) ==
    /\ job[j].st = "record"
    /\ job' = [job EXCEPT ![j].st = "settle"]
    /\ LET c == ChannelOf(j)
       IN \/ /\ Live(c)
             /\ health' = [health EXCEPT ![c] = Recorded(health[c], answer[j])]
             /\ logged' = [logged EXCEPT ![j] =
                    @ \cup {IF answer[j] = "delivered" THEN "SUCCESS" ELSE "FAILURE"}]
          \/ /\ ~Live(c) \/ OpErrors
             /\ UNCHANGED <<health, logged>>
    /\ UNCHANGED <<listed, sub, queue, answer, accepted, inbox>>

\* Variant: a transient answer is acknowledged.
SettleWithoutRetry(j) ==
    /\ job[j].st = "settle"
    /\ job' = [job EXCEPT ![j].st = "acked"]
    /\ UNCHANGED <<listed, sub, health, queue, answer, accepted, inbox, logged>>

\* A transient answer is negatively acknowledged, any other acknowledged.
Settle(j) ==
    /\ job[j].st = "settle"
    /\ job' = [job EXCEPT ![j] = IF answer[j] = "transient"
                                    THEN Requeued(job[j], MaxDeliveries)
                                    ELSE [job[j] EXCEPT !.st = "acked"]]
    /\ UNCHANGED <<listed, sub, health, queue, answer, accepted, inbox, logged>>

\* The process of a worker dies between two of its steps.
CrashJob(j) ==
    /\ Crashes
    /\ job[j].st \in {"send", "record", "settle"}
    /\ job' = [job EXCEPT ![j] = Requeued(job[j], MaxDeliveries)]
    /\ answer' = [answer EXCEPT ![j] = "none"]
    /\ UNCHANGED <<listed, sub, health, queue, accepted, inbox, logged>>
-----------------------------------------------------------------------------
User ==
    \/ \E addresses \in SUBSET Emails : SyncUserProfileInfo(addresses)
    \/ \E c \in Channels :
          \/ CreateNotificationChannel(c)
          \/ DeleteNotificationChannel(c)
          \/ CreateSavedSearchSubscription(c)
          \/ DeleteSavedSearchSubscription(c)

ProcessEvent(e) ==
    \/ FanOut(e)
    \/ FindSubscribersFails(e)
    \/ \E c \in Channels : PublishJob(e, c) \/ PublishJobFails(e, c)
    \/ FinishFanOut(e)

ProcessMessage(j) ==
    \/ Receive(j)
    \/ RenderFails(j) \/ SendEmail(j) \/ SendWebhook(j)
    \/ Record(j)
    \/ Settle(j)

Next ==
    \/ User
    \/ \E e \in Events : Announce(e) \/ ProcessEvent(e) \/ CrashFanOut(e)
    \/ \E j \in Jobs : ProcessMessage(j) \/ CrashJob(j)

Spec == Init /\ [][Next]_vars

\* Pub/Sub delivers what is pending and a live run makes progress.
Fairness ==
    /\ \A e \in Events : WF_vars(ProcessEvent(e))
    /\ \A j \in Jobs : WF_vars(ProcessMessage(j))

FairSpec == Spec /\ Fairness
-----------------------------------------------------------------------------
(* Safety *)

\* A webhook channel is disabled exactly when its permanent failures since the
\* last success reach the limit, however deliveries of several jobs interleave.
DisabledByFailuresOnly ==
    \A c \in Webhooks : health[c].disabled <=> health[c].failures >= MaxFailures

\* However often a job is delivered again, its mail reaches the address once.
EmailSentOnce == \A j \in Jobs : ChannelOf(j) \in Emails => inbox[j] <= 1

\* A job leaves its queue only when the notification arrived, or its last delivery
\* ended in a failure that no retry can help: a refusal for good, a failure of the
\* system's own or a mail that cannot be rendered.  A lost answer is none of them,
\* and a mail is called a duplicate only when the first one arrived.
AckedJobsAreHandled ==
    \A j \in Jobs : job[j].st = "acked"
        => inbox[j] > 0 \/ answer[j] \in {"permanent", "system", "unrendered"}

\* Every active subscription found gets a job before its event is acknowledged,
\* unless its publication failed and was counted.
FanOutIsComplete ==
    \A e \in Events : note[e].st = "acked"
        => \A c \in due[e] :
               \E n \in 1 .. MaxFanOuts : job[<<e, c, n>>].st # "unsent"

-----------------------------------------------------------------------------
(* Liveness *)

\* A subscriber that stays active is served: its job is settled, unless the
\* event's notification itself is dead-lettered.
ActiveSubscribersAreServed ==
    \A e \in Events, c \in Channels :
        note[e].st = "pending" /\ c \in Active
            ~> \/ c \notin Active
               \/ note[e].st = "dead"
               \/ \E n \in 1 .. MaxFanOuts :
                      job[<<e, c, n>>].st \in {"acked", "dead"}
-----------------------------------------------------------------------------
(* Expectations that the code does not meet; see README.md *)

\* An address the user has removed from the profile is not notified again: its
\* channel stays disabled until a login lists it.
RemovedAddressStaysDisabled ==
    \A c \in Emails : Live(c) /\ c \notin listed => health[c].disabled

\* The attempts of a live channel show the delivery of a mail that arrived.
DeliveriesAreLogged ==
    \A j \in Jobs :
        ChannelOf(j) \in Emails /\ Live(ChannelOf(j)) /\ job[j].st = "acked"
        /\ inbox[j] > 0 => "SUCCESS" \in logged[j]

\* Recording a failure that is not permanent does not penalise the channel: one that
\* a login has enabled again keeps its count, and is disabled by any failure.
TransientFailuresDoNotDisable ==
    [][\A j \in Jobs :
          job[j].st = "record" /\ job'[j].st = "settle"
          /\ answer[j] \in {"transient", "system", "duplicate", "unrendered"}
             => (health'[ChannelOf(j)].disabled => health[ChannelOf(j)].disabled)]_vars
=============================================================================
