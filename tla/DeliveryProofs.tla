--------------------------- MODULE DeliveryProofs ---------------------------
(***************************************************************************)
(* Proofs about Delivery, for every set of events and channels and every   *)
(* limit: typing, the health of webhook channels, mails sent once, settled *)
(* jobs, and, while no call to Spanner or Pub/Sub fails, the completeness  *)
(* of a fan-out.                                                           *)
(***************************************************************************)
EXTENDS Delivery, TLAPS

USE DEF queue, work

Message(states) == [st : states, tries : Nat]
NoteStates == {"unsent", "pending", "fanout", "acked", "dead"}
JobStates == {"unsent", "pending", "send", "record", "settle", "acked", "dead"}

\* What becomes of a message record keeps its type.
LEMMA Messages ==
    ASSUME NEW S, "pending" \in S, "dead" \in S, "acked" \in S,
           NEW r \in Message(S), NEW limit
    PROVE  /\ Requeued(r, limit) \in Message(S)
           /\ Requeued(r, limit).tries = r.tries
           /\ Requeued(r, limit).st = "pending" => ~(r.tries >= limit)
           /\ Requeued(r, limit).st \in {"pending", "dead"}
BY DEF Requeued, Message

\* Recording an outcome keeps the type of a channel's health, and a channel is
\* disabled exactly at the limit afterwards.
LEMMA RecordedHealth ==
    ASSUME NEW h \in Health, NEW a
    PROVE  /\ Recorded(h, a) \in Health
           /\ Recorded(h, a).life = h.life
           /\ Recorded(h, a).disabled <=> Recorded(h, a).failures >= MaxFailures
<1>1. CASE a = "delivered"
  <2>1. Recorded(h, a) = [h EXCEPT !.failures = 0, !.disabled = FALSE]
    BY <1>1 DEF Recorded
  <2>2. ~(0 >= MaxFailures)
    BY LimitsAssumption
  <2>3. /\ [h EXCEPT !.failures = 0, !.disabled = FALSE] \in Health
        /\ [h EXCEPT !.failures = 0, !.disabled = FALSE].life = h.life
        /\ [h EXCEPT !.failures = 0, !.disabled = FALSE].failures = 0
    BY DEF Health
  <2>4. Recorded(h, a).disabled = FALSE
    BY <2>1 DEF Health
  <2> QED BY <2>1, <2>2, <2>3, <2>4
<1>2. CASE a # "delivered"
  <2> DEFINE n == IF a = "permanent" THEN h.failures + 1 ELSE h.failures
  <2>1. Recorded(h, a) = [h EXCEPT !.failures = n, !.disabled = n >= MaxFailures]
    BY <1>2 DEF Recorded
  <2>2. n \in Nat
    BY DEF Health
  <2>3. (n >= MaxFailures) \in BOOLEAN
    OBVIOUS
  <2> HIDE DEF n
  <2> QED BY <2>1, <2>2, <2>3 DEF Health
<1> QED BY <1>1, <1>2

\* Every step keeps the type invariant.
LEMMA TypeStep ==
    ASSUME TypeOK, [Next]_vars
    PROVE  TypeOK'
<1> USE DEF TypeOK
<1>h. [life |-> "live", disabled |-> FALSE, failures |-> 0] \in Health
      /\ [life |-> "deleted", disabled |-> FALSE, failures |-> 0] \in Health
  BY DEF Health
<1>m. \A S, s, n : s \in S /\ n \in Nat => [st |-> s, tries |-> n] \in Message(S)
  BY DEF Message
<1>n. note \in [Events -> Message(NoteStates)] /\ job \in [Jobs -> Message(JobStates)]
  BY DEF Message, NoteStates, JobStates
<1>t. ASSUME note' \in [Events -> Message(NoteStates)],
             job' \in [Jobs -> Message(JobStates)],
             listed' \in SUBSET Emails, sub' \in SUBSET Channels,
             health' \in [Channels -> Health],
             todo' \in [Events -> SUBSET Channels],
             due' \in [Events -> SUBSET Channels],
             answer' \in [Jobs -> Answers], accepted' \in SUBSET Jobs,
             inbox' \in [Jobs -> Nat],
             logged' \in [Jobs -> SUBSET {"SUCCESS", "FAILURE"}]
      PROVE  TypeOK'
  BY <1>t DEF Message, NoteStates, JobStates
<1>a. Active \in SUBSET Channels
  BY DEF Active
<1>s. /\ {"unsent", "pending", "fanout", "acked", "dead"} \subseteq NoteStates
      /\ {"unsent", "pending", "send", "record", "settle", "acked", "dead"}
             \subseteq JobStates
  BY DEF NoteStates, JobStates
<1>1. ASSUME NEW addresses \in SUBSET Emails, SyncUserProfileInfo(addresses)
      PROVE  TypeOK'
  <2>1. ASSUME NEW c \in Channels
        PROVE  [health[c] EXCEPT !.disabled = c \notin addresses] \in Health
    <3>1. ASSUME NEW d \in BOOLEAN
          PROVE  [health[c] EXCEPT !.disabled = d] \in Health
      BY DEF Health
    <3>2. (c \notin addresses) \in BOOLEAN
      OBVIOUS
    <3> QED BY <3>1, <3>2, Zenon
  <2>2. health' \in [Channels -> Health]
    BY <1>1, <1>h, <2>1 DEF SyncUserProfileInfo
  <2> QED BY <1>1, <1>n, <1>t, <2>2 DEF SyncUserProfileInfo
<1>2. ASSUME NEW c \in Channels,
             \/ CreateNotificationChannel(c)
             \/ DeleteNotificationChannel(c)
             \/ CreateSavedSearchSubscription(c)
             \/ DeleteSavedSearchSubscription(c)
      PROVE  TypeOK'
  <2>1. CASE CreateNotificationChannel(c)
    BY <2>1, <1>h, <1>n, <1>t DEF CreateNotificationChannel
  <2>2. CASE DeleteNotificationChannel(c)
    BY <2>2, <1>h, <1>n, <1>t DEF DeleteNotificationChannel
  <2>3. CASE CreateSavedSearchSubscription(c) \/ DeleteSavedSearchSubscription(c)
    BY <2>3, <1>n, <1>t
       DEF CreateSavedSearchSubscription, DeleteSavedSearchSubscription
  <2> QED BY <1>2, <2>1, <2>2, <2>3
<1>3. ASSUME NEW e \in Events, Announce(e)
      PROVE  TypeOK'
  <2>1. note' \in [Events -> Message(NoteStates)]
    BY <1>3, <1>n, <1>s DEF Announce, Message
  <2> QED BY <1>3, <1>n, <1>t, <2>1 DEF Announce
<1>4. ASSUME NEW e \in Events, ProcessEvent(e)
      PROVE  TypeOK'
  <2>1. CASE FanOut(e) \/ FindSubscribersFails(e)
    <3>1. note[e].tries + 1 \in Nat
      BY <1>n DEF Message
    <3>2. /\ [st |-> "fanout", tries |-> note[e].tries + 1] \in Message(NoteStates)
          /\ [st |-> "acked", tries |-> note[e].tries + 1] \in Message(NoteStates)
      BY <3>1, <1>m, <1>s
    <3>3. note' \in [Events -> Message(NoteStates)]
      BY <2>1, <1>n, <3>2 DEF FanOut, FindSubscribersFails
    <3> QED BY <2>1, <1>n, <1>t, <1>a, <3>3 DEF FanOut, FindSubscribersFails
  <2>2. ASSUME NEW c \in Channels, PublishJob(e, c) \/ PublishJobFails(e, c)
        PROVE  TypeOK'
    <3>1. ASSUME NEW k \in Jobs
          PROVE  [job[k] EXCEPT !.st = "pending"] \in Message(JobStates)
      BY <1>n, <1>s DEF Message
    <3>2. ASSUME NEW k, k \in Jobs => [job[k] EXCEPT !.st = "pending"] \in Message(JobStates)
          PROVE  [job EXCEPT ![k].st = "pending"] \in [Jobs -> Message(JobStates)]
      BY <3>2, <1>n
    <3>3. job' \in [Jobs -> Message(JobStates)]
      <4>1. CASE PublishJob(e, c)
        BY <4>1, <3>1, <3>2 DEF PublishJob
      <4>2. CASE PublishJobFails(e, c)
        BY <4>2, <1>n DEF PublishJobFails
      <4> QED BY <2>2, <4>1, <4>2
    <3>4. /\ todo' \in [Events -> SUBSET Channels]
          /\ due' \in [Events -> SUBSET Channels]
      <4>1. todo[e] \ {c} \in SUBSET Channels /\ due[e] \ {c} \in SUBSET Channels
        OBVIOUS
      <4>2. /\ todo' = [todo EXCEPT ![e] = todo[e] \ {c}]
            /\ due' = due \/ due' = [due EXCEPT ![e] = due[e] \ {c}]
        BY <2>2 DEF PublishJob, PublishJobFails
      <4>3. /\ todo \in [Events -> SUBSET Channels]
            /\ due \in [Events -> SUBSET Channels]
        OBVIOUS
      <4> HIDE DEF TypeOK
      <4> QED BY <4>1, <4>2, <4>3
    <3>5. UNCHANGED <<note, listed, sub, health, answer, accepted, inbox, logged>>
      BY <2>2 DEF PublishJob, PublishJobFails
    <3> QED BY <1>n, <1>t, <3>3, <3>4, <3>5
  <2>3. CASE FinishFanOut(e)
    <3>1. note' \in [Events -> Message(NoteStates)]
      BY <2>3, <1>n, <1>s DEF FinishFanOut, Message
    <3> QED BY <2>3, <1>n, <1>t, <3>1 DEF FinishFanOut
  <2> QED BY <1>4, <2>1, <2>2, <2>3 DEF ProcessEvent
<1>5. ASSUME NEW e \in Events, CrashFanOut(e)
      PROVE  TypeOK'
  <2>1. Requeued(note[e], MaxFanOuts) \in Message(NoteStates)
    BY <1>n, <1>s, Messages
  <2>2. note' \in [Events -> Message(NoteStates)]
    BY <1>5, <1>n, <2>1 DEF CrashFanOut
  <2> QED BY <1>5, <1>n, <1>t, <2>2 DEF CrashFanOut
<1>6. ASSUME NEW j \in Jobs, ProcessMessage(j)
      PROVE  TypeOK'
  <2>1. CASE Receive(j)
    <3>1. job[j].tries + 1 \in Nat
      BY <1>n DEF Message
    <3>2. [st |-> "send", tries |-> job[j].tries + 1] \in Message(JobStates)
      BY <3>1, <1>m, <1>s
    <3>3. job' \in [Jobs -> Message(JobStates)]
      BY <2>1, <1>n, <3>2 DEF Receive
    <3> QED BY <2>1, <1>n, <1>t, <3>3 DEF Receive, Answers
  <2>2. CASE RenderFails(j) \/ SendEmail(j) \/ SendWebhook(j)
    <3>1. PICK a \in Answers \ {"none"} : Answered(j, a)
      BY <2>2 DEF RenderFails, SendEmail, SendWebhook, Answers
    <3>2. job' \in [Jobs -> Message(JobStates)] /\ answer' \in [Jobs -> Answers]
      BY <3>1, <1>n, <1>s DEF Answered, Message, Answers
    <3>3. inbox' \in [Jobs -> Nat] /\ accepted' \in SUBSET Jobs
      BY <2>2 DEF RenderFails, SendEmail, SendWebhook, Delivered
    <3> QED BY <1>n, <1>t, <3>1, <3>2, <3>3 DEF Answered
  <2>3. CASE Record(j)
    <3>1. ChannelOf(j) \in Channels
      BY DEF Jobs, ChannelOf
    <3>2. job' \in [Jobs -> Message(JobStates)]
      BY <2>3, <1>n, <1>s DEF Record, Message
    <3>3. health' \in [Channels -> Health]
      BY <2>3, <3>1, RecordedHealth DEF Record
    <3>4. logged' \in [Jobs -> SUBSET {"SUCCESS", "FAILURE"}]
      <4> DEFINE s == IF answer[j] = "delivered" THEN "SUCCESS" ELSE "FAILURE"
      <4>1. logged' = logged \/ logged' = [logged EXCEPT ![j] = logged[j] \cup {s}]
        BY <2>3 DEF Record
      <4>2. logged[j] \cup {s} \in SUBSET {"SUCCESS", "FAILURE"}
        OBVIOUS
      <4> HIDE DEF s
      <4> QED BY <4>1, <4>2
    <3> QED BY <2>3, <1>n, <1>t, <3>2, <3>3, <3>4 DEF Record
  <2>4. CASE Settle(j)
    <3>1. /\ Requeued(job[j], MaxDeliveries) \in Message(JobStates)
          /\ [job[j] EXCEPT !.st = "acked"] \in Message(JobStates)
      BY <1>n, <1>s, Messages DEF Message
    <3>2. job' \in [Jobs -> Message(JobStates)]
      BY <2>4, <1>n, <3>1 DEF Settle
    <3> QED BY <2>4, <1>n, <1>t, <3>2 DEF Settle
  <2> QED BY <1>6, <2>1, <2>2, <2>3, <2>4 DEF ProcessMessage
<1>7. ASSUME NEW j \in Jobs, CrashJob(j)
      PROVE  TypeOK'
  <2>1. Requeued(job[j], MaxDeliveries) \in Message(JobStates)
    BY <1>n, <1>s, Messages
  <2>2. job' \in [Jobs -> Message(JobStates)]
    BY <1>7, <1>n, <2>1 DEF CrashJob
  <2> QED BY <1>7, <1>n, <1>t, <2>2 DEF CrashJob, Answers
<1>8. CASE UNCHANGED vars
  BY <1>8, <1>n, <1>t DEF vars
<1> QED BY <1>1, <1>2, <1>3, <1>4, <1>5, <1>6, <1>7, <1>8 DEF Next, User

\* Every variable of the delivery pipeline keeps its type.
THEOREM Typing == Spec => []TypeOK
<1>1. Init => TypeOK
  BY DEF Init, TypeOK, Health, Answers
<1>2. TypeOK /\ [Next]_vars => TypeOK'
  BY TypeStep
<1> QED BY <1>1, <1>2, PTL DEF Spec
-----------------------------------------------------------------------------
(* The health of webhook channels *)

\* A login concerns email channels only, and every recorded outcome decides
\* anew whether the channel is disabled.
LEMMA HealthStep ==
    ASSUME TypeOK, DisabledByFailuresOnly, [Next]_vars
    PROVE  DisabledByFailuresOnly'
<1> USE DEF DisabledByFailuresOnly
<1>0. ~(0 >= MaxFailures)
  BY LimitsAssumption
<1>1. CASE UNCHANGED health
  BY <1>1
<1>2. ASSUME NEW addresses \in SUBSET Emails, SyncUserProfileInfo(addresses)
      PROVE  DisabledByFailuresOnly'
  <2>1. \A c \in Webhooks : health'[c] = health[c]
    BY <1>2, ChannelsAssumption DEF SyncUserProfileInfo, Channels, TypeOK
  <2> QED BY <2>1
<1>3. ASSUME NEW c \in Channels,
             CreateNotificationChannel(c) \/ DeleteNotificationChannel(c)
      PROVE  DisabledByFailuresOnly'
  <2>1. /\ \A d \in Channels \ {c} : health'[d] = health[d]
        /\ health'[c].disabled = FALSE /\ health'[c].failures = 0
    BY <1>3 DEF CreateNotificationChannel, DeleteNotificationChannel, TypeOK
  <2> QED BY <1>0, <2>1 DEF Channels
<1>4. ASSUME NEW j \in Jobs, Record(j)
      PROVE  DisabledByFailuresOnly'
  <2> DEFINE c == ChannelOf(j)
  <2>1. c \in Channels /\ health[c] \in Health
    BY DEF Jobs, ChannelOf, TypeOK
  <2>2. \/ UNCHANGED health
        \/ health' = [health EXCEPT ![c] = Recorded(health[c], answer[j])]
    BY <1>4 DEF Record
  <2>3. CASE health' = [health EXCEPT ![c] = Recorded(health[c], answer[j])]
    <3>1. /\ \A d \in Channels \ {c} : health'[d] = health[d]
          /\ health'[c].disabled <=> health'[c].failures >= MaxFailures
      BY <2>1, <2>3, RecordedHealth DEF TypeOK
    <3> QED BY <3>1 DEF Channels
  <2> QED BY <1>1, <2>2, <2>3
<1> QED BY <1>1, <1>2, <1>3, <1>4 DEF Next, User, ProcessEvent, ProcessMessage,
       vars, CreateSavedSearchSubscription, DeleteSavedSearchSubscription,
       Announce, FanOut, FindSubscribersFails, PublishJob, PublishJobFails,
       FinishFanOut, CrashFanOut, Receive, RenderFails, SendEmail, SendWebhook,
       Answered,
       Settle, CrashJob

\* A webhook channel is disabled exactly at the limit of its failures.
THEOREM DisabledByFailuresOnlyHolds == Spec => []DisabledByFailuresOnly
<1>1. Init => DisabledByFailuresOnly
  BY LimitsAssumption DEF Init, DisabledByFailuresOnly, Channels
<1>2. TypeOK /\ DisabledByFailuresOnly /\ [Next]_vars => DisabledByFailuresOnly'
  BY HealthStep
<1> QED BY <1>1, <1>2, Typing, PTL DEF Spec
-----------------------------------------------------------------------------
(* Mails and settled jobs *)

\* The mail service and the inboxes agree.
MailInv ==
    \A j \in Jobs : ChannelOf(j) \in Emails =>
        /\ inbox[j] <= 1
        /\ inbox[j] = 1 <=> j \in accepted

\* What a worker knows of its job when it settles it.
HandledInv ==
    \A j \in Jobs :
        /\ job[j].st \in {"record", "settle", "acked"} => answer[j] # "none"
        /\ job[j].st = "acked" => answer[j] # "transient"
        /\ answer[j] \in {"delivered", "duplicate"} => inbox[j] > 0

\* Where a job can go, and what goes with it, in one step.
LEMMA JobStep ==
    ASSUME TypeOK, MailInv, HandledInv, [Next]_vars
    PROVE  MailInv' /\ HandledInv'
<1>1. CASE UNCHANGED <<answer, inbox, accepted>>
           /\ \A k \in Jobs :
                  job'[k].st = job[k].st \/ job'[k].st \in {"unsent", "pending", "dead"}
  BY <1>1 DEF MailInv, HandledInv
<1>2. ASSUME NEW e \in Events, NEW c \in Channels, PublishJob(e, c)
      PROVE  MailInv' /\ HandledInv'
  <2>1. \A k \in Jobs : job'[k].st = job[k].st \/ job'[k].st = "pending"
    BY <1>2 DEF PublishJob, TypeOK
  <2> QED BY <1>1, <1>2, <2>1 DEF PublishJob
<1>3. ASSUME NEW j \in Jobs, Receive(j) \/ CrashJob(j)
      PROVE  MailInv' /\ HandledInv'
  <2>1. Requeued(job[j], MaxDeliveries).st \in {"pending", "dead"}
    BY DEF TypeOK, Requeued
  <2>2. /\ job'[j].st \in {"send", "pending", "dead"}
        /\ answer'[j] = "none"
        /\ \A k \in Jobs \ {j} : job'[k] = job[k] /\ answer'[k] = answer[k]
        /\ UNCHANGED <<inbox, accepted>>
    BY <1>3, <2>1 DEF Receive, CrashJob, TypeOK
  <2> QED BY <2>2 DEF MailInv, HandledInv
<1>4. ASSUME NEW j \in Jobs, NEW a \in Answers \ {"none"}, Answered(j, a)
      PROVE  /\ job'[j].st = "record" /\ answer'[j] = a
             /\ \A k \in Jobs \ {j} : job'[k] = job[k] /\ answer'[k] = answer[k]
  BY <1>4 DEF Answered, TypeOK
<1>5. ASSUME NEW j \in Jobs, SendEmail(j)
      PROVE  MailInv' /\ HandledInv'
  <2>1. ChannelOf(j) \in Emails /\ inbox[j] \in Nat /\ inbox \in [Jobs -> Nat]
    BY <1>5 DEF SendEmail, TypeOK
  <2>2. CASE /\ j \notin accepted
             /\ Delivered(j)
             /\ accepted' = accepted \cup {j}
             /\ \E a \in {"delivered", "transient"} : Answered(j, a)
    <3>1. PICK a \in {"delivered", "transient"} : Answered(j, a)
      BY <2>2
    <3>2. inbox'[j] = 1 /\ \A k \in Jobs \ {j} : inbox'[k] = inbox[k]
      BY <2>1, <2>2 DEF Delivered, MailInv
    <3> QED BY <1>4, <2>1, <2>2, <3>1, <3>2 DEF MailInv, HandledInv, Answers
  <2>3. CASE /\ j \in accepted
             /\ \E a \in {"duplicate", "system", "transient"} : Answered(j, a)
             /\ UNCHANGED <<accepted, inbox>>
    <3>1. PICK a \in {"duplicate", "system", "transient"} : Answered(j, a)
      BY <2>3
    <3>2. inbox[j] = 1
      BY <2>1, <2>3 DEF MailInv
    <3> QED BY <1>4, <2>3, <3>1, <3>2 DEF MailInv, HandledInv, Answers
  <2>4. CASE /\ j \notin accepted
             /\ \E a \in {"permanent", "system", "transient"} : Answered(j, a)
             /\ UNCHANGED <<accepted, inbox>>
    <3>1. PICK a \in {"permanent", "system", "transient"} : Answered(j, a)
      BY <2>4
    <3> QED BY <1>4, <2>4, <3>1 DEF MailInv, HandledInv, Answers
  <2> QED BY <1>5, <2>2, <2>3, <2>4 DEF SendEmail
<1>6. ASSUME NEW j \in Jobs, SendWebhook(j)
      PROVE  MailInv' /\ HandledInv'
  <2>1. ChannelOf(j) \notin Emails /\ accepted' = accepted
    BY <1>6, ChannelsAssumption DEF SendWebhook
  <2>2. PICK a \in {"delivered", "permanent", "transient"} : Answered(j, a)
    BY <1>6 DEF SendWebhook
  <2>3. /\ a = "delivered" => inbox'[j] > 0
        /\ \A k \in Jobs \ {j} : inbox'[k] = inbox[k]
    <3>1. CASE Delivered(j)
      BY <3>1 DEF Delivered, TypeOK
    <3>2. CASE UNCHANGED inbox
               /\ \E b \in {"permanent", "transient"} : Answered(j, b)
      <4>1. a # "delivered"
        BY <1>4, <2>2, <3>2 DEF Answers
      <4> QED BY <3>2, <4>1
    <3> QED BY <1>6, <3>1, <3>2 DEF SendWebhook
  <2>4. /\ job'[j].st = "record" /\ answer'[j] = a
        /\ \A k \in Jobs \ {j} : job'[k] = job[k] /\ answer'[k] = answer[k]
    BY <1>4, <2>2 DEF Answers
  <2> QED BY <2>1, <2>3, <2>4 DEF MailInv, HandledInv
<1>7. ASSUME NEW j \in Jobs, Record(j) \/ Settle(j)
      PROVE  MailInv' /\ HandledInv'
  <2>1. UNCHANGED <<answer, inbox, accepted>>
    BY <1>7 DEF Record, Settle
  <2>2. \A k \in Jobs \ {j} : job'[k] = job[k]
    BY <1>7 DEF Record, Settle, TypeOK
  <2>3. answer[j] # "none"
    BY <1>7 DEF Record, Settle, HandledInv
  <2>4. Requeued(job[j], MaxDeliveries).st \in {"pending", "dead"}
    BY DEF TypeOK, Requeued
  <2>5. job'[j].st = "acked" => answer[j] # "transient"
    BY <1>7, <2>4 DEF Record, Settle, TypeOK
  <2> QED BY <2>1, <2>2, <2>3, <2>5 DEF MailInv, HandledInv
<1>8. ASSUME NEW j \in Jobs, RenderFails(j)
      PROVE  MailInv' /\ HandledInv'
  <2>1. Answered(j, "unrendered") /\ UNCHANGED <<accepted, inbox>>
    BY <1>8 DEF RenderFails
  <2>2. /\ job'[j].st = "record" /\ answer'[j] = "unrendered"
        /\ \A k \in Jobs \ {j} : job'[k] = job[k] /\ answer'[k] = answer[k]
    BY <1>4, <2>1 DEF Answers
  <2> QED BY <2>1, <2>2 DEF MailInv, HandledInv
<1> QED BY <1>1, <1>2, <1>3, <1>5, <1>6, <1>7, <1>8 DEF Next, User, ProcessEvent,
       ProcessMessage, vars, SyncUserProfileInfo, CreateNotificationChannel,
       DeleteNotificationChannel, CreateSavedSearchSubscription,
       DeleteSavedSearchSubscription, Announce, FanOut, FindSubscribersFails,
       PublishJobFails, FinishFanOut, CrashFanOut

\* The two invariants together.
LEMMA Handling == Spec => [](MailInv /\ HandledInv)
<1>1. Init => MailInv /\ HandledInv
  BY DEF Init, MailInv, HandledInv
<1>2. TypeOK /\ MailInv /\ HandledInv /\ [Next]_vars => (MailInv /\ HandledInv)'
  BY JobStep
<1> QED BY <1>1, <1>2, Typing, PTL DEF Spec

\* No job mails its address twice, however often it is delivered.
THEOREM EmailSentOnceHolds == Spec => []EmailSentOnce
<1>1. MailInv => EmailSentOnce
  BY DEF MailInv, EmailSentOnce
<1> QED BY <1>1, Handling, PTL

\* A job that left its queue arrived or failed for good: a lost answer does not
\* settle it, and a duplicate does only because the first mail arrived.
THEOREM AckedJobsAreHandledHolds == Spec => []AckedJobsAreHandled
<1>1. TypeOK /\ HandledInv => AckedJobsAreHandled
  BY DEF TypeOK, Answers, HandledInv, AckedJobsAreHandled
<1> QED BY <1>1, Typing, Handling, PTL
-----------------------------------------------------------------------------
(* The completeness of a fan-out *)

\* While a fan-out runs, every channel it owes a job has one or is still to be
\* served; the delivery it belongs to is one of those that jobs are named after.
FanOutInv ==
    \A e \in Events :
        /\ note[e].st \in {"unsent", "pending"} => note[e].tries < MaxFanOuts
        /\ note[e].st = "fanout" => note[e].tries \in 1 .. MaxFanOuts
        /\ note[e].st = "fanout" =>
               \A c \in due[e] \ todo[e] : job[<<e, c, note[e].tries>>].st # "unsent"

\* Nothing unpublishes a job.
LEMMA JobsStayPublished ==
    ASSUME TypeOK, [Next]_vars
    PROVE  \A k \in Jobs : job[k].st # "unsent" => job'[k].st # "unsent"
<1>1. CASE UNCHANGED job
  BY <1>1
<1>2. ASSUME NEW e \in Events, NEW c \in Channels, PublishJob(e, c)
      PROVE  \A k \in Jobs : job[k].st # "unsent" => job'[k].st # "unsent"
  BY <1>2 DEF PublishJob, TypeOK
<1>3. ASSUME NEW j \in Jobs, Receive(j) \/ CrashJob(j) \/ Record(j) \/ Settle(j)
      PROVE  \A k \in Jobs : job[k].st # "unsent" => job'[k].st # "unsent"
  <2>1. Requeued(job[j], MaxDeliveries).st \in {"pending", "dead"}
    BY DEF TypeOK, Requeued
  <2>2. job'[j].st # "unsent" /\ \A k \in Jobs \ {j} : job'[k] = job[k]
    BY <1>3, <2>1 DEF Receive, CrashJob, Record, Settle, TypeOK
  <2> QED BY <2>2
<1>4. ASSUME NEW j \in Jobs, RenderFails(j) \/ SendEmail(j) \/ SendWebhook(j)
      PROVE  \A k \in Jobs : job[k].st # "unsent" => job'[k].st # "unsent"
  <2>1. \E a : Answered(j, a)
    BY <1>4 DEF RenderFails, SendEmail, SendWebhook
  <2> QED BY <2>1 DEF Answered, TypeOK
<1> QED BY <1>1, <1>2, <1>3, <1>4 DEF Next, User, ProcessEvent,
       ProcessMessage, vars, SyncUserProfileInfo, CreateNotificationChannel,
       DeleteNotificationChannel, CreateSavedSearchSubscription,
       DeleteSavedSearchSubscription, Announce, FanOut, FindSubscribersFails,
       PublishJobFails, FinishFanOut, CrashFanOut

\* A job that a delivery of the notification names is a job.
LEMMA JobNames ==
    ASSUME TypeOK, NEW e \in Events, NEW c \in due[e], NEW n \in 1 .. MaxFanOuts
    PROVE  <<e, c, n>> \in Jobs
BY DEF TypeOK, Jobs

\* Every step keeps the fan-out on its way to completeness.
LEMMA FanOutStep ==
    ASSUME TypeOK, FanOutInv, FanOutIsComplete, [Next]_vars
    PROVE  FanOutInv' /\ FanOutIsComplete'
<1>k. \A k \in Jobs : job[k].st # "unsent" => job'[k].st # "unsent"
  BY JobsStayPublished
<1>c. ASSUME NEW e \in Events,
             /\ note'[e].st \in {"unsent", "pending"} => note'[e].tries < MaxFanOuts
             /\ note'[e].st = "fanout" => note'[e].tries \in 1 .. MaxFanOuts
             /\ note'[e].st = "fanout" => \A c \in due'[e] \ todo'[e] :
                    job'[<<e, c, note'[e].tries>>].st # "unsent"
             /\ note'[e].st = "acked" => \A c \in due'[e] :
                    \E n \in 1 .. MaxFanOuts : job'[<<e, c, n>>].st # "unsent",
             \A f \in Events \ {e} :
                 note'[f] = note[f] /\ todo'[f] = todo[f] /\ due'[f] = due[f]
      PROVE  FanOutInv' /\ FanOutIsComplete'
  <2>1. ASSUME NEW f \in Events \ {e}, note[f].st = "fanout",
               NEW c \in due[f] \ todo[f]
        PROVE  job'[<<f, c, note[f].tries>>].st # "unsent"
    <3>1. note[f].tries \in 1 .. MaxFanOuts
      BY <2>1 DEF FanOutInv
    <3> QED BY <1>k, <2>1, <3>1, JobNames DEF FanOutInv
  <2>2. ASSUME NEW f \in Events \ {e}, note[f].st = "acked", NEW c \in due[f]
        PROVE  \E n \in 1 .. MaxFanOuts : job'[<<f, c, n>>].st # "unsent"
    <3>1. PICK n \in 1 .. MaxFanOuts : job[<<f, c, n>>].st # "unsent"
      BY <2>2 DEF FanOutIsComplete
    <3> QED BY <1>k, <3>1, JobNames
  <2>3. FanOutInv'
    BY <1>c, <2>1 DEF FanOutInv
  <2>4. FanOutIsComplete'
    BY <1>c, <2>2 DEF FanOutIsComplete
  <2> QED BY <2>3, <2>4
<1>1. CASE UNCHANGED <<note, todo, due>>
  <2>1. ASSUME NEW e \in Events, note[e].st = "fanout", NEW c \in due[e] \ todo[e]
        PROVE  job'[<<e, c, note[e].tries>>].st # "unsent"
    <3>1. note[e].tries \in 1 .. MaxFanOuts
      BY <2>1 DEF FanOutInv
    <3> QED BY <1>k, <2>1, <3>1, JobNames DEF FanOutInv
  <2>2. ASSUME NEW e \in Events, note[e].st = "acked", NEW c \in due[e]
        PROVE  \E n \in 1 .. MaxFanOuts : job'[<<e, c, n>>].st # "unsent"
    <3>1. PICK n \in 1 .. MaxFanOuts : job[<<e, c, n>>].st # "unsent"
      BY <2>2 DEF FanOutIsComplete
    <3> QED BY <1>k, <3>1, JobNames
  <2> QED BY <1>1, <2>1, <2>2 DEF FanOutInv, FanOutIsComplete
<1>2. ASSUME NEW e \in Events, Announce(e)
      PROVE  FanOutInv' /\ FanOutIsComplete'
  BY <1>2, <1>c DEF Announce, FanOutInv, TypeOK
<1>3. ASSUME NEW e \in Events, FanOut(e)
      PROVE  FanOutInv' /\ FanOutIsComplete'
  <2>1. note[e].tries \in Nat /\ note[e].tries < MaxFanOuts
    BY <1>3 DEF FanOut, FanOutInv, TypeOK
  <2>2. note'[e].st = "fanout" /\ note'[e].tries \in 1 .. MaxFanOuts
    BY <1>3, <2>1, LimitsAssumption DEF FanOut, TypeOK
  <2> QED BY <1>3, <1>c, <2>2 DEF FanOut, TypeOK
<1>4. ASSUME NEW e \in Events, NEW c \in Channels, PublishJob(e, c)
      PROVE  FanOutInv' /\ FanOutIsComplete'
  <2>1. note[e].st = "fanout" /\ note[e].tries \in 1 .. MaxFanOuts
    BY <1>4 DEF PublishJob, FanOutInv
  <2>2. job'[<<e, c, note[e].tries>>].st = "pending"
    <3>1. <<e, c, note[e].tries>> \in Jobs
      BY <2>1 DEF Jobs
    <3> QED BY <1>4, <3>1 DEF PublishJob, TypeOK
  <2>3. ASSUME NEW d \in due[e] \ todo'[e]
        PROVE  job'[<<e, d, note[e].tries>>].st # "unsent"
    <3>1. d = c \/ d \in due[e] \ todo[e]
      BY <1>4 DEF PublishJob, TypeOK
    <3>2. <<e, d, note[e].tries>> \in Jobs
      BY <2>1, JobNames
    <3> QED BY <1>k, <2>1, <2>2, <3>1, <3>2 DEF FanOutInv
  <2>4. /\ UNCHANGED <<note, due>>
        /\ \A f \in Events \ {e} : todo'[f] = todo[f]
    BY <1>4 DEF PublishJob, TypeOK
  <2> QED BY <1>c, <2>1, <2>3, <2>4
<1>5. ASSUME NEW e \in Events, FinishFanOut(e)
      PROVE  FanOutInv' /\ FanOutIsComplete'
  <2>1. \A c \in due[e] : job[<<e, c, note[e].tries>>].st # "unsent"
    BY <1>5 DEF FinishFanOut, FanOutInv
  <2>2. note[e].tries \in 1 .. MaxFanOuts
    BY <1>5 DEF FinishFanOut, FanOutInv
  <2> QED BY <1>5, <1>c, <2>1, <2>2 DEF FinishFanOut, TypeOK
<1>6. ASSUME NEW e \in Events, CrashFanOut(e)
      PROVE  FanOutInv' /\ FanOutIsComplete'
  <2>1. note[e].tries \in Nat /\ MaxFanOuts \in Nat
    BY LimitsAssumption DEF TypeOK
  <2>2. /\ Requeued(note[e], MaxFanOuts).st \in {"pending", "dead"}
        /\ Requeued(note[e], MaxFanOuts).tries = note[e].tries
        /\ Requeued(note[e], MaxFanOuts).st = "pending"
               => ~(note[e].tries >= MaxFanOuts)
    BY DEF TypeOK, Requeued
  <2>3. note' = [note EXCEPT ![e] = Requeued(note[e], MaxFanOuts)]
    BY <1>6 DEF CrashFanOut
  <2>4. /\ note'[e].st \in {"pending", "dead"}
        /\ note'[e].st = "pending" => note'[e].tries < MaxFanOuts
    BY <2>1, <2>2, <2>3 DEF TypeOK
  <2> QED BY <1>6, <1>c, <2>4 DEF CrashFanOut, TypeOK
<1>7. ASSUME NEW e \in Events, FindSubscribersFails(e)
      PROVE  FanOutInv' /\ FanOutIsComplete'
  BY <1>7, <1>c DEF FindSubscribersFails, TypeOK
<1>8. ASSUME NEW e \in Events, NEW c \in Channels, PublishJobFails(e, c)
      PROVE  FanOutInv' /\ FanOutIsComplete'
  <2>1. note[e].st = "fanout" /\ note[e].tries \in 1 .. MaxFanOuts
    BY <1>8 DEF PublishJobFails, FanOutInv
  <2>2. ASSUME NEW d \in due'[e] \ todo'[e]
        PROVE  job'[<<e, d, note[e].tries>>].st # "unsent"
    BY <1>8, <2>1, <2>2 DEF PublishJobFails, FanOutInv, TypeOK
  <2> QED BY <1>8, <1>c, <2>1, <2>2 DEF PublishJobFails, TypeOK
<1> QED BY <1>1, <1>2, <1>3, <1>4, <1>5, <1>6, <1>7, <1>8 DEF Next, User,
       ProcessEvent, ProcessMessage, vars, SyncUserProfileInfo,
       CreateNotificationChannel, DeleteNotificationChannel,
       CreateSavedSearchSubscription, DeleteSavedSearchSubscription,
       Receive, RenderFails, SendEmail, SendWebhook, Answered, Record, Settle,
       CrashJob

\* No event is acknowledged before every subscriber the dispatcher found has a
\* job or was counted as one whose job could not be published, whatever crashes
\* in between.
THEOREM FanOutIsCompleteHolds == Spec => []FanOutIsComplete
<1>1. Init => FanOutInv /\ FanOutIsComplete
  BY LimitsAssumption DEF Init, FanOutInv, FanOutIsComplete
<1>2. TypeOK /\ FanOutInv /\ FanOutIsComplete /\ [Next]_vars
          => (FanOutInv /\ FanOutIsComplete)'
  BY FanOutStep
<1> QED BY <1>1, <1>2, Typing, PTL DEF Spec
=============================================================================
