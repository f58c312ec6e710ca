---------------------------- MODULE Subscriptions ----------------------------
(***************************************************************************)
(* The notification channels of the users and their subscriptions: who is  *)
(* told, through which channel, of the changes of which saved search.      *)
(*                                                                         *)
(* Requests that answer with the row they wrote do so in a read of its     *)
(* own, after their transaction.  Spanner may abort an attempt of a        *)
(* transaction, whose function then runs again.                            *)
(*                                                                         *)
(* Whether a channel is disabled and what is sent through it is the        *)
(* subject of Delivery.                                                    *)
(***************************************************************************)
EXTENDS SavedSearches

CONSTANTS
    ChannelIds,        \* identifiers (UUIDs) of channels
    SubscriptionIds,   \* identifiers (UUIDs) of subscriptions
    Options,           \* frequency and set of triggers of a subscription
    Targets,           \* the searches users subscribe to
    Addresses,         \* verified addresses of GitHub profiles
    MaxChannels,       \* maxChannelsPerUser
    MaxSubscriptions,  \* maxSubscriptionsPerUser
    Aborts             \* may Spanner abort an attempt?

ASSUME ChannelsAssumption ==
    /\ None \notin ChannelIds \cup SubscriptionIds \cup Options \cup Addresses
    /\ Targets \subseteq Ids /\ IsFiniteSet(Addresses)
    /\ MaxChannels \in Nat /\ MaxSubscriptions \in Nat /\ Aborts \in BOOLEAN

VARIABLES
    channels,   \* NotificationChannels: identifier -> owner, type, address
    subs,       \* SavedSearchSubscriptions: identifier -> channel, search, options
    call        \* the request of each session about a channel or a subscription

subscribers == <<channels, subs, call>>
allVars == <<vars, subscribers>>

Types == {"email", "webhook", "rss"}
Channel == [owner : Users, type : Types, address : Addresses \cup {None}]
Subscription == [channel : ChannelIds, search : Ids, options : Options]

NoCall == [at |-> "idle", user |-> None, id |-> None, channel |-> None,
           search |-> None, options |-> None, type |-> None, aborted |-> FALSE]

\* channel is None in a request for the RSS channel, whichever it is.
Calls == [at : {"idle", "subscribe", "subscribed", "resubscribed",
                "update", "created", "updated"},
          user : Users \cup {None}, id : SubscriptionIds \cup {None},
          channel : ChannelIds \cup {None}, search : Ids \cup {None},
          options : Options \cup {None}, type : {"webhook", "rss", None},
          aborted : BOOLEAN]

SubscribersTypeOK ==
    /\ TypeOK
    /\ DOMAIN channels \subseteq ChannelIds
    /\ \A c \in DOMAIN channels : channels[c] \in Channel
    /\ DOMAIN subs \subseteq SubscriptionIds
    /\ \A d \in DOMAIN subs : subs[d] \in Subscription
    /\ call \in [Sessions -> Calls]

SubscribersInit ==
    /\ Init
    /\ channels = [c \in {} |-> None]
    /\ subs = [d \in {} |-> None]
    /\ call = [s \in Sessions |-> NoCall]

Free(s) == req[s].at = "idle" /\ call[s].at = "idle"

Begin(s, c) == call' = [call EXCEPT ![s] = c]

Finish(s, code) ==
    /\ call' = [call EXCEPT ![s] = NoCall]
    /\ Reply(call[s].user, code)

\* A table with a row for key x, which is v unless there is one.
With(f, x, v) == [y \in DOMAIN f \cup {x} |-> IF y \in DOMAIN f THEN f[y] ELSE v]
-----------------------------------------------------------------------------
(* Channels *)

ChannelsOf(u) == {c \in DOMAIN channels : channels[c].owner = u}

\* The RSS channel is the system's: a user's requests do not find it.
Visible(u) == {c \in ChannelsOf(u) : channels[c].type # "rss"}

NewChannels == {c \in ChannelIds \ DOMAIN channels :
                   \A s \in Sessions : call[s].channel # c}

NewChannel(u, type, address) ==
    [owner |-> u, type |-> type, address |-> address]

\* A new or updated channel that is no valid webhook is refused.
InvalidChannel(s, u) ==
    /\ Free(s)
    /\ Reply(u, 400)
    /\ UNCHANGED <<store, req, subscribers>>

\* The limit counts the user's addresses too.
ChannelCount(u) == Cardinality(Visible(u))

\* POST, of a webhook.
CreateNotificationChannel(s, u) ==
    /\ Free(s)
    /\ \/ /\ ChannelCount(u) >= MaxChannels
          /\ Reply(u, CreateChannelStatus(CreateChannelError("limit")))
          /\ UNCHANGED <<channels, call>>
       \/ /\ ChannelCount(u) < MaxChannels
          /\ \E c \in NewChannels :
                /\ channels' = With(channels, c, NewChannel(u, "webhook", None))
                /\ Begin(s, [NoCall EXCEPT !.at = "created", !.user = u, !.channel = c])
          /\ UNCHANGED reply
    /\ UNCHANGED <<store, req, subs>>

ChannelError(u, c) == IF c \in Visible(u) THEN "none" ELSE "no channel"

\* What a channel can be updated to: the type RSS is not refused.  None when
\* the configuration is not to be updated.
UpdateTypes == {"webhook", "rss", None}

\* PATCH: the channel is read first, for its type.
UpdateNotificationChannel(s, u, c, type) ==
    /\ Free(s)
    /\ \/ /\ c \notin Visible(u)
          /\ Reply(u, UpdateChannelStatus(GetChannelError(ChannelError(u, c))))
          /\ UNCHANGED call
       \/ /\ c \in Visible(u)
          /\ channels[c].type = "email"
          /\ Reply(u, UpdateChannelStatus("not authorized"))
          /\ UNCHANGED call
       \/ /\ c \in Visible(u)
          /\ channels[c].type # "email"
          /\ Begin(s, [NoCall EXCEPT !.at = "update", !.user = u, !.channel = c,
                                    !.type = type])
          /\ UNCHANGED reply
    /\ UNCHANGED <<store, req, channels, subs>>

RSSChannels(u) == {c \in ChannelsOf(u) : channels[c].type = "rss"}

\* Variant: without the unique index on the RSS channels of a user.
UpdateErrorUnindexed(u, c, type) == ChannelError(u, c)

\* A unique index admits one RSS channel per user.
UpdateError(u, c, type) ==
    IF type = "rss" /\ c \in Visible(u) /\ RSSChannels(u) # {}
      THEN "other" ELSE ChannelError(u, c)

Merged(c, type) ==
    IF type = None THEN channels ELSE [channels EXCEPT ![c].type = type]

\* The transaction of the update.
UpdateChannel(s) ==
    LET c == call[s].channel
        error == UpdateError(call[s].user, c, call[s].type)
    IN /\ call[s].at = "update"
       /\ \/ /\ error # "none"
             /\ Finish(s, UpdateChannelStatus(UpdateChannelError(error)))
             /\ UNCHANGED channels
          \/ /\ error = "none"
             /\ channels' = Merged(c, call[s].type)
             /\ call' = [call EXCEPT ![s].at = "updated"]
             /\ UNCHANGED reply
       /\ UNCHANGED <<store, req, subs>>

\* The row is read again to answer with it; it may be gone or hidden.
GetNotificationChannel(s) ==
    LET error == GetChannelError(ChannelError(call[s].user, call[s].channel)) IN
    /\ call[s].at \in {"created", "updated"}
    /\ Finish(s, IF call[s].at = "created" THEN CreateChannelStatus(error)
                 ELSE UpdateChannelStatus(error))
    /\ UNCHANGED <<store, req, channels, subs>>

Dropping(f, S) == [x \in DOMAIN f \ S |-> f[x]]

\* The channel's subscriptions are deleted with it.
DeleteNotificationChannel(s, u, c) ==
    /\ Free(s)
    /\ \/ c \notin Visible(u) /\ UNCHANGED <<channels, subs>>
       \/ /\ c \in Visible(u)
          /\ channels' = Dropping(channels, {c})
          /\ subs' = Dropping(subs, {d \in DOMAIN subs : subs[d].channel = c})
    /\ Reply(u, DeleteChannelStatus(DeleteChannelError(ChannelError(u, c))))
    /\ UNCHANGED <<store, req, call>>

Known(u) == {channels[c].address : c \in ChannelsOf(u)} \ {None}

\* POST /v1/users/me/ping: GitHub may fail, the token may be another user's, or
\* every verified address without a channel gets one, whatever the limit.
PingUser(s, u, addresses) ==
    LET new == addresses \ Known(u)
    IN /\ Free(s)
       /\ \/ \E code \in {403, 500} : Reply(u, code) /\ UNCHANGED channels
          \/ \E id \in [new -> NewChannels] :
                /\ \A a, b \in new : id[a] = id[b] => a = b
                /\ channels' = [c \in DOMAIN channels \cup {id[a] : a \in new} |->
                      IF c \in DOMAIN channels THEN channels[c]
                      ELSE NewChannel(u, "email", CHOOSE a \in new : id[a] = c)]
                /\ Reply(u, 204)
       /\ UNCHANGED <<store, req, subs, call>>
-----------------------------------------------------------------------------
(* Subscriptions *)

SubscriptionsOf(u) == {d \in DOMAIN subs : channels[subs[d].channel].owner = u}

\* The role error does not tell a missing subscription from another user's.
SubscriptionError(u, d) == IF d \in SubscriptionsOf(u) THEN "none" ELSE "role"

\* Unknown options, no search, or not exactly one of a channel and a type.
InvalidSubscription(s, u) ==
    /\ Free(s)
    /\ Reply(u, 400)
    /\ UNCHANGED <<store, req, subscribers>>

\* POST: a channel, or the type RSS for the user's RSS channel (c is None).
CreateSubscription(s, u, c, i, o) ==
    /\ Free(s)
    /\ Begin(s, [NoCall EXCEPT !.at = "subscribe", !.user = u, !.channel = c,
                              !.search = i, !.options = o])
    /\ UNCHANGED <<store, req, reply, channels, subs>>

\* Variant: a new RSS channel is not given an identifier.
FindOrMakeRSSChannel(u) ==
    IF RSSChannels(u) # {} THEN RSSChannels(u) ELSE {None}

\* The user's RSS channel, or the identifier of one made by this transaction.
FindOrCreateRSSChannel(u) ==
    IF RSSChannels(u) # {} THEN RSSChannels(u) ELSE NewChannels

\* An attempt is aborted.  The identifier it resolved stays in the request, be
\* it of a channel that was rolled back with the attempt.
SubscribeAborts(s) ==
    /\ Aborts
    /\ call[s].at = "subscribe"
    /\ call[s].channel = None
    /\ \E c \in FindOrCreateRSSChannel(call[s].user) :
          call' = [call EXCEPT ![s].channel = c, ![s].aborted = TRUE]
    /\ UNCHANGED <<store, req, reply, channels, subs>>

Refuse(s, error) ==
    /\ Finish(s, CreateSubscriptionStatus(CreateSubscriptionError(error)))
    /\ UNCHANGED <<channels, subs>>

\* Variant: a channel that this transaction makes is not found by it.
SubscribeThroughKnown(s, c) ==
    /\ c \notin ChannelsOf(call[s].user)
    /\ Refuse(s, "no channel")

\* The transaction of a subscription to search i through channel c, by user u:
\* the subscription there is, the limit, the channel's owner, the foreign keys.
SubscribeThrough(s, c) ==
    LET u == call[s].user
        i == call[s].search
        implicit == call[s].channel = None
        existing == {d \in DOMAIN subs : subs[d].channel = c /\ subs[d].search = i}
    IN \/ /\ existing # {}
          /\ \/ \E d \in existing :
                   /\ subs[d].options = call[s].options
                   /\ call' = [call EXCEPT ![s].at = "subscribed", ![s].id = d]
                   /\ UNCHANGED reply
                   /\ UNCHANGED <<channels, subs>>
             \/ /\ \A d \in existing : subs[d].options # call[s].options
                /\ Refuse(s, "other")
       \/ /\ existing = {}
          /\ Cardinality(SubscriptionsOf(u)) >= MaxSubscriptions
          /\ Refuse(s, "limit")
       \/ /\ existing = {}
          /\ Cardinality(SubscriptionsOf(u)) < MaxSubscriptions
          /\ ~implicit /\ c \notin ChannelsOf(u)
          /\ Refuse(s, "no channel")
       \/ /\ existing = {}
          /\ Cardinality(SubscriptionsOf(u)) < MaxSubscriptions
          /\ implicit \/ c \in ChannelsOf(u)
          /\ i \notin Stored
          /\ Refuse(s, "other")
       \/ /\ existing = {}
          /\ Cardinality(SubscriptionsOf(u)) < MaxSubscriptions
          /\ implicit \/ c \in ChannelsOf(u)
          /\ i \in Stored
          /\ \E d \in SubscriptionIds \ DOMAIN subs :
                /\ subs' = With(subs, d, [channel |-> c, search |-> i,
                                          options |-> call[s].options])
                /\ call' = [call EXCEPT ![s].at = "subscribed", ![s].id = d]
          /\ channels' = With(channels, c, NewChannel(u, "rss", None))
          /\ UNCHANGED reply

CreateSavedSearchSubscription(s) ==
    /\ call[s].at = "subscribe"
    /\ \E c \in IF call[s].channel = None
                  THEN FindOrCreateRSSChannel(call[s].user) ELSE {call[s].channel} :
          SubscribeThrough(s, c)
    /\ UNCHANGED <<store, req>>

\* PATCH: the transaction.
UpdateSubscription(s, u, d, o) ==
    /\ Free(s)
    /\ \/ /\ SubscriptionError(u, d) # "none"
          /\ Reply(u, UpdateSubscriptionStatus(
                         UpdateSubscriptionError(SubscriptionError(u, d))))
          /\ UNCHANGED <<subs, call>>
       \/ /\ d \in SubscriptionsOf(u)
          /\ subs' = [subs EXCEPT ![d].options = o]
          /\ Begin(s, [NoCall EXCEPT !.at = "resubscribed", !.user = u, !.id = d])
          /\ UNCHANGED reply
    /\ UNCHANGED <<store, req, channels>>

\* The row is read again to answer with it; its errors are not translated.
GetSavedSearchSubscription(s) ==
    LET error == SubscriptionError(call[s].user, call[s].id) IN
    /\ call[s].at \in {"subscribed", "resubscribed"}
    /\ Finish(s, IF call[s].at = "subscribed" THEN CreateSubscriptionStatus(error)
                 ELSE UpdateSubscriptionStatus(error))
    /\ UNCHANGED <<store, req, channels, subs>>

DeleteSubscription(s, u, d) ==
    /\ Free(s)
    /\ \/ SubscriptionError(u, d) # "none" /\ UNCHANGED subs
       \/ SubscriptionError(u, d) = "none" /\ subs' = Dropping(subs, {d})
    /\ Reply(u, DeleteSubscriptionStatus(
                   DeleteSubscriptionError(SubscriptionError(u, d))))
    /\ UNCHANGED <<store, req, channels, call>>
-----------------------------------------------------------------------------
\* Requests about searches; subscriptions are deleted with their search.
SearchRequests ==
    /\ SearchesNext({s \in Sessions : call[s].at = "idle"})
    /\ subs' = Dropping(subs, {d \in DOMAIN subs :
                                  subs[d].search \in DOMAIN saved \ DOMAIN saved'})
    /\ UNCHANGED <<channels, call>>

ChannelRequests(s, u) ==
    \/ InvalidChannel(s, u)
    \/ CreateNotificationChannel(s, u)
    \/ \E addresses \in SUBSET Addresses : PingUser(s, u, addresses)
    \/ \E c \in ChannelIds :
          \/ \E type \in UpdateTypes :
                UpdateNotificationChannel(s, u, c, type)
          \/ DeleteNotificationChannel(s, u, c)

SubscriptionRequests(s, u) ==
    \/ InvalidSubscription(s, u)
    \/ \E c \in ChannelIds \cup {None}, i \in Targets, o \in Options :
          CreateSubscription(s, u, c, i, o)
    \/ \E d \in SubscriptionIds :
          \/ \E o \in Options : UpdateSubscription(s, u, d, o)
          \/ DeleteSubscription(s, u, d)

SubscribersNext ==
    \/ SearchRequests
    \/ \E s \in Sessions :
          \/ \E u \in Users : ChannelRequests(s, u) \/ SubscriptionRequests(s, u)
          \/ UpdateChannel(s)
          \/ GetNotificationChannel(s)
          \/ SubscribeAborts(s)
          \/ CreateSavedSearchSubscription(s)
          \/ GetSavedSearchSubscription(s)

SubscribersSpec == SubscribersInit /\ [][SubscribersNext]_allVars
-----------------------------------------------------------------------------
(* Safety *)

\* However requests interleave, a subscription has a channel and a search, no
\* two are for the same channel and search, and a user has one RSS channel.
SubscriptionsAreSound ==
    /\ \A d \in DOMAIN subs :
          subs[d].channel \in DOMAIN channels /\ subs[d].search \in Stored
    /\ \A d, e \in DOMAIN subs :
          subs[d].channel = subs[e].channel /\ subs[d].search = subs[e].search
              => d = e
    /\ \A u \in Users : Cardinality(RSSChannels(u)) <= 1

\* No user gets past a limit by sending requests at the same time, although
\* addresses count as channels but are not limited, and a webhook may be turned
\* into the RSS channel, which does not count.
UserLimitsHold ==
    /\ LimitsHold
    /\ \A u \in Users :
        /\ Cardinality({c \in ChannelsOf(u) : channels[c].type = "webhook"})
               <= MaxChannels
        /\ Cardinality(SubscriptionsOf(u)) <= MaxSubscriptions

\* A request for the RSS channel is refused only because the limit is reached,
\* the search is gone or subscribed with other options: if no attempt was
\* aborted, the channel is found or created.
RSSChannelIsFoundOrCreated ==
    [][\A s \in Sessions :
          call[s].at = "subscribe" /\ call[s].channel = None /\ call'[s].at = "idle"
             => \/ Cardinality(SubscriptionsOf(call[s].user)) >= MaxSubscriptions
                \/ call[s].search \notin Stored
                \/ \E d \in DOMAIN subs :
                      /\ subs[d].channel \in RSSChannels(call[s].user)
                      /\ subs[d].search = call[s].search
                      /\ subs[d].options # call[s].options]_allVars
=============================================================================
