------------------------------- MODULE Report -------------------------------
(***************************************************************************)
(* What subscribers read of a run: the diff's feature by feature           *)
(* comparison, the summary made of it (GenerateJSONSummary), the choice by *)
(* triggers (FilterHighlights) and the four readers of a summary: the      *)
(* dispatcher, which asks only whether there is anything to say, the RSS   *)
(* feed, the email digest and the Slack payload.  The readers sort and     *)
(* route highlights each in a way of its own.                              *)
(*                                                                         *)
(* The module adds no state: it reads the diff that Differ has just before *)
(* the decision.  Documentation links never count as changes and are left  *)
(* out, and so are a baseline's dates.                                     *)
(***************************************************************************)
EXTENDS Differ, FiniteSets

CONSTANTS
    Details,        \* name, baseline status and browser states of each value
    Browsers,       \* the browsers whose implementations are compared
    Pairs,          \* desktop and mobile browsers told of in one line
    Releases,       \* version and date of an implementation
    MaxHighlights   \* highlights that fit into a summary

Statuses == {"limited", "newly", "widely"}

\* A browser has no entry, is unavailable or available since a release.
BrowserStates == {"unset", "unavailable"} \cup Releases

Status(s) == IF s \in Releases THEN "available" ELSE s

Changed(from, to) == [from |-> from, to |-> to]

Triggers == {"promoted_to_newly", "promoted_to_widely", "regressed_to_limited",
             "any_browser_available"}
-----------------------------------------------------------------------------
(* compareFeature *)

\* A browser that enters the data as unavailable is rolled out quietly.
BrowserChanged(old, new) == old # new /\ ~(old = "unset" /\ new = "unavailable")

CompareBrowserImpls(old, new) ==
    [b \in {c \in Browsers : BrowserChanged(old[c], new[c])} |-> Changed(old[b], new[b])]

CompareBaseline(old, new) == IF old # new THEN new ELSE None

NoBrowsers == [b \in {} |-> None]

\* FeatureModified: a baseline change is known by what it leads to.
NoChange == [renamed |-> FALSE, baseline |-> None, browsers |-> NoBrowsers]

CompareFeature(v, w) ==
    LET old == Details[v] new == Details[w]
    IN [renamed |-> old.name # new.name,
        baseline |-> CompareBaseline(old.baseline, new.baseline),
        browsers |-> CompareBrowserImpls(old.browsers, new.browsers)]

ASSUME StatesAssumption ==
    /\ None \notin Statuses
    /\ Releases \cap {"unset", "unavailable"} = {}

\* Differ takes two values for a change.
ASSUME ValuesAssumption ==
    \A v, w \in Values :
        /\ Details[v].baseline \in Statuses
        /\ Details[v].browsers \in [Browsers -> BrowserStates]
        /\ v # w => CompareFeature(v, w) # NoChange

ASSUME PairsAssumption ==
    /\ \A p \in Pairs : p.desktop \in Browsers /\ p.mobile \in Browsers
    /\ \A p, q \in Pairs :
           p # q => {p.desktop, p.mobile} \cap {q.desktop, q.mobile} = {}
-----------------------------------------------------------------------------
(* GenerateJSONSummary *)

Highlight(kind, f, source, change) ==
    [kind |-> kind, feature |-> f, source |-> source, change |-> change]

Plain(kind, F) == {Highlight(kind, f, f, NoChange) : f \in F}

\* Variant: what became of a removed feature is not told.
RemovedPlainly == Plain("Removed", diff.removed)

\* A removed feature's highlight has what has changed of it since: the reason why it
\* does not match any more.
ProcessRemoved ==
    {Highlight("Removed", f, f, CompareFeature(prev.snapshot[f], fate[f].value)) :
        f \in diff.removed}

ProcessModified ==
    {Highlight("Changed", f, f, CompareFeature(prev.snapshot[f], target[f])) :
        f \in diff.modified}

\* The highlight of a move is the new feature's, that of a split the old one's.
ProcessMoves == {Highlight("Moved", v.to, v.from, NoChange) : v \in diff.moves}
ProcessSplits == {Highlight("Split", v.from, v.from, NoChange) : v \in diff.splits}

Highlights ==
    ProcessModified \cup Plain("Added", diff.added) \cup ProcessRemoved
    \cup Plain("Deleted", diff.deleted) \cup ProcessMoves \cup ProcessSplits

\* The order of a summary; within a kind it is that of the names.
Rank == [Changed |-> 1, Added |-> 2, Removed |-> 3, Deleted |-> 4, Moved |-> 5, Split |-> 6]

Truncated == Cardinality(Highlights) > MaxHighlights

\* The summaries a run may write: what does not fit is left out at the end.
Summaries ==
    IF ~Truncated THEN {Highlights}
    ELSE {S \in SUBSET Highlights :
             /\ Cardinality(S) = MaxHighlights
             /\ \A h \in S, g \in Highlights \ S : Rank[h.kind] <= Rank[g.kind]}

QueryErrors == {error} \ {None}
ResolvedQueryErrors == {prev.error} \ {error, None}
-----------------------------------------------------------------------------
(* BaseSummaryVisitor *)

MatchesTrigger(h, t) ==
    \/ t = "promoted_to_newly" /\ h.change.baseline = "newly"
    \/ t = "promoted_to_widely" /\ h.change.baseline = "widely"
    \/ t = "regressed_to_limited" /\ h.change.baseline = "limited"
    \/ /\ t = "any_browser_available"
       /\ \E b \in DOMAIN h.change.browsers : h.change.browsers[b].to \in Releases

\* A subscription without triggers gets everything.
FilterHighlights(S, triggers) ==
    IF triggers = {} THEN S
    ELSE {h \in S : \E t \in triggers : MatchesTrigger(h, t)}

\* A feature that left the search because its baseline status or its browsers changed
\* is told of as changed.
Category(h) ==
    IF h.kind = "Removed" /\ (h.change.baseline # None \/ DOMAIN h.change.browsers # {})
      THEN "Changed" ELSE h.kind

Categorized(S, triggers, kind) ==
    {h \in FilterHighlights(S, triggers) : Category(h) = kind}

HasContent(S, triggers) ==
    \/ QueryErrors # {}
    \/ ResolvedQueryErrors # {}
    \/ \E kind \in DOMAIN Rank : Categorized(S, triggers, kind) # {}

\* The dispatcher makes a job for a subscription.
ShouldNotify(S, triggers) == HasContent(S, triggers)
-----------------------------------------------------------------------------
(* The RSS feed, the email digest and the Slack payload: lines are pairs of a *)
(* section and a feature.                                                     *)

Lines(section, S) == {<<section, h.feature>> : h \in S}

RSSItem(S, triggers) ==
    UNION {Lines(kind, Categorized(S, triggers, kind)) : kind \in DOMAIN Rank}

\* An event without content for the subscription is no item of its feed.
RSSShown(S, triggers) ==
    QueryErrors # {} \/ ResolvedQueryErrors # {} \/ RSSItem(S, triggers) # {}

\* The kinds that are listed as they are.
Listed(S, triggers) ==
    UNION {Lines(kind, Categorized(S, triggers, kind)) : kind \in DOMAIN Rank \ {"Changed"}}

BaselineLines(S) == UNION {Lines(s, {h \in S : h.change.baseline = s}) : s \in Statuses}

\* Variant: that both browsers have changed is enough.
AgreeOnChange(c, d) == TRUE

Agree(c, d) == Status(c.from) = Status(d.from) /\ c.to = d.to

\* Desktop and mobile are told of together if they changed alike.
GroupBrowserChanges(impls) ==
    LET together == {p \in Pairs : /\ {p.desktop, p.mobile} \subseteq DOMAIN impls
                                   /\ Agree(impls[p.desktop], impls[p.mobile])}
        alone == DOMAIN impls \ UNION {{p.desktop, p.mobile} : p \in together}
    IN {[browsers |-> {p.desktop, p.mobile}, change |-> impls[p.desktop]] : p \in together}
       \cup {[browsers |-> {b}, change |-> impls[b]] : b \in alone}

\* Variant: only features that still match have changes to tell.
EmailOfMatching(S, triggers) ==
    LET changed == {h \in Categorized(S, triggers, "Changed") : h.kind = "Changed"}
    IN Listed(S, triggers) \cup BaselineLines(changed)
       \cup Lines("browsers", {h \in changed : GroupBrowserChanges(h.change.browsers) # {}})

EmailDigest(S, triggers) ==
    LET changed == Categorized(S, triggers, "Changed")
    IN Listed(S, triggers) \cup BaselineLines(changed)
       \cup Lines("browsers", {h \in changed : GroupBrowserChanges(h.change.browsers) # {}})

\* Slack tells of browsers one by one, and of none that has no entry any more.
SlackPayload(S, triggers) ==
    LET changed == Categorized(S, triggers, "Changed")
        Told(h) == {b \in DOMAIN h.change.browsers : h.change.browsers[b].to # "unset"}
    IN Listed(S, triggers) \cup BaselineLines(changed)
       \cup Lines("browsers", {h \in changed : Told(h) # {}})
-----------------------------------------------------------------------------
(* Safety *)

AtDecision == pc = "decide"

\* What is told of a feature under a section of any name.
Tells(lines, f) == \E l \in lines : l[2] = f

\* Only its name has changed, or it lost the entry of a browser.
Minor(h) ==
    /\ Category(h) = "Changed"
    /\ h.change.baseline = None
    /\ \A b \in DOMAIN h.change.browsers : h.change.browsers[b].to = "unset"

\* The dispatcher's test and the feed's agree on whether there is anything to tell, for
\* every choice of triggers; and whoever has chosen triggers finds each feature that
\* matches them in the feed, in the mail and in the Slack message, whether or not it
\* still matches the search.  None of the readers asks another.
ReadersAgree ==
    AtDecision =>
        \A S \in Summaries, ts \in SUBSET Triggers :
            /\ ShouldNotify(S, ts) <=> RSSShown(S, ts)
            /\ \A h \in FilterHighlights(S, ts) :
                   /\ Tells(RSSItem(S, ts), h.feature)
                   /\ ts # {} \/ ~Minor(h) =>
                          /\ Tells(EmailDigest(S, ts), h.feature)
                          /\ Tells(SlackPayload(S, ts), h.feature)

\* What a recorded feature is now, if it was compared at all: what the search matches,
\* or what the database answered of a feature that left it.
Observed(f) == IF target[f] # None THEN target[f] ELSE fate[f].value

\* A subscriber of the status or of browsers hears of every such change of a feature
\* that was recorded, even if that change is why the feature left the search and even
\* though only the second look finds it, as long as the summary has room.
ChangesReachSubscribers ==
    AtDecision /\ hasTarget /\ error = None =>
        \A f \in Matched(prev.snapshot) : Observed(f) # None =>
            LET h == Highlight("Changed", f, f, CompareFeature(prev.snapshot[f], Observed(f)))
            IN \A t \in Triggers : MatchesTrigger(h, t) =>
                   \/ Truncated
                   \/ /\ ShouldNotify(Highlights, {t})
                      /\ Tells(EmailDigest(Highlights, {t}), f)

\* The mail tells every browser's change once, and as what it was.
DigestTellsBrowsersApart ==
    AtDecision =>
        \A h \in ProcessModified \cup ProcessRemoved : \A b \in DOMAIN h.change.browsers :
            \E g \in GroupBrowserChanges(h.change.browsers) :
                /\ b \in g.browsers
                /\ g.change.to = h.change.browsers[b].to
                /\ Status(g.change.from) = Status(h.change.browsers[b].from)
                /\ \A k \in GroupBrowserChanges(h.change.browsers) \ {g} : b \notin k.browsers
-----------------------------------------------------------------------------
(* Expectations that the code does not meet, kept unchecked *)

\* renderer.go calls grouped changes "fully identical"; the release that desktop and
\* mobile had before is not compared.
GroupsAreIdentical ==
    AtDecision =>
        \A h \in ProcessModified \cup ProcessRemoved :
            \A g \in GroupBrowserChanges(h.change.browsers) : \A b \in g.browsers :
                g.change = h.change.browsers[b]

\* No message is sent that tells nothing: a subscription without triggers gets one for a
\* feature that was only renamed.
MessagesHaveContent ==
    AtDecision =>
        \A S \in Summaries, ts \in SUBSET Triggers :
            ShouldNotify(S, ts) /\ QueryErrors \cup ResolvedQueryErrors = {} =>
                EmailDigest(S, ts) # {}
=============================================================================
