------------------------ MODULE SavedSearchHistory ------------------------
(***************************************************************************)
(* What the event producer promises to the rest of the system about one    *)
(* saved search at one frequency: an append-only history of snapshots in   *)
(* which every entry was computed against the entry just before it and     *)
(* differs from it, and announcements of entries that are in the history,  *)
(* each entry announced at most once.  Locks, leases, blobs, crashes and   *)
(* retries do not appear here.                                             *)
(***************************************************************************)
EXTENDS Naturals, Sequences

CONSTANT Triggers \* identifiers an entry can carry

VARIABLES
    history,   \* the entries, oldest first
    announced  \* the triggers whose entry the notification topic was told of

hvars == <<history, announced>>

\* The snapshot before the first entry.
Empty == [id |-> 0, query |-> 0, data |-> 0]

Tip == IF history = <<>> THEN Empty ELSE history[Len(history)].state

Recorded == {history[i].id : i \in DOMAIN history}

Differs(old, new) == old.id = 0 \/ old.query # new.query \/ old.data # new.data

Init ==
    /\ history = <<>>
    /\ announced = {}

\* A trigger that has no entry yet appends the difference between the tip and
\* a later snapshot.  The entry is read off the next state, so that the set of
\* snapshots needs no bound.
Extend(t) ==
    /\ t \notin Recorded
    /\ Len(history') = Len(history) + 1
    /\ LET new == history'[Len(history')]
       IN /\ new.id = t
          /\ new.base = Tip
          /\ new.state.id > Tip.id
          /\ Differs(Tip, new.state)
          /\ history' = Append(history, new)
    /\ UNCHANGED announced

Announce(t) ==
    /\ t \in Recorded \ announced
    /\ announced' = announced \cup {t}
    /\ UNCHANGED history

Next ==
    \E t \in Triggers : Extend(t) \/ Announce(t)

Spec == Init /\ [][Next]_hvars
=============================================================================
