----------------------------- MODULE DeliveryMC -----------------------------
(* Delivery on small sets of events and channels, for TLC. *)
EXTENDS Delivery, FiniteSets, TLC

\* Channels of a kind and events are interchangeable: safety only.
Symmetry ==
    Permutations(Events) \cup Permutations(Emails) \cup Permutations(Webhooks)

Announced == {e \in Events : note[e].st # "unsent"}
Taken == {j \in Jobs : job[j].tries > 0}

\* Bound: either one event, of whose jobs the workers take one, its fan-out
\* repeated; or two events that are fanned out once, to webhooks only.
OneEventOrOneFanOut ==
    \/ Cardinality(Announced) <= 1 /\ Cardinality(Taken) <= 1
    \/ /\ \A c \in Emails : health[c].life = "absent"
       /\ \A e \in Events : note[e].tries <= 1
=============================================================================
