------------------------------- MODULE Attempts -------------------------------
(***************************************************************************)
(* The deliveries that were attempted to a channel.  Recording one prunes   *)
(* the oldest in the same transaction, counting without the new one.  The   *)
(* workers stamp an attempt with their own time before the transaction, so  *)
(* that attempts are not recorded in the order of their stamps, and several  *)
(* can have one stamp.                                                      *)
(***************************************************************************)
EXTENDS Naturals, FiniteSets

CONSTANTS
    MaxKept,       \* maxDeliveryAttemptsToKeep
    Stamps,        \* times of attempts
    MaxAttempts    \* bound: attempts that are recorded

ASSUME MaxKeptAssumption == MaxKept \in Nat \ {0}
ASSUME StampsAssumption == Stamps \subseteq Nat

VARIABLES
    attempts,   \* the rows of the channel, with the place each was recorded at
    recorded,   \* (history) how many have been recorded
    pruned      \* (history) the rows removed, each with the number recorded until then

attemptsVars == <<attempts, recorded, pruned>>

AttemptsInit == attempts = {} /\ recorded = 0 /\ pruned = {}

\* The rows to remove, in the order of their stamps.  Rows of one stamp come in
\* any order.
IsOldest(D, n) ==
    /\ D \subseteq attempts /\ Cardinality(D) = n
    /\ \A d \in D, a \in attempts \ D : d.stamp <= a.stamp

\* Variant: the new attempt is taken to be counted.
DeletesFewer(count) == IF count < MaxKept THEN 0 ELSE count - MaxKept
DeleteCount(count) == IF count < MaxKept THEN 0 ELSE count - MaxKept + 1

CreateAttempt(stamp) ==
    /\ recorded < MaxAttempts
    /\ recorded' = recorded + 1
    /\ \E D \in SUBSET attempts :
          /\ IsOldest(D, DeleteCount(Cardinality(attempts)))
          /\ attempts' = (attempts \ D) \cup {[stamp |-> stamp, place |-> recorded + 1]}
          /\ pruned' = pruned \cup {[stamp |-> d.stamp, until |-> recorded] : d \in D}

AttemptsNext == \E stamp \in Stamps : CreateAttempt(stamp)

AttemptsSpec == AttemptsInit /\ [][AttemptsNext]_attemptsVars
-----------------------------------------------------------------------------
\* The log is full once there have been enough attempts, and never more than
\* full; the last one recorded is in it; and an attempt that is older than one
\* that was pruned was recorded after that.
LatestAttemptsAreKept ==
    /\ Cardinality(attempts) = IF recorded < MaxKept THEN recorded ELSE MaxKept
    /\ recorded > 0 => \E a \in attempts : a.place = recorded
    /\ \A a \in attempts, p \in pruned : a.stamp < p.stamp => a.place > p.until
=============================================================================
