----------------------------- MODULE JobOutcomes -----------------------------
(***************************************************************************)
(* What a caller of the worker pool relies on: every job is processed, and *)
(* only then does the call return, with the errors of the jobs that failed *)
(* and of no other.  Goroutines and channels do not appear here.           *)
(***************************************************************************)
CONSTANT Jobs

VARIABLES
    outcome,   \* per job: "pending", "ok" or "failed"
    returned,  \* has the call returned?
    errors     \* the jobs whose errors it returned

ovars == <<outcome, returned, errors>>

Init ==
    /\ outcome = [j \in Jobs |-> "pending"]
    /\ returned = FALSE
    /\ errors = {}

Process(j) ==
    /\ outcome[j] = "pending"
    /\ \E o \in {"ok", "failed"} : outcome' = [outcome EXCEPT ![j] = o]
    /\ UNCHANGED <<returned, errors>>

Return ==
    /\ ~returned
    /\ \A j \in Jobs : outcome[j] # "pending"
    /\ returned' = TRUE
    /\ errors' = {j \in Jobs : outcome[j] = "failed"}
    /\ UNCHANGED outcome

Next == Return \/ \E j \in Jobs : Process(j)

Spec == Init /\ [][Next]_ovars
=============================================================================
