----------------------------- MODULE WorkerPool -----------------------------
(***************************************************************************)
(* workerpool.Pool.Start, with which the ingestion workflows process their *)
(* jobs: a sender, the workers, a goroutine that waits for the workers and *)
(* the caller, which gathers the errors.  All channels are unbuffered: a   *)
(* send and its receipt are one step of two goroutines.                    *)
(***************************************************************************)
EXTENDS Naturals

CONSTANTS
    Workers,  \* the goroutines that run StartWorker
    NumJobs   \* length of the slice of jobs; a job is its index

ASSUME NumJobsAssumption == NumJobs \in Nat
\* Every caller starts at least one worker.  With none, the call returns at once
\* and leaves its jobs unprocessed.
ASSUME WorkersAssumption == Workers # {}

VARIABLES
    next,       \* the job the sender sends next
    jobsOpen,   \* is jobsChan open?
    pc,         \* where each worker is
    job,        \* the job each worker has received last, 0 if none
    outcome,    \* what processing a job came to
    waiter,     \* the goroutine that waits for the workers
    caller,     \* the loop of Start
    allErrors   \* the jobs whose errors the caller has gathered

vars == <<next, jobsOpen, pc, job, outcome, waiter, caller, allErrors>>

Jobs == 1 .. NumJobs

\* errChan is closed once the waiter has passed wg.Wait.
ErrChanClosed == waiter # "wait"

TypeOK ==
    /\ next \in 1 .. NumJobs + 1
    /\ jobsOpen \in BOOLEAN
    /\ pc \in [Workers -> {"receive", "process", "report", "done"}]
    /\ job \in [Workers -> 0 .. NumJobs]
    /\ outcome \in [Jobs -> {"pending", "ok", "failed"}]
    /\ waiter \in {"wait", "signal", "end"}
    /\ caller \in {"select", "returned"}
    /\ allErrors \in SUBSET Jobs

Init ==
    /\ next = 1
    /\ jobsOpen = TRUE
    /\ pc = [w \in Workers |-> "receive"]
    /\ job = [w \in Workers |-> 0]
    /\ outcome = [j \in Jobs |-> "pending"]
    /\ waiter = "wait"
    /\ caller = "select"
    /\ allErrors = {}
-----------------------------------------------------------------------------
\* The sender hands the next job to a worker that is ready to receive.
SendJob(w) ==
    /\ next \in Jobs
    /\ pc[w] = "receive"
    /\ pc' = [pc EXCEPT ![w] = "process"]
    /\ job' = [job EXCEPT ![w] = next]
    /\ next' = next + 1
    /\ UNCHANGED <<jobsOpen, outcome, waiter, caller, allErrors>>

\* Variant: the job channel is closed one job too early.
CloseJobsEarly ==
    /\ jobsOpen
    /\ next >= NumJobs
    /\ jobsOpen' = FALSE
    /\ next' = NumJobs + 1
    /\ UNCHANGED <<pc, job, outcome, waiter, caller, allErrors>>

\* Variant: the job channel stays open.
CloseJobsForgotten ==
    /\ jobsOpen
    /\ next \notin Jobs
    /\ UNCHANGED vars

CloseJobs ==
    /\ jobsOpen
    /\ next \notin Jobs
    /\ jobsOpen' = FALSE
    /\ UNCHANGED <<next, pc, job, outcome, waiter, caller, allErrors>>

\* The range over a closed channel ends, and the worker calls wg.Done.
Finish(w) ==
    /\ pc[w] = "receive"
    /\ ~jobsOpen
    /\ pc' = [pc EXCEPT ![w] = "done"]
    /\ UNCHANGED <<next, jobsOpen, job, outcome, waiter, caller, allErrors>>

Process(w) ==
    /\ pc[w] = "process"
    /\ \/ /\ outcome' = [outcome EXCEPT ![job[w]] = "ok"]
          /\ pc' = [pc EXCEPT ![w] = "receive"]
       \/ /\ outcome' = [outcome EXCEPT ![job[w]] = "failed"]
          /\ pc' = [pc EXCEPT ![w] = "report"]
    /\ UNCHANGED <<next, jobsOpen, job, waiter, caller, allErrors>>

\* The worker hands its error to the caller.
Report(w) ==
    /\ pc[w] = "report"
    /\ caller = "select"
    /\ ~ErrChanClosed
    /\ pc' = [pc EXCEPT ![w] = "receive"]
    /\ allErrors' = allErrors \cup {job[w]}
    /\ UNCHANGED <<next, jobsOpen, job, outcome, waiter, caller>>

\* Variant: the workers are waited for until they have processed their jobs.
CloseErrorsEarly ==
    /\ waiter = "wait"
    /\ ~jobsOpen
    /\ \A w \in Workers : pc[w] \in {"done", "report"}
    /\ waiter' = "signal"
    /\ UNCHANGED <<next, jobsOpen, pc, job, outcome, caller, allErrors>>

\* wg.Wait returns and errChan is closed.
CloseErrors ==
    /\ waiter = "wait"
    /\ \A w \in Workers : pc[w] = "done"
    /\ waiter' = "signal"
    /\ UNCHANGED <<next, jobsOpen, pc, job, outcome, caller, allErrors>>

\* The caller finds errChan closed.  The waiter is left behind at doneChan.
ReturnOnClosed ==
    /\ caller = "select"
    /\ ErrChanClosed
    /\ caller' = "returned"
    /\ UNCHANGED <<next, jobsOpen, pc, job, outcome, waiter, allErrors>>

\* The waiter hands its signal to the caller.
ReturnOnDone ==
    /\ caller = "select"
    /\ waiter = "signal"
    /\ waiter' = "end"
    /\ caller' = "returned"
    /\ UNCHANGED <<next, jobsOpen, pc, job, outcome, allErrors>>

StartWorker(w) == SendJob(w) \/ Finish(w) \/ Process(w) \/ Report(w)

Start ==
    \/ CloseJobs
    \/ CloseErrors
    \/ ReturnOnClosed
    \/ ReturnOnDone
    \/ \E w \in Workers : StartWorker(w)

\* Nothing is left to do once the caller has returned.
Returned == caller = "returned" /\ UNCHANGED vars

Next == Start \/ Returned

Spec == Init /\ [][Next]_vars

\* The Go scheduler runs what can run; no choice among ready cases is forced.
FairSpec == Spec /\ WF_vars(Start)
-----------------------------------------------------------------------------
\* The errors are complete when the caller returns: no job is unprocessed, and
\* no error is still on its way, whichever case of the select fires.
ReturnsAllErrors ==
    caller = "returned" =>
        /\ \A j \in Jobs : outcome[j] # "pending"
        /\ allErrors = {j \in Jobs : outcome[j] = "failed"}

\* No worker is about to send on errChan after it was closed, which would panic.
NoSendOnClosedChannel ==
    ErrChanClosed => \A w \in Workers : pc[w] # "report"

Outcomes == INSTANCE JobOutcomes WITH
    returned <- caller = "returned",
    errors <- IF caller = "returned" THEN allErrors ELSE {}

\* The pool implements what its caller relies on.
ImplementsOutcomes == Outcomes!Spec

\* The call returns.
Termination == <>(caller = "returned")
=============================================================================
