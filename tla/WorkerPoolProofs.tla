-------------------------- MODULE WorkerPoolProofs --------------------------
(***************************************************************************)
(* Proofs about WorkerPool, for every number of workers and jobs: errors   *)
(* are complete when the call returns, nothing is sent on a closed channel *)
(* and the pool implements JobOutcomes.                                    *)
(***************************************************************************)
EXTENDS WorkerPool, TLAPS

Busy(w) == pc[w] \in {"process", "report"}

\* A busy worker holds a job of its own, in the state its step expects.
Holding ==
    /\ \A w \in Workers : Busy(w) => job[w] \in Jobs /\ job[w] < next
    /\ \A v, w \in Workers : v # w /\ Busy(v) /\ Busy(w) => job[v] # job[w]
    /\ \A w \in Workers : pc[w] = "process" => outcome[job[w]] = "pending"
    /\ \A w \in Workers : pc[w] = "report" => outcome[job[w]] = "failed"

\* Nothing falls between the goroutines: a job is unsent, processed or being
\* processed, and an error is gathered or being reported.
Accounted ==
    /\ \A j \in Jobs : j >= next => outcome[j] = "pending"
    /\ \A j \in Jobs : j < next /\ outcome[j] = "pending"
           => \E w \in Workers : pc[w] = "process" /\ job[w] = j
    /\ \A j \in Jobs : outcome[j] = "failed" /\ j \notin allErrors
           => \E w \in Workers : pc[w] = "report" /\ job[w] = j
    /\ \A j \in allErrors : outcome[j] = "failed"

\* The order in which the goroutines end.
Shutdown ==
    /\ ~jobsOpen => next = NumJobs + 1
    /\ \A w \in Workers : pc[w] = "done" => ~jobsOpen
    /\ ErrChanClosed => \A w \in Workers : pc[w] = "done"
    /\ caller = "returned" => ErrChanClosed

PoolInv == TypeOK /\ Holding /\ Accounted /\ Shutdown

\* The invariant holds at the start.
LEMMA PoolStart == Init => PoolInv
<1> SUFFICES ASSUME Init PROVE PoolInv
  OBVIOUS
<1> USE NumJobsAssumption DEF Init, Jobs
<1>1. TypeOK
  BY DEF TypeOK
<1>2. Holding /\ Accounted
  BY DEF Holding, Accounted, Busy
<1>3. Shutdown
  BY DEF Shutdown, ErrChanClosed
<1> QED BY <1>1, <1>2, <1>3 DEF PoolInv

\* A job that was handed over is no other worker's.
LEMMA SendStep ==
    ASSUME PoolInv, NEW w \in Workers, SendJob(w)
    PROVE  PoolInv'
<1> USE NumJobsAssumption DEF PoolInv, SendJob
<1>1. /\ pc'[w] = "process" /\ job'[w] = next /\ next' = next + 1
      /\ \A v \in Workers \ {w} : pc'[v] = pc[v] /\ job'[v] = job[v]
      /\ next \in Nat /\ next \in Jobs
  BY DEF TypeOK, Jobs
<1>2. TypeOK'
  BY DEF TypeOK, Jobs
<1>3. outcome[next] = "pending"
  BY <1>1 DEF Accounted
<1>4. Holding'
  BY <1>1, <1>3 DEF Holding, Busy, TypeOK
<1>5. Accounted'
  BY <1>1, <1>3 DEF Accounted, TypeOK, Jobs
<1>6. Shutdown'
  BY <1>1 DEF Shutdown, ErrChanClosed, TypeOK, Jobs
<1> QED BY <1>2, <1>4, <1>5, <1>6

\* Processing touches the outcome of the worker's own job only.
LEMMA ProcessStep ==
    ASSUME PoolInv, NEW w \in Workers, Process(w)
    PROVE  PoolInv'
<1> USE NumJobsAssumption DEF PoolInv
<1>1. PICK o \in {"ok", "failed"} :
          /\ outcome' = [outcome EXCEPT ![job[w]] = o]
          /\ pc' = [pc EXCEPT ![w] = IF o = "ok" THEN "receive" ELSE "report"]
  BY DEF Process
<1>2. /\ pc[w] = "process"
      /\ UNCHANGED <<next, jobsOpen, job, waiter, caller, allErrors>>
  BY DEF Process
<1>3. job[w] \in Jobs /\ job[w] < next /\ outcome[job[w]] = "pending"
  BY <1>2 DEF Holding, Busy
<1>4. /\ outcome'[job[w]] = o
      /\ \A j \in Jobs \ {job[w]} : outcome'[j] = outcome[j]
      /\ pc'[w] = IF o = "ok" THEN "receive" ELSE "report"
      /\ \A v \in Workers \ {w} : pc'[v] = pc[v]
  BY <1>1, <1>3 DEF TypeOK
<1>5. TypeOK'
  BY <1>1, <1>2 DEF TypeOK
<1>6. Holding'
  <2>1. \A v \in Workers \ {w} : Busy(v) => job[v] \in Jobs \ {job[w]}
    BY <1>2 DEF Holding, Busy
  <2> QED BY <1>2, <1>4, <2>1 DEF Holding, Busy
<1>7. Accounted'
  <2>1. ASSUME NEW j \in Jobs, j >= next
        PROVE  outcome'[j] = "pending"
    BY <1>3, <1>4, <2>1 DEF Accounted, TypeOK, Jobs
  <2>2. ASSUME NEW j \in Jobs, j < next, outcome'[j] = "pending"
        PROVE  \E v \in Workers : pc'[v] = "process" /\ job[v] = j
    BY <1>4, <2>2 DEF Accounted
  <2>3. ASSUME NEW j \in Jobs, outcome'[j] = "failed", j \notin allErrors
        PROVE  \E v \in Workers : pc'[v] = "report" /\ job[v] = j
    BY <1>2, <1>4, <2>3 DEF Accounted
  <2>4. ASSUME NEW j \in allErrors
        PROVE  outcome'[j] = "failed"
    BY <1>3, <1>4, <2>4 DEF Accounted, TypeOK
  <2> QED BY <1>2, <2>1, <2>2, <2>3, <2>4 DEF Accounted
<1>8. Shutdown'
  BY <1>2, <1>4 DEF Shutdown, ErrChanClosed
<1> QED BY <1>5, <1>6, <1>7, <1>8

\* An error changes hands; nothing else moves.
LEMMA ReportStep ==
    ASSUME PoolInv, NEW w \in Workers, Report(w)
    PROVE  PoolInv'
<1> USE NumJobsAssumption DEF PoolInv
<1>1. /\ pc[w] = "report" /\ pc'[w] = "receive"
      /\ \A v \in Workers \ {w} : pc'[v] = pc[v]
      /\ allErrors' = allErrors \cup {job[w]}
      /\ UNCHANGED <<next, jobsOpen, job, outcome, waiter, caller>>
  BY DEF Report, TypeOK
<1>2. job[w] \in Jobs /\ outcome[job[w]] = "failed"
  BY <1>1 DEF Holding, Busy
<1>3. TypeOK'
  BY <1>1, <1>2 DEF TypeOK, Report
<1>4. Holding'
  BY <1>1 DEF Holding, Busy
<1>5. Accounted'
  BY <1>1, <1>2 DEF Accounted
<1>6. Shutdown'
  BY <1>1 DEF Shutdown, ErrChanClosed
<1> QED BY <1>3, <1>4, <1>5, <1>6

\* The remaining steps only end goroutines.
LEMMA EndStep ==
    ASSUME PoolInv,
           \/ CloseJobs \/ CloseErrors \/ ReturnOnClosed \/ ReturnOnDone
           \/ \E w \in Workers : Finish(w)
           \/ UNCHANGED vars
    PROVE  PoolInv'
<1> USE NumJobsAssumption DEF PoolInv
<1>1. CASE CloseJobs
  <2>1. next = NumJobs + 1
    BY <1>1 DEF CloseJobs, TypeOK, Jobs
  <2>2. TypeOK'
    BY <1>1 DEF CloseJobs, TypeOK
  <2>3. Holding' /\ Accounted'
    BY <1>1 DEF CloseJobs, Holding, Accounted, Busy
  <2>4. Shutdown'
    BY <1>1, <2>1 DEF CloseJobs, Shutdown, ErrChanClosed
  <2> QED BY <2>2, <2>3, <2>4
<1>2. CASE CloseErrors \/ ReturnOnClosed \/ ReturnOnDone
  <2>1. TypeOK' /\ Shutdown'
    BY <1>2 DEF CloseErrors, ReturnOnClosed, ReturnOnDone, TypeOK, Shutdown,
       ErrChanClosed
  <2>2. Holding' /\ Accounted'
    BY <1>2 DEF CloseErrors, ReturnOnClosed, ReturnOnDone, Holding, Accounted, Busy
  <2> QED BY <2>1, <2>2
<1>3. ASSUME NEW w \in Workers, Finish(w)
      PROVE  PoolInv'
  <2>1. /\ pc[w] = "receive" /\ pc'[w] = "done" /\ ~jobsOpen
        /\ \A v \in Workers \ {w} : pc'[v] = pc[v]
        /\ UNCHANGED <<next, jobsOpen, job, outcome, waiter, caller, allErrors>>
    BY <1>3 DEF Finish, TypeOK
  <2>2. TypeOK'
    BY <1>3 DEF Finish, TypeOK
  <2>3. Holding' /\ Accounted'
    BY <2>1 DEF Holding, Accounted, Busy
  <2>4. Shutdown'
    BY <2>1 DEF Shutdown, ErrChanClosed
  <2> QED BY <2>2, <2>3, <2>4
<1>4. CASE UNCHANGED vars
  BY <1>4 DEF vars, TypeOK, Holding, Accounted, Shutdown, Busy, ErrChanClosed
<1> QED BY <1>1, <1>2, <1>3, <1>4

\* Every reachable state satisfies the invariant.
LEMMA PoolInvariance == Spec => []PoolInv
<1>1. Init => PoolInv
  BY PoolStart
<1>2. PoolInv /\ [Next]_vars => PoolInv'
  BY SendStep, ProcessStep, ReportStep, EndStep
     DEF Next, Start, StartWorker, Returned
<1> QED BY <1>1, <1>2, PTL DEF Spec

\* In a state of the invariant in which errChan is closed, everything is done.
LEMMA ClosedMeansDone ==
    ASSUME PoolInv, ErrChanClosed
    PROVE  /\ \A w \in Workers : pc[w] = "done"
           /\ \A j \in Jobs : outcome[j] # "pending"
           /\ allErrors = {j \in Jobs : outcome[j] = "failed"}
<1> USE DEF PoolInv
<1>1. \A w \in Workers : pc[w] = "done"
  BY DEF Shutdown
<1>2. next = NumJobs + 1
  BY <1>1, WorkersAssumption DEF Shutdown
<1>3. \A j \in Jobs : j < next
  BY <1>2, NumJobsAssumption DEF Jobs
<1>4. \A j \in Jobs : outcome[j] # "pending"
  BY <1>1, <1>3 DEF Accounted
<1>5. allErrors = {j \in Jobs : outcome[j] = "failed"}
  BY <1>1 DEF Accounted, TypeOK
<1> QED BY <1>1, <1>4, <1>5

\* Every variable of the pool keeps its type.
THEOREM PoolTyping == Spec => []TypeOK
<1>1. PoolInv => TypeOK
  BY DEF PoolInv
<1> QED BY <1>1, PoolInvariance, PTL

\* The caller returns with the errors of all failed jobs, all jobs processed.
THEOREM ReturnsAllErrorsHolds == Spec => []ReturnsAllErrors
<1>1. PoolInv => ReturnsAllErrors
  BY ClosedMeansDone DEF ReturnsAllErrors, PoolInv, Shutdown
<1> QED BY <1>1, PoolInvariance, PTL

\* No worker panics on a closed errChan.
THEOREM NoSendOnClosedChannelHolds == Spec => []NoSendOnClosedChannel
<1>1. PoolInv => NoSendOnClosedChannel
  BY ClosedMeansDone DEF NoSendOnClosedChannel
<1> QED BY <1>1, PoolInvariance, PTL

-----------------------------------------------------------------------------
(* The refinement *)

\* A step of the pool processes one job, returns, or is invisible to the caller.
LEMMA OutcomeStep ==
    ASSUME PoolInv, PoolInv', [Next]_vars
    PROVE  [Outcomes!Next]_Outcomes!ovars
<1> USE DEF Outcomes!ovars
<1>1. CASE UNCHANGED <<outcome, caller, allErrors>>
  BY <1>1
<1>2. ASSUME NEW w \in Workers, Process(w)
      PROVE  [Outcomes!Next]_Outcomes!ovars
  <2>1. job[w] \in Jobs /\ outcome[job[w]] = "pending"
    BY <1>2 DEF PoolInv, Holding, Busy, Process
  <2>2. Outcomes!Process(job[w])
    BY <1>2, <2>1 DEF Process, Outcomes!Process
  <2> QED BY <2>1, <2>2 DEF Outcomes!Next
<1>3. ASSUME NEW w \in Workers, Report(w)
      PROVE  [Outcomes!Next]_Outcomes!ovars
  BY <1>3 DEF Report
<1>4. CASE ReturnOnClosed \/ ReturnOnDone
  <2>1. ErrChanClosed /\ caller = "select" /\ caller' = "returned"
        /\ UNCHANGED <<outcome, allErrors>>
    BY <1>4 DEF ReturnOnClosed, ReturnOnDone, ErrChanClosed
  <2>2. Outcomes!Return
    BY <2>1, ClosedMeansDone DEF Outcomes!Return
  <2> QED BY <2>2 DEF Outcomes!Next
<1> QED BY <1>1, <1>2, <1>3, <1>4 DEF Next, Start, StartWorker, Returned, vars,
       SendJob, CloseJobs, Finish, CloseErrors

\* The pool implements what its callers rely on.
THEOREM OutcomesRefined == Spec => ImplementsOutcomes
<1>1. Init => Outcomes!Init
  BY DEF Init, Outcomes!Init
<1>2. PoolInv /\ PoolInv' /\ [Next]_vars => [Outcomes!Next]_Outcomes!ovars
  BY OutcomeStep
<1> QED BY <1>1, <1>2, PoolInvariance, PTL DEF Spec, ImplementsOutcomes, Outcomes!Spec
=============================================================================
