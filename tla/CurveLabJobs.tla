---------------------------- MODULE CurveLabJobs ----------------------------
(***************************************************************************)
(* backend/app/services/curve_lab_jobs.py: the process-wide executor that  *)
(* build, import and risk jobs share.  A request first takes a permit of a *)
(* BoundedSemaphore (a _Reservation), then persists its row, and only then *)
(* submits the work to a FIFO thread pool; the permit comes back in the    *)
(* finally of the wrapped function, or when the reservation is cancelled.  *)
(* The three parties (request handlers, pool threads, the semaphore) run   *)
(* concurrently; one action is one of their atomic steps.                  *)
(***************************************************************************)
EXTENDS Naturals, Sequences, FiniteSets

CONSTANTS
  Jobs,        \* every reservation that is ever made (one per request)
  MaxWorkers,  \* threads of the pool (2 in the application)
  MaxQueued    \* waiting jobs beyond those running (100 in the application)

ASSUME JobsAssumption == MaxWorkers \in Nat \ {0} /\ MaxQueued \in Nat

VARIABLES
  permits,  \* value of the BoundedSemaphore
  resv,     \* where each reservation and the work behind it is
  queue     \* the pool's work queue

jobVars == <<permits, resv, queue>>

Capacity == MaxWorkers + MaxQueued

(* "held": reserved, unconsumed.  "queued", "running": submitted.          *)
(* "released": the finally clause has run but the thread is not yet back   *)
(* at the queue; "done": it is.  "refused": submit raised and the caller's *)
(* except clause is still to run; "cancelled": it has run.                 *)
Statuses == {"none", "held", "queued", "running", "released", "done",
             "refused", "cancelled"}

InState(S) == {j \in Jobs : resv[j] \in S}

Outstanding == InState({"held", "queued", "running"})
BusyWorkers == InState({"running", "released"})
Consumed(j) == resv[j] # "held"

JobsInit ==
  /\ permits = Capacity
  /\ resv = [j \in Jobs |-> "none"]
  /\ queue = <<>>

(* reserve(): a non-blocking acquire; without a permit the caller gets     *)
(* CurveLabQueueFullError and nothing changes.                             *)
Reserve(j) ==
  /\ resv[j] = "none"
  /\ permits > 0
  /\ permits' = permits - 1
  /\ resv' = [resv EXCEPT ![j] = "held"]
  /\ UNCHANGED queue

(* Mutant of Submit: the work never reaches the pool.                      *)
SubmitNowhere(j) ==
  /\ ~Consumed(j)
  /\ resv' = [resv EXCEPT ![j] = "queued"]
  /\ UNCHANGED <<permits, queue>>

(* Mutant of Submit: a reservation that was submitted can be submitted     *)
(* again.                                                                  *)
SubmitAgain(j) ==
  /\ resv[j] \in {"held", "queued"}
  /\ resv' = [resv EXCEPT ![j] = "queued"]
  /\ queue' = Append(queue, j)
  /\ UNCHANGED permits

(* _Reservation.submit: consumes the reservation and queues the work.      *)
Submit(j) ==
  /\ ~Consumed(j)
  /\ resv' = [resv EXCEPT ![j] = "queued"]
  /\ queue' = Append(queue, j)
  /\ UNCHANGED permits

(* The pool refuses the work: submit gives the permit back and re-raises,  *)
(* which sends the caller into its except clause.                          *)
SubmitRaises(j) ==
  /\ ~Consumed(j)
  /\ resv' = [resv EXCEPT ![j] = "refused"]
  /\ permits' = permits + 1
  /\ UNCHANGED queue

(* Mutant of Cancel: it does not look whether submit consumed the          *)
(* reservation.                                                            *)
CancelAlways(j) ==
  /\ resv[j] \in {"held", "refused"}
  /\ resv' = [resv EXCEPT ![j] = "cancelled"]
  /\ permits' = permits + 1
  /\ UNCHANGED queue

(* _Reservation.cancel, which the caller's except clause runs whether the  *)
(* row could not be persisted ("held") or submit itself raised             *)
(* ("refused"): it gives the permit back unless submit already consumed    *)
(* the reservation.                                                        *)
Cancel(j) ==
  /\ resv[j] \in {"held", "refused"}
  /\ resv' = [resv EXCEPT ![j] = "cancelled"]
  /\ permits' = IF Consumed(j) THEN permits ELSE permits + 1
  /\ UNCHANGED queue

(* A pool thread with nothing to do takes the oldest work.                 *)
Take(j) ==
  /\ queue # <<>>
  /\ j = Head(queue)
  /\ Cardinality(BusyWorkers) < MaxWorkers
  /\ queue' = Tail(queue)
  /\ resv' = [resv EXCEPT ![j] = "running"]
  /\ UNCHANGED permits

(* The function returned or raised: guarded()'s finally gives the permit   *)
(* back while the thread still belongs to this job.                        *)
Release(j) ==
  /\ resv[j] = "running"
  /\ resv' = [resv EXCEPT ![j] = "released"]
  /\ permits' = permits + 1
  /\ UNCHANGED queue

(* The thread returns to the queue.                                        *)
Retire(j) ==
  /\ resv[j] = "released"
  /\ resv' = [resv EXCEPT ![j] = "done"]
  /\ UNCHANGED <<permits, queue>>

JobsNext ==
  \E j \in Jobs :
    \/ Reserve(j) \/ Submit(j) \/ SubmitRaises(j) \/ Cancel(j)
    \/ Take(j) \/ Release(j) \/ Retire(j)

(* A handler that holds a reservation runs to its submit or cancel, and    *)
(* pool threads are scheduled; nobody owes the executor a new request, and *)
(* the jobs themselves are assumed to return.                              *)
JobsFairness ==
  \A j \in Jobs :
    /\ WF_jobVars(Submit(j) \/ SubmitRaises(j) \/ Cancel(j))
    /\ WF_jobVars(Take(j)) /\ WF_jobVars(Release(j)) /\ WF_jobVars(Retire(j))

JobsSpec == JobsInit /\ [][JobsNext]_jobVars
FairJobsSpec == JobsSpec /\ JobsFairness
-----------------------------------------------------------------------------
(* Type invariant.                                                         *)
JobsTypeOK ==
  /\ permits \in Nat
  /\ resv \in [Jobs -> Statuses]
  /\ queue \in Seq(Jobs)

(* Every permit is either in the semaphore or backs exactly one piece of   *)
(* outstanding work, whatever mix of refusals, double cancels and workers  *)
(* gives permits back: none leaks (the queue would shrink for good) and    *)
(* none is given back twice (the BoundedSemaphore would raise inside the   *)
(* worker's finally and the bound of the queue would be lost).             *)
PermitsAccountedFor == permits + Cardinality(Outstanding) = Capacity

(* The pool never runs more than MaxWorkers jobs, counting the thread that *)
(* has given its permit back but is not yet at the queue: in that window a *)
(* new request may be admitted and must still not start a third job.       *)
WorkersBounded == Cardinality(BusyWorkers) <= MaxWorkers

(* The pool's queue holds each submitted, unstarted job exactly once: no   *)
(* job is lost between submit and a worker, and none runs twice.           *)
QueueHoldsWaitingJobs ==
  /\ {queue[i] : i \in DOMAIN queue} = InState({"queued"})
  /\ \A i, k \in DOMAIN queue : queue[i] = queue[k] => i = k

(* Work that was accepted is eventually executed and its thread freed.     *)
SubmittedWorkFinishes == \A j \in Jobs : resv[j] = "queued" ~> resv[j] = "done"

(* The executor is a bounded admission gate.                               *)
Gate == INSTANCE BoundedAdmission WITH
          outstanding <- Outstanding,
          retired <- InState({"released", "done", "refused", "cancelled"})
GateSpec == Gate!ASpec
=============================================================================
