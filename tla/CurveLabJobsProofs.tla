------------------------- MODULE CurveLabJobsProofs -------------------------
(***************************************************************************)
(* What CurveLabJobs guarantees for every set of requests, every number of *)
(* workers and every queue bound.  The argument: the permits and the set   *)
(* of outstanding reservations change together, by one, at every step that *)
(* touches either, and a reservation leaves the outstanding set once.      *)
(***************************************************************************)
EXTENDS CurveLabJobs, FiniteSetTheorems, TLAPS

(* The permit count says something about a set only when it is finite.     *)
FinitelyMany == IsFiniteSet(Outstanding) /\ IsFiniteSet(BusyWorkers)

JobsInv ==
  /\ JobsTypeOK
  /\ QueueHoldsWaitingJobs
  /\ FinitelyMany
  /\ PermitsAccountedFor
  /\ WorkersBounded

LEMMA CapacityNat == Capacity \in Nat /\ Capacity > 0
  BY JobsAssumption DEF Capacity

(* Initially nothing is reserved and every permit is in the semaphore.     *)
LEMMA JobsInitInv == JobsInit => JobsInv
<1> SUFFICES ASSUME JobsInit PROVE JobsInv
  OBVIOUS
<1>1. JobsTypeOK
  BY CapacityNat DEF JobsInit, JobsTypeOK, Statuses
<1>2. Outstanding = {} /\ BusyWorkers = {}
  BY DEF JobsInit, Outstanding, BusyWorkers, InState
<1>3. FinitelyMany /\ Cardinality(Outstanding) = 0 /\ Cardinality(BusyWorkers) = 0
  BY <1>2, FS_EmptySet DEF FinitelyMany
<1>4. PermitsAccountedFor /\ WorkersBounded
  BY <1>3, CapacityNat, JobsAssumption DEF JobsInit, PermitsAccountedFor, WorkersBounded
<1>5. QueueHoldsWaitingJobs
  BY DEF JobsInit, QueueHoldsWaitingJobs, InState
<1> QED
  BY <1>1, <1>3, <1>4, <1>5 DEF JobsInv

(* Every step keeps the types.                                             *)
LEMMA JobsTypeStep ==
  ASSUME JobsTypeOK, [JobsNext]_jobVars
  PROVE  JobsTypeOK'
<1> USE DEF JobsTypeOK, Statuses
<1>1. CASE UNCHANGED jobVars
  BY <1>1 DEF jobVars
<1>2. ASSUME NEW j \in Jobs, Reserve(j) PROVE JobsTypeOK'
  BY <1>2 DEF Reserve
<1>3. ASSUME NEW j \in Jobs, Submit(j) PROVE JobsTypeOK'
  BY <1>3 DEF Submit
<1>4. ASSUME NEW j \in Jobs, SubmitRaises(j) PROVE JobsTypeOK'
  BY <1>4 DEF SubmitRaises
<1>5. ASSUME NEW j \in Jobs, Cancel(j) PROVE JobsTypeOK'
  BY <1>5 DEF Cancel, Consumed
<1>6. ASSUME NEW j \in Jobs, Take(j) PROVE JobsTypeOK'
  BY <1>6 DEF Take
<1>7. ASSUME NEW j \in Jobs, Release(j) PROVE JobsTypeOK'
  BY <1>7 DEF Release
<1>8. ASSUME NEW j \in Jobs, Retire(j) PROVE JobsTypeOK'
  BY <1>8 DEF Retire
<1> QED
  BY <1>1, <1>2, <1>3, <1>4, <1>5, <1>6, <1>7, <1>8 DEF JobsNext

(* How each step moves the two sets that are counted.                      *)
LEMMA SetMoves ==
  ASSUME JobsTypeOK, NEW j \in Jobs
  PROVE  /\ Reserve(j) => /\ j \notin Outstanding
                          /\ Outstanding' = Outstanding \cup {j}
                          /\ BusyWorkers' = BusyWorkers
         /\ Submit(j) => Outstanding' = Outstanding /\ BusyWorkers' = BusyWorkers
         /\ SubmitRaises(j) => /\ j \in Outstanding
                               /\ Outstanding' = Outstanding \ {j}
                               /\ BusyWorkers' = BusyWorkers
         /\ Cancel(j) /\ ~Consumed(j) => /\ j \in Outstanding
                                         /\ Outstanding' = Outstanding \ {j}
                                         /\ BusyWorkers' = BusyWorkers
         /\ Cancel(j) /\ Consumed(j) => /\ Outstanding' = Outstanding
                                        /\ BusyWorkers' = BusyWorkers
         /\ Take(j) /\ resv[j] = "queued" => /\ Outstanding' = Outstanding
                                             /\ BusyWorkers' = BusyWorkers \cup {j}
         /\ Release(j) => /\ j \in Outstanding
                          /\ Outstanding' = Outstanding \ {j}
                          /\ BusyWorkers' = BusyWorkers
         /\ Retire(j) => /\ Outstanding' = Outstanding
                         /\ BusyWorkers' = BusyWorkers \ {j}
<1> USE DEF JobsTypeOK, Outstanding, BusyWorkers, InState, Consumed
<1>1. Reserve(j) => /\ j \notin Outstanding
                    /\ Outstanding' = Outstanding \cup {j}
                    /\ BusyWorkers' = BusyWorkers
  BY DEF Reserve
<1>2. Submit(j) => Outstanding' = Outstanding /\ BusyWorkers' = BusyWorkers
  BY DEF Submit
<1>3. SubmitRaises(j) => /\ j \in Outstanding
                         /\ Outstanding' = Outstanding \ {j}
                         /\ BusyWorkers' = BusyWorkers
  BY DEF SubmitRaises
<1>4. Cancel(j) /\ ~Consumed(j) => /\ j \in Outstanding
                                   /\ Outstanding' = Outstanding \ {j}
                                   /\ BusyWorkers' = BusyWorkers
  BY DEF Cancel
<1>5. Cancel(j) /\ Consumed(j) => Outstanding' = Outstanding /\ BusyWorkers' = BusyWorkers
  BY DEF Cancel
<1>6. Take(j) /\ resv[j] = "queued" => /\ Outstanding' = Outstanding
                                       /\ BusyWorkers' = BusyWorkers \cup {j}
  BY DEF Take
<1>7. Release(j) => /\ j \in Outstanding
                    /\ Outstanding' = Outstanding \ {j}
                    /\ BusyWorkers' = BusyWorkers
  BY DEF Release
<1>8. Retire(j) => /\ Outstanding' = Outstanding
                   /\ BusyWorkers' = BusyWorkers \ {j}
  BY DEF Retire
<1> QED
  BY <1>1, <1>2, <1>3, <1>4, <1>5, <1>6, <1>7, <1>8

(* The queue and the status "queued" change together: submit appends a job *)
(* that was not waiting, a worker takes the head and nothing else.         *)
LEMMA QueueStep ==
  ASSUME JobsTypeOK, QueueHoldsWaitingJobs, [JobsNext]_jobVars
  PROVE  QueueHoldsWaitingJobs'
<1> USE DEF JobsTypeOK, QueueHoldsWaitingJobs, InState
<1>1. CASE UNCHANGED jobVars
  BY <1>1 DEF jobVars
<1>2. ASSUME NEW j \in Jobs, Submit(j) PROVE QueueHoldsWaitingJobs'
  <2>1. /\ DOMAIN queue' = 1..(Len(queue) + 1)
        /\ DOMAIN queue = 1..Len(queue)
        /\ Len(queue) \in Nat
        /\ \A i \in 1..Len(queue) : queue'[i] = queue[i]
        /\ queue'[Len(queue) + 1] = j
    BY <1>2 DEF Submit
  <2>2. \A i \in DOMAIN queue : queue[i] # j
    BY <1>2 DEF Submit, Consumed
  <2>3. {k \in Jobs : resv'[k] = "queued"} = {k \in Jobs : resv[k] = "queued"} \cup {j}
    BY <1>2 DEF Submit
  <2>4. {queue'[i] : i \in DOMAIN queue'} = {queue[i] : i \in DOMAIN queue} \cup {j}
    BY <2>1
  <2>5. \A i, k \in DOMAIN queue' : queue'[i] = queue'[k] => i = k
    BY <2>1, <2>2
  <2> QED
    BY <2>3, <2>4, <2>5
<1>3. ASSUME NEW j \in Jobs, Take(j) PROVE QueueHoldsWaitingJobs'
  <2>1. /\ DOMAIN queue = 1..Len(queue)
        /\ DOMAIN queue' = 1..(Len(queue) - 1)
        /\ Len(queue) \in Nat \ {0}
        /\ \A i \in 1..(Len(queue) - 1) : queue'[i] = queue[i + 1]
        /\ queue[1] = j
    BY <1>3 DEF Take
  <2>2. {k \in Jobs : resv'[k] = "queued"} = {k \in Jobs : resv[k] = "queued"} \ {j}
    BY <1>3 DEF Take
  <2>3. \A i \in 2..Len(queue) : queue[i] # j
    BY <2>1
  <2>4. \A i \in 2..Len(queue) : i - 1 \in DOMAIN queue' /\ queue'[i - 1] = queue[i]
    BY <2>1
  <2>5. {queue'[i] : i \in DOMAIN queue'} = {queue[i] : i \in DOMAIN queue} \ {j}
    <3>1. ASSUME NEW x, x \in {queue'[i] : i \in DOMAIN queue'}
          PROVE  x \in {queue[i] : i \in DOMAIN queue} /\ x # j
      <4>1. PICK i \in 1..(Len(queue) - 1) : x = queue'[i]
        BY <2>1, <3>1
      <4>2. x = queue[i + 1] /\ i + 1 \in 2..Len(queue)
        BY <2>1, <4>1
      <4> QED
        BY <2>1, <2>3, <4>2
    <3>2. ASSUME NEW x, x \in {queue[i] : i \in DOMAIN queue}, x # j
          PROVE  x \in {queue'[i] : i \in DOMAIN queue'}
      <4>1. PICK i \in 2..Len(queue) : x = queue[i]
        BY <2>1, <3>2
      <4> QED
        BY <2>4, <4>1
    <3> QED
      BY <3>1, <3>2
  <2>6. ASSUME NEW i \in DOMAIN queue', NEW k \in DOMAIN queue', queue'[i] = queue'[k]
        PROVE  i = k
    <3>1. /\ i \in 1..(Len(queue) - 1) /\ k \in 1..(Len(queue) - 1)
          /\ i + 1 \in DOMAIN queue /\ k + 1 \in DOMAIN queue
          /\ queue[i + 1] = queue[k + 1]
      BY <2>1, <2>6
    <3>2. i + 1 = k + 1
      BY <3>1
    <3> QED
      BY <3>1, <3>2
  <2> QED
    BY <2>2, <2>5, <2>6
<1>4. ASSUME NEW j \in Jobs,
             Reserve(j) \/ SubmitRaises(j) \/ Cancel(j) \/ Release(j) \/ Retire(j)
      PROVE  QueueHoldsWaitingJobs'
  <2>1. queue' = queue
    BY <1>4 DEF Reserve, SubmitRaises, Cancel, Release, Retire
  <2>2. {k \in Jobs : resv'[k] = "queued"} = {k \in Jobs : resv[k] = "queued"}
    BY <1>4 DEF Reserve, SubmitRaises, Cancel, Release, Retire, Consumed, Statuses
  <2> QED
    BY <2>1, <2>2
<1> QED
  BY <1>1, <1>2, <1>3, <1>4 DEF JobsNext

(* The job a worker takes is one that waits.                               *)
LEMMA TakenJobWaits ==
  ASSUME JobsTypeOK, QueueHoldsWaitingJobs, NEW j \in Jobs, Take(j)
  PROVE  resv[j] = "queued"
<1>1. 1 \in DOMAIN queue /\ queue[1] = j
  BY DEF Take, JobsTypeOK
<1> QED
  BY <1>1 DEF QueueHoldsWaitingJobs, InState

(* Permits and outstanding reservations move in opposite directions.       *)
LEMMA AccountingStep ==
  ASSUME JobsInv, [JobsNext]_jobVars
  PROVE  (FinitelyMany /\ PermitsAccountedFor)'
<1> USE DEF JobsInv, FinitelyMany, PermitsAccountedFor
<1>0. permits \in Nat /\ Cardinality(Outstanding) \in Nat /\ Cardinality(BusyWorkers) \in Nat
  BY FS_CardinalityType DEF JobsTypeOK
<1>1. CASE UNCHANGED jobVars
  BY <1>1 DEF jobVars, Outstanding, BusyWorkers, InState, Capacity
<1>2. ASSUME NEW j \in Jobs, Reserve(j)
      PROVE  (FinitelyMany /\ PermitsAccountedFor)'
  <2>1. /\ j \notin Outstanding
        /\ Outstanding' = Outstanding \cup {j}
        /\ BusyWorkers' = BusyWorkers
    BY <1>2, SetMoves
  <2>2. IsFiniteSet(Outstanding') /\ Cardinality(Outstanding') = Cardinality(Outstanding) + 1
    BY <2>1, FS_AddElement
  <2> QED
    BY <1>0, <1>2, <2>1, <2>2, CapacityNat DEF Reserve, Capacity
<1>3. ASSUME NEW j \in Jobs,
             SubmitRaises(j) \/ (Cancel(j) /\ ~Consumed(j)) \/ Release(j)
      PROVE  (FinitelyMany /\ PermitsAccountedFor)'
  <2>1. /\ j \in Outstanding
        /\ Outstanding' = Outstanding \ {j}
        /\ BusyWorkers' = BusyWorkers
    BY <1>3, SetMoves
  <2>2. IsFiniteSet(Outstanding') /\ Cardinality(Outstanding') = Cardinality(Outstanding) - 1
    BY <2>1, FS_RemoveElement
  <2>3. permits' = permits + 1
    BY <1>3 DEF SubmitRaises, Cancel, Release
  <2> QED
    BY <1>0, <2>1, <2>2, <2>3, CapacityNat DEF Capacity
<1>4. ASSUME NEW j \in Jobs,
             Submit(j) \/ (Cancel(j) /\ Consumed(j)) \/ Take(j) \/ Retire(j)
      PROVE  (FinitelyMany /\ PermitsAccountedFor)'
  <2>1. Outstanding' = Outstanding /\ permits' = permits
    BY <1>4, SetMoves, TakenJobWaits DEF Submit, Cancel, Take, Retire
  <2>2. \/ BusyWorkers' = BusyWorkers
        \/ BusyWorkers' = BusyWorkers \cup {j}
        \/ BusyWorkers' = BusyWorkers \ {j}
    BY <1>4, SetMoves, TakenJobWaits
  <2>3. IsFiniteSet(BusyWorkers')
    BY <2>2, FS_AddElement, FS_RemoveElement
  <2> QED
    BY <2>1, <2>3 DEF Capacity
<1> QED
  BY <1>1, <1>2, <1>3, <1>4 DEF JobsNext

(* Only Take adds a busy worker, and it looks first.                       *)
LEMMA WorkersStep ==
  ASSUME JobsInv, [JobsNext]_jobVars
  PROVE  WorkersBounded'
<1> USE DEF JobsInv, FinitelyMany, WorkersBounded
<1>0. Cardinality(BusyWorkers) \in Nat /\ MaxWorkers \in Nat
  BY FS_CardinalityType, JobsAssumption
<1>1. CASE UNCHANGED jobVars
  BY <1>1 DEF jobVars, BusyWorkers, InState
<1>2. ASSUME NEW j \in Jobs, Take(j) PROVE WorkersBounded'
  <2>1. BusyWorkers' = BusyWorkers \cup {j}
    BY <1>2, SetMoves, TakenJobWaits
  <2>2. /\ Cardinality(BusyWorkers \cup {j}) \in Nat
        /\ Cardinality(BusyWorkers \cup {j}) <= Cardinality(BusyWorkers) + 1
    <3>1. Cardinality(BusyWorkers \cup {j})
            = IF j \in BusyWorkers THEN Cardinality(BusyWorkers)
                                   ELSE Cardinality(BusyWorkers) + 1
      BY FS_AddElement
    <3> QED
      BY <3>1, <1>0
  <2> QED
    BY <1>0, <1>2, <2>1, <2>2 DEF Take
<1>3. ASSUME NEW j \in Jobs,
             \/ Reserve(j) \/ Submit(j) \/ SubmitRaises(j) \/ Cancel(j)
             \/ Release(j) \/ Retire(j)
      PROVE  WorkersBounded'
  <2>1. BusyWorkers' = BusyWorkers \/ BusyWorkers' = BusyWorkers \ {j}
    BY <1>3, SetMoves
  <2>2. Cardinality(BusyWorkers \ {j})
          = IF j \in BusyWorkers THEN Cardinality(BusyWorkers) - 1
                                 ELSE Cardinality(BusyWorkers)
    BY FS_RemoveElement
  <2> QED
    BY <1>0, <2>1, <2>2
<1> QED
  BY <1>1, <1>2, <1>3 DEF JobsNext

(* The inductive invariant of the executor.                                *)
THEOREM JobsInvariant == JobsSpec => []JobsInv
<1>1. JobsInv /\ [JobsNext]_jobVars => JobsInv'
  BY JobsTypeStep, QueueStep, AccountingStep, WorkersStep DEF JobsInv
<1> QED
  BY JobsInitInv, <1>1, PTL DEF JobsSpec

(* No permit is ever lost or given back twice (curve_lab_jobs.py's         *)
(* _Reservation and guarded()), for any number of requests and any bound.  *)
THEOREM PermitsNeverLeak == JobsSpec => []PermitsAccountedFor
  BY JobsInvariant, PTL DEF JobsInv

(* The pool never runs more jobs than it has threads, the thread that has  *)
(* already given its permit back included.                                 *)
THEOREM PoolIsBounded == JobsSpec => []WorkersBounded
  BY JobsInvariant, PTL DEF JobsInv

(* Each accepted job waits in the queue exactly once until it is taken.    *)
THEOREM NoJobLostOrTwice == JobsSpec => []QueueHoldsWaitingJobs
  BY JobsInvariant, PTL DEF JobsInv

(* The executor with its semaphore, reservations and double cancels        *)
(* implements the abstract admission gate.                                 *)
THEOREM JobsImplementGate == JobsSpec => GateSpec
<1> USE DEF JobsInv, JobsTypeOK, Gate!avars
<1>1. JobsInit => Gate!AInit
  BY DEF JobsInit, Gate!AInit, Outstanding, InState
<1>2. ASSUME JobsInv, [JobsNext]_jobVars
      PROVE  [Gate!ANext]_(Gate!avars)
  <2> DEFINE gone == InState({"released", "done", "refused", "cancelled"})
  <2> USE <1>2
  <2>1. CASE UNCHANGED jobVars
    BY <2>1 DEF jobVars, Outstanding, InState
  <2>2. ASSUME NEW j \in Jobs, Reserve(j) PROVE Gate!AAdmit(j)
    <3>1. Outstanding' = Outstanding \cup {j} /\ j \notin Outstanding
      BY <2>2, SetMoves
    <3>2. gone' = gone /\ j \notin gone
      BY <2>2 DEF Reserve, InState
    <3>3. Cardinality(Outstanding) < Capacity
      BY <2>2, FS_CardinalityType, CapacityNat
      DEF Reserve, PermitsAccountedFor, FinitelyMany
    <3> QED
      BY <3>1, <3>2, <3>3 DEF Gate!AAdmit, Gate!Cardinality, Cardinality
  <2>3. ASSUME NEW j \in Jobs,
               SubmitRaises(j) \/ (Cancel(j) /\ ~Consumed(j)) \/ Release(j)
        PROVE  Gate!ARetire(j)
    <3>1. Outstanding' = Outstanding \ {j} /\ j \in Outstanding
      BY <2>3, SetMoves
    <3>2. gone' = gone \cup {j}
      BY <2>3 DEF SubmitRaises, Cancel, Release, InState, Consumed
    <3> QED
      BY <3>1, <3>2 DEF Gate!ARetire
  <2>4. ASSUME NEW j \in Jobs,
               Submit(j) \/ (Cancel(j) /\ Consumed(j)) \/ Take(j) \/ Retire(j)
        PROVE  UNCHANGED Gate!avars
    <3>1. Outstanding' = Outstanding
      BY <2>4, SetMoves, TakenJobWaits
    <3>2. gone' = gone
      BY <2>4, TakenJobWaits DEF Submit, Cancel, Take, Retire, InState, Consumed
    <3> QED
      BY <3>1, <3>2
  <2> QED
    BY <2>1, <2>2, <2>3, <2>4 DEF JobsNext, Gate!ANext
<1> QED
  BY <1>1, <1>2, JobsInvariant, PTL DEF JobsSpec, GateSpec, Gate!ASpec
=============================================================================
