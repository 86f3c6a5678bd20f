CONSTANTS
  j1 = j1
  j2 = j2
  j3 = j3
  j4 = j4
  j5 = j5
  Jobs <- MCJobs
  MaxWorkers = 2
  MaxQueued = 1
SPECIFICATION FairJobsSpec
INVARIANT PermitsAccountedFor
INVARIANT QueueHoldsWaitingJobs
PROPERTY GateSpec
PROPERTY SubmittedWorkFinishes
CHECK_DEADLOCK FALSE
