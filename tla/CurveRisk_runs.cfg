CONSTANTS
  None = None
  Jobs <- MCJobs
  MaxWorkers = 1
  MaxQueued = 1
  MaxWord = 60
  Limits <- MCLimits
  Cost <- MCCost
  Workloads <- MCWorkloads
  MaxCrashes = 1
  MaxFaults = 1
SPECIFICATION FairSpec
INVARIANT WorkIsBounded
INVARIANT MatricesAreTruthful
PROPERTY OutcomesStand
PROPERTY RiskRunsSettle
CHECK_DEADLOCK FALSE
