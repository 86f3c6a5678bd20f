CONSTANTS
  Today = 1
  MaxStorage = 3
  MaxDimension = 3
  MaxJointFree = 6
  MaxInstruments = 4
  MaxCells = 12
  Runs = {1, 2, 3}
  Seeded = {1}
  NoRun = 0
  NoRequest = NoRequest
  Other = 99
  MaxDepth = 2
  MaxCrashes = 1
  MaxFaults = 1
  Requests <- MCRequests
  Companions <- MCCompanions
SPECIFICATION FairSpec
INVARIANT OneNativeCallAtATime
INVARIANT CompletionIsWhole
INVARIANT EvidenceDecides
PROPERTY RunsOnlyAdvance
PROPERTY AdmittedRunsProject
PROPERTY CalibrationsSettle
CHECK_DEADLOCK FALSE
