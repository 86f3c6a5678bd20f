CONSTANTS
  j1 = j1  j2 = j2  NoTag = NoTag  None = None
  Jobs = {j1, j2}
  MaxWorkers = 2
  MaxQueued = 0
  Limits <- MCLimits
  Archives <- MCArchives
  Content <- MCContent
  MaxCrashes = 1
  MaxFaults = 1
SPECIFICATION FairSpec
INVARIANT NativeSeesReconstructible
INVARIANT ImportsPublishOnce
PROPERTY TerminalImportsImmutable
PROPERTY ImportsSettle
CHECK_DEADLOCK FALSE
