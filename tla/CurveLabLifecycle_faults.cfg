CONSTANTS
  c1 = c1  c2 = c2  d1 = d1  d2 = d2  r1 = r1  r2 = r2
  v0 = v0  v1 = v1  v2 = v2  k1 = k1  k2 = k2  other = other
  plain = plain  copy = copy  linked = linked  broken = broken
  None = None
  Clients = {c1, c2}
  Drafts = {d1}
  Runs = {r1}
  Jobs = {r1, other}
  Versions = {v0, v1}
  Keys = {k1}
  Docs = {plain, linked, broken}
  Deps <- MCDeps
  Imported = {v0}
  MaxWorkers = 1
  MaxQueued = 1
  MaxRevision = 1
  MaxCrashes = 1
  Perishable = {r1}
  MaxFaults = 1
SPECIFICATION FairSpec
INVARIANT TypeOK
INVARIANT OneWriterPerRow
INVARIANT NoOrphanRows
INVARIANT AuditTruthful
PROPERTY TerminalBuildsImmutable
PROPERTY BuildsSettle
CHECK_DEADLOCK FALSE
