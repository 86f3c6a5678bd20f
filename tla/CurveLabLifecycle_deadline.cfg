CONSTANTS
  c1 = c1  c2 = c2  d1 = d1  d2 = d2  r1 = r1  r2 = r2
  v0 = v0  v1 = v1  v2 = v2  k1 = k1  k2 = k2  other = other
  plain = plain  copy = copy  linked = linked  broken = broken
  None = None
  Clients = {c1}
  Drafts = {d1}
  Runs = {r1, r2}
  Jobs = {r1, r2}
  Versions = {v1}
  Keys = {k1}
  Docs = {plain, copy}
  Deps <- MCDeps
  Imported = {}
  MaxWorkers = 1
  MaxQueued = 1
  MaxRevision = 2
  MaxCrashes = 0
  Perishable = {r1}
  MaxFaults = 0
SPECIFICATION Spec
PROPERTY NativeCallsWithinDeadline
CHECK_DEADLOCK FALSE
