CONSTANTS
  c1 = c1  c2 = c2  d1 = d1  d2 = d2  r1 = r1  r2 = r2
  v0 = v0  v1 = v1  v2 = v2  k1 = k1  k2 = k2  other = other
  plain = plain  copy = copy  linked = linked  broken = broken
  None = None
  Clients = {c1, c2}
  Drafts = {d1}
  Runs = {r1, r2}
  Jobs = {r1, r2}
  Versions = {v1, v2}
  Keys = {k1, k2}
  Docs = {plain, linked}
  Deps <- MCDeps
  Imported = {}
  MaxWorkers = 1
  MaxQueued = 0
  MaxRevision = 2
  MaxCrashes = 0
  Perishable = {}
  MaxFaults = 0
SPECIFICATION Spec
SYMMETRY MCSymmetry
INVARIANT RevisionNamesOneDocument
INVARIANT VersionMatchesBuild
INVARIANT KeysUnique
INVARIANT BuildEvidenceHolds
PROPERTY VersionsImmutable
PROPERTY NoPublicationOnArchivedDependency
PROPERTY LibrarySpec
CHECK_DEADLOCK FALSE
