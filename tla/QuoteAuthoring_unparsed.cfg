CONSTANTS
  None = None
  Families = {"DEPOSIT", "FUTURE"}
  Conventions <- MCConventions
  Lexemes = {"x", "y"}
  Scales = {4}
  DefaultForm <- MCDefaultForm
  DefaultDraft <- MCDefaultDraft
  Documents <- MCDocuments
  Topologies <- MCTopologies
  MaxToken = 2
  MaxGeneration = 3
  MaxRenders = 1
  MaxInFlight = 1
  MaxCalls = 1
SPECIFICATION Spec
PROPERTY OnlyTheQuoteChanges
CHECK_DEADLOCK FALSE
