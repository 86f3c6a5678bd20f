CONSTANTS
  None = None
  Families = {"DEPOSIT", "FUTURE"}
  Conventions <- MCConventions
  Lexemes = {"x", "y"}
  Scales = {4}
  DefaultForm <- MCDefaultForm
  DefaultDraft <- MCDefaultDraft
  Documents <- MCDocuments
  Topologies <- MCTopologies
  MaxToken = 2
  MaxGeneration = 3
  MaxRenders = 2
  MaxInFlight = 2
  MaxCalls = 2
SPECIFICATION Spec
INVARIANT PanelShowsTheForm
PROPERTY AppliedAsMeant
CHECK_DEADLOCK FALSE
