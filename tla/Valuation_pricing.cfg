CONSTANTS
  p1 = p1  p2 = p2  m1 = m1  t1 = t1  t2 = t2  f1 = f1  v1 = v1
  None = None
  Models = {m1}
  Portfolios = {f1}
  Products = {p1, p2}
  Trades = {t1, t2}
  Valuations = {v1}
  MaxCrashes = 2
  MaxFaults = 1
SPECIFICATION FairSpec
INVARIANT TypeOK
INVARIANT RunningHasTask
INVARIANT PricedOnceInOrder
INVARIANT ReferencesHold
INVARIANT SameMembers
PROPERTY SettledStays
PROPERTY ValuationsSettle
CHECK_DEADLOCK FALSE
