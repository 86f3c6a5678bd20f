CONSTANTS
  p1 = p1  p2 = p2  m1 = m1  m2 = m2  t1 = t1  t2 = t2  t3 = t3  f1 = f1  f2 = f2
  None = None
  Products = {p1, p2}
  Models = {m1}
  Trades = {t1, t2, t3}
  Portfolios = {f1}
SPECIFICATION BooksSpec
INVARIANT NextPositionIsFree
CHECK_DEADLOCK FALSE
