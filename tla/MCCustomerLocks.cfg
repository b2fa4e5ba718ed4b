SPECIFICATION Spec
CONSTANTS
  s1 = s1
  o1 = o1
  r1 = r1
  r2 = r2
  r3 = r3
  r4 = r4
  None = None
  MoneyScale = 1
  Sales = {s1}
  Openings = {o1}
  Requests = {1, 2, 3, 4}
  Bill <- UnitBill
  Amounts = {2}
  Rank <- SaleAndOpeningRank
ACTION_CONSTRAINTS BeginInOrder CashAndNoReturns
INVARIANTS MoneyWithinBill
PROPERTY EveryRequestEnds
CHECK_DEADLOCK FALSE
