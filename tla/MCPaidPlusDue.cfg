SPECIFICATION Spec
CONSTANTS
  s1 = s1
  o1 = o1
  r1 = r1
  r2 = r2
  r3 = r3
  r4 = r4
  None = None
  MoneyScale = 1
  Sales = {s1}
  Openings = {}
  Requests = {r1, r2, r3}
  Bill <- OneBill
  Amounts = {2}
  Rank <- OneSaleRank
INVARIANT PaidPlusDueIsGrandTotal
CHECK_DEADLOCK FALSE
