SPECIFICATION Spec
CONSTANTS
  p1 = p1
  p2 = p2
  o1 = o1
  None = None
  MoneyScale = 1
  Purchases = {p1}
  Openings = {}
  Requests = {1, 2}
  Bill <- OneBill
  Amounts = {2}
  Rank <- OneDoc
  Repeats = TRUE
INVARIANT PayableAgreesWithLedger
CHECK_DEADLOCK FALSE
