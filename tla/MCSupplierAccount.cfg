SPECIFICATION Spec
CONSTANTS
  p1 = p1
  p2 = p2
  o1 = o1
  None = None
  MoneyScale = 1
  Purchases = {p1, p2}
  Openings = {o1}
  Requests = {1, 2, 3, 4}
  Bill <- TwoBills
  Amounts = {2}
  Rank <- ThreeDocs
  Repeats = FALSE
ACTION_CONSTRAINTS BeginInOrder EitherScenario
INVARIANTS TypeOK PayableAgreesWithLedger MoneyWithinBill FullReturnSettles LocksNeverDeadlock
CHECK_DEADLOCK FALSE
