SPECIFICATION Spec
CONSTANTS
  None = None
  Requests = {1, 2, 3, 4}
  Keys = {1, 2, 3}
  LastDay = 2
  Temporary = {"income", "expense"}
  ManualLines <- Income
  ExpenseLines <- Cost
ACTION_CONSTRAINTS StartInOrder
INVARIANT FirstCloseZeroesOut
PROPERTY ClosedBooksAreFrozen
CHECK_DEADLOCK FALSE
