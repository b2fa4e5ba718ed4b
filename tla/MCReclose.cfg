SPECIFICATION Spec
CONSTANTS
  None = None
  Requests = {1, 2, 3, 4}
  Keys = {1, 2, 3, 4}
  LastDay = 2
  Temporary = {"income", "expense"}
  ManualLines <- Income
  ExpenseLines <- Cost
ACTION_CONSTRAINT StartInOrder
INVARIANT ClosedPeriodsAreZeroedOut
CHECK_DEADLOCK FALSE
