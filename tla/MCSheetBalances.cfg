SPECIFICATION ReportsSpec
CONSTANTS
  None = None
  Requests = {1, 2, 3}
  Keys = {1, 2, 3}
  LastDay = 2
  Temporary = {"income", "expense"}
  ManualLines <- Income
  ExpenseLines <- Cost
ACTION_CONSTRAINTS StartInOrder PeriodsOnly
INVARIANT SheetBalances
CHECK_DEADLOCK FALSE
