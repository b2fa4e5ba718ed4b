SPECIFICATION Spec
CONSTANTS
  None = None
  Requests = {1, 2, 3}
  Keys = {1, 2, 3}
  LastDay = 2
  Temporary = {"income", "expense"}
  ManualLines <- Income
  ExpenseLines <- Cost
ACTION_CONSTRAINT StartInOrder
INVARIANT ManualAnswersMatch
CHECK_DEADLOCK FALSE
