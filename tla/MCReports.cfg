SPECIFICATION ReportsSpec
CONSTANTS
  None = None
  Requests = {1, 2, 3, 4, 5}
  Keys = {1, 2, 3, 4, 5}
  LastDay = 3
  Temporary = {"income", "expense"}
  ManualLines <- Income
  ExpenseLines <- Cost
ACTION_CONSTRAINTS StartInOrder PeriodsOnly NextToASheet
INVARIANTS ClosedPeriodsDisjoint ClosedPeriodsContiguous ReopeningStaysInPeriod
PROPERTY RefusedOnlyByOverlap
CHECK_DEADLOCK FALSE
