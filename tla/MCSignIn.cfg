CONSTANTS
  Requests = {1, 2, 3}
  Old = 0
  None = None
  Plans <- Everything
  Idle = 1
  Absolute = 2
  Window = 1
  MaxFailures = 1
  PoolSize = 2
  MaxTime = 3
SPECIFICATION Spec
ACTION_CONSTRAINT Scenario
INVARIANT SessionsFollowPassword
PROPERTIES NeverExtended EveryRequestEnds
CHECK_DEADLOCK FALSE
