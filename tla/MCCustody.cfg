CONSTANTS
  ann = ann
  bob = bob
  tea = tea
  salt = salt
  Reps = {ann, bob}
  Goods = {tea, salt}
  Requests = {1, 2, 3}
  Keys = {1, 2}
  Costs = {3, 5}
  MoneyScale = 2
  PoolSize = 3
  None = None
  Unread = Unread
  Orders <- Amounts
SPECIFICATION Spec
ACTION_CONSTRAINT Scenario
INVARIANTS AccountCarriesCustody OneEffectPerKey
PROPERTIES LedgerSpec EveryRequestEnds
CHECK_DEADLOCK FALSE
