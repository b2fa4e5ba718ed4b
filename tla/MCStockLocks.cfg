SPECIFICATION Spec
CONSTANTS
  w1 = w1
  w2 = w2
  b1 = b1
  b2 = b2
  b3 = b3
  cola = cola
  soap = soap
  None = None
  Unread = Unread
  Requests = {1, 2, 3}
  Kinds = {"sale", "purchase", "cancel"}
  Positions <- All
  Orders <- Crossed
  InitialStock <- Stocked
  Batches = {b1, b2, b3}
  FifoItems = {cola}
  Rank <- LockRank
  Age <- BatchAge
ACTION_CONSTRAINT BeginInOrder
INVARIANT SalesNeverDeadlock
PROPERTY EveryRequestEnds
CHECK_DEADLOCK FALSE
