CONSTANTS
  home = home
  Calls = {1, 2, 3}
  From = {home}
  Nowhere = Nowhere
  Mixes <- Everything
  Period = 2
  Limit = 1
  AddressLimit = 2
  RegisterLimit = 1
  LastTick = 2
  MaxOutages = 1
SPECIFICATION ThrottleSpec
INVARIANT AttemptsBounded
PROPERTY RefusedOnlyAtTheLimit
CHECK_DEADLOCK FALSE
