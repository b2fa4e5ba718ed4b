SPECIFICATION PricingSpec
CONSTANTS
  a = a
  b = b
  cashier = cashier
  owner = owner
  Nothing = Nothing
  MoneyScale = 1
  Items = {a, b}
  Clerks = {cashier, owner}
  Overrides = {owner}
  Settings <- RoleCeilings
  Price0 <- FirstPrices
  Rate0 <- FirstRates
  Costs = {1, 4}
  Updates <- ItemUpdates
  Stock0 <- Batches
  Results <- Found
  Fills <- Entries
ACTION_CONSTRAINTS OneClerk WhileAFormIsOpen
INVARIANTS ChargedAsPreviewed LinesAddUp NegativeOnlyNearZero DiscountBounded StockAtCost
CHECK_DEADLOCK FALSE
