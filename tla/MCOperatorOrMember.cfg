CONSTANTS
  ann = ann
  bob = bob
  dora = dora
  otto = otto
  shop = shop
  branch = branch
  Users = {ann, bob, dora, otto}
  Tenants = {shop, branch}
  Requests = {1, 2, 3}
  None = None
  Staffed <- OneShop
  Joined <- Bob
  Operators = {otto}
  Asks <- Asked
SPECIFICATION Spec
ACTION_CONSTRAINT BeginInOrder
CHECK_DEADLOCK FALSE
INVARIANT NeverBoth
