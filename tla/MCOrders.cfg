SPECIFICATION Spec
CONSTANTS
  c1 = c1
  c2 = c2
  k1 = k1
  s1 = s1
  i1 = i1
  i2 = i2
  r1 = r1
  r2 = r2
  o1 = o1
  None = None
  Guest = Guest
  Admin = Admin
  OrderIds = {o1}
  Customers = {c1, c2}
  Cashiers = {k1}
  Stores = {s1}
  MenuItems = {i1, i2}
  Reqs = {r1, r2}
  Fee = 1
  Prices = {1}
  Purchases <- MCPurchases
  Amounts = {2}
  Edits <- MCEdits
SYMMETRY Symmetry
INVARIANTS
  TypeOK
  AwardsBounded
  FinishedOrderRewarded
  TotalCoversItems
  FeeFollowsType
  AwardIsCurrent
PROPERTIES
  ImplementsRewards
