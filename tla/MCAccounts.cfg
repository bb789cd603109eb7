SPECIFICATION Spec
CONSTANTS
  None = None
  Users = {u1, u2}
  Phones = {p1, p2}
  Customer = Customer
  Cashier = Cashier
  Roles = {Customer, Cashier}
  Stores = {s1}
  Changes <- MCChanges
  Reqs = {r1, r2}
SYMMETRY Symmetry
VIEW View
INVARIANTS
  TypeOK
  SignupBonusOnce
  VerifiedPhoneProven
  ConfirmationsBounded
  OnlyCashiersHaveStores
