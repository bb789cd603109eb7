SPECIFICATION Spec
CONSTANTS
  None = None
  p1 = p1
  p2 = p2
  a1 = a1
  Phones = {p1, p2}
  Addresses = {a1}
  Purposes = {"REGISTER", "RESET_PASSWORD", "CHANGE_PHONE"}
  Sources <- MCSources
  Entering <- MCEntering
  MaxId = 4
  MaxAttempts = 2
  MaxLevel = 2
  Reqs = {r1, r2}
SYMMETRY Symmetry
VIEW View
INVARIANTS
  TypeOK
  PhoneLimitHolds
  CodesBounded
  GuessesBounded
  CodeUsesBounded
