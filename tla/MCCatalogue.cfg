SPECIFICATION Spec
CONSTANTS
  None = None
  Menu = Menu
  Categories = {c1, c2}
  Items = {m1, m2}
  Rewards = {w1, w2}
  MaxPosition = 1
  Reqs = {r1, r2}
SYMMETRY Symmetry
CONSTRAINT OneSpoiled
INVARIANTS
  TypeOK
  PositionsDistinct
  OneRewardPerItem
