SPECIFICATION Spec
CONSTANTS
  u1 = u1
  p1 = p1
  p2 = p2
  p3 = p3
  r1 = r1
  r2 = r2
  None = None
  Users = {u1}
  Reqs = {r1, r2}
  LockKeys = {u1}
  LockKey <- OwnKeys
  PrizeIds = {p1, p2, p3}
  InitPrizes <- OnePrize
  Configs <- MCConfigs
  InitCooldown = None
  DefaultCooldown = 1
  BasisPoints = 10
  MaxTime = 1
INVARIANTS
  TypeOK
  WheelAddsUp
  SharesBounded
PROPERTIES
  EveryRequestEnds
  ImplementsTurns
