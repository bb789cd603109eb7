SPECIFICATION Spec
CONSTANTS
  LevelIds = {bronze}
  bronze = bronze
  silver = silver
  None = None
  u1 = u1
  u2 = u2
  coffee = coffee
  Users = {u1, u2}
  Reqs = {r1, r2}
  LockKeys = {u1, u2}
  LockKey <- OwnKeys
  RewardIds = {}
  Ops <- WaitingOps
  InitLevels <- OnlyBronze
  LevelRows <- NoRows
  InitRewards <- MCInitRewards
  Prices = {}
  InitSettings = None
  DefaultSettings <- MCDefaultSettings
  SettingsRows <- MCSettingsRows
  NumericMax = 6
  MaxPostings = 2
PROPERTIES
  EveryRequestEnds
CHECK_DEADLOCK FALSE
