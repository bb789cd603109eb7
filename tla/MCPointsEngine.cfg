SPECIFICATION Spec
CONSTANTS
  LevelIds = {bronze, silver}
  bronze = bronze
  silver = silver
  None = None
  u1 = u1
  u2 = u2
  coffee = coffee
  Users = {u1}
  Reqs = {r1, r2}
  LockKeys = {u1}
  LockKey <- OwnKeys
  RewardIds = {coffee}
  Ops <- MoneyOps
  InitLevels <- OnlyBronze
  LevelRows <- OnlySilverRow
  InitRewards <- MCInitRewards
  Prices = {2}
  InitSettings <- MCDefaultSettings
  DefaultSettings <- MCDefaultSettings
  SettingsRows <- NoRows
  NumericMax = 6
  MaxPostings = 3
SYMMETRY Interchangeable
INVARIANTS
  TypeOK
  OneWriterPerCustomer
  LedgerExplainsBalance
  SpendsOnlyWhatWasEarned
  RedemptionItemized
  HighestLevelWon
  EarningNeverDemotes
PROPERTIES
  PostingKeepsALevel
  OnlyRoundingDelaysALevel
  ImplementsLedger
CHECK_DEADLOCK FALSE
