--------------------------- MODULE MCPointsEngine ---------------------------
(***************************************************************************)
(* Small instances of PointsEngine for TLC.                                *)
(***************************************************************************)
EXTENDS PointsEngine, TLC

CONSTANTS u1, u2, bronze, silver, coffee

NoBasket == [w \in RewardIds |-> 0]

Credit(type, amount) ==
  [type |-> type, mode |-> "credit", amount |-> amount, basket |-> NoBasket]

Debit(type, amount, basket) ==
  [type |-> type, mode |-> "debit", amount |-> amount, basket |-> basket]

\* Every customer locks a key of its own.
OwnKeys == [u \in Users |-> u]

\* Bronze from nothing, earning a half per hundredth spent; silver from two
\* hundredths, earning three halves.
BronzeRow == [min |-> 0, rate |-> 1, sort |-> 0]
SilverRow == [min |-> 2, rate |-> 3, sort |-> 1]

\* Silver is created while customers earn, and bronze may become a second
\* silver.
OnlyBronze == [l \in LevelIds |-> IF l = bronze THEN BronzeRow ELSE None]
OnlySilverRow == {SilverRow}

MCDefaultSettings == [signup_bonus |-> 2, birthday_bonus |-> 1]
NoRows == {}
MCSettingsRows == {[signup_bonus |-> 1, birthday_bonus |-> 0]}

MCInitRewards == [w \in RewardIds |-> 1]

\* One operation of each kind: fractions of a hundredth, credits and debits.
MoneyOps ==
  {Credit("signup_bonus", 0), Credit("purchase_earn", 3),
   Credit("spin_reward", 1), Credit("spin_multiplier", 3),
   Debit("admin_adjustment", 1, NoBasket),
   Debit("redeem", 0, [w \in RewardIds |-> 2])}

\* The operation whose requests wait for each other beside the advisory lock.
WaitingOps == {Credit("signup_bonus", 0)}

\* Every catalogue of three levels, with any mix of minimums and sort orders,
\* and the period points, in half hundredths, that reach some or all of them.
Levels == INSTANCE PointsLevels WITH LevelIds <- 1 .. 3
MixedRows == [min : 0 .. 2, rate : {2}, sort : 0 .. 2]
MixedCatalogues == [1 .. 3 -> MixedRows \cup {None}]
PeriodPoints == 0 .. 6

\* The two promises below for all of these, computed once.
AlignedWins ==
  \A cat \in MixedCatalogues, p \in PeriodPoints :
     Levels!Aligned(cat) => Levels!HighestWon(cat, p)

DistinctRises ==
  \A cat \in MixedCatalogues, p, more \in PeriodPoints :
     Levels!DistinctSorts(cat) /\ p <= more => Levels!NeverLower(cat, p, more)

\* As long as the sort orders follow the minimums, resolveLevel gives the level
\* with the greatest minimum reached: in every small catalogue, and in that of
\* the moment for the points that customers have.
HighestLevelWon ==
  /\ AlignedWins
  /\ Aligned(levels) => \A u \in Users : HighestWon(levels, 2 * period[u])

\* As long as the sort orders are distinct, more points never resolve to an
\* earlier level or to none, earning cannot demote: in every small catalogue,
\* and in that of the moment for the points that customers have and one more.
EarningNeverDemotes ==
  /\ DistinctRises
  /\ DistinctSorts(levels) =>
       \A u \in Users : NeverLower(levels, 2 * period[u], 2 * period[u] + 2)

Interchangeable == Permutations(Reqs)
=============================================================================
