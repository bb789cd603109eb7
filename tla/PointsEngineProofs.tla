------------------------- MODULE PointsEngineProofs -------------------------
(***************************************************************************)
(* Proofs about PointsEngine, for any number of customers, requests,       *)
(* levels and rewards, any catalogue edits and any hash of the lock.       *)
(*                                                                         *)
(* The balance of a customer is only written by the request that holds     *)
(* the customer's lock, from a balance it read under that lock.  The       *)
(* inductive invariant says so of every request in flight (RowOK) and adds *)
(* what a request has established by the time it writes: the sign of what  *)
(* it posts and that a debit is covered.                                   *)
(***************************************************************************)
EXTENDS PointsEngine, SumLemmas, TLAPS

\* The steps after the state was read under the lock.
Informed == Locked \ {"locked"}

\* What holds of row when it is the row of request r.
RowOK(r, row) ==
  /\ row.pc # "idle" =>
       /\ row.user \in Users
       /\ row.op \in Ops
       /\ row.op.type = "spin_multiplier" => row.op.amount > 2
  /\ row.pc \in Locked => lock[LockKey[row.user]] = r
  /\ row.pc \in Informed =>
       row.bal = balance[row.user] /\ row.per = period[row.user]
  /\ row.pc = "create" => row.op.type \in Bonuses
  /\ row.pc \in {"next", "write"} =>
       IF row.op.mode = "credit" THEN row.delta >= 0 ELSE row.delta <= 0
  /\ row.pc = "write" => 2 * row.bal + row.delta >= 0

RequestsOK == \A r \in Reqs : RowOK(r, req[r])

\* The inductive invariant.
IInv ==
  /\ TypeOK
  /\ RequestsOK
  /\ LedgerExplainsBalance
  /\ SpendsOnlyWhatWasEarned

-----------------------------------------------------------------------------
(* Rounding and arithmetic. *)

\* Rounding yields an integer, a natural for what is not negative.
LEMMA StoredType ==
  /\ \A h \in Int : Stored(h) \in Int
  /\ \A h \in Nat : Stored(h) \in Nat
  BY DEF Stored

\* Rounding keeps the order and changes no whole hundredth.
LEMMA StoredMonotone ==
  /\ \A h, k \in Int : h <= k => Stored(h) <= Stored(k)
  /\ \A h \in Nat : Stored(2 * h) = h
  BY DEF Stored

\* The rounded balance is the old one plus the rounded points, or one more
\* when points were taken.
LEMMA StoredSum ==
  \A b \in Nat, d \in Int :
     2 * b + d >= 0 =>
       \/ Stored(2 * b + d) = b + Stored(d)
       \/ Stored(d) < 0 /\ Stored(2 * b + d) = b + Stored(d) + 1
  BY DEF Stored

\* SMT does no products of variables on its own.
LEMMA ProductType == \A m, n \in Nat : m * n \in Nat
  OBVIOUS

\* A resolved level is the id of a row, or none.
LEMMA ResolveLevelType ==
  ASSUME NEW cat, NEW p
  PROVE  ResolveLevel(cat, p) \subseteq LevelsOf(cat) \cup {None}
<1> SUFFICES ASSUME NEW l \in ResolveLevel(cat, p), l # None
             PROVE  l \in LevelsOf(cat)
  OBVIOUS
<1>1. PICK s \in SortedLevels(cat) : \E n \in DOMAIN s : l = s[n]
  BY DEF ResolveLevel
<1>2. s \in [1 .. Cardinality(LevelsOf(cat)) -> LevelsOf(cat)]
  BY DEF SortedLevels, SetToSeqs
<1> QED
  BY <1>1, <1>2

-----------------------------------------------------------------------------
(* The invariant's steps. *)

\* A slot with no request has its type and owes nothing.
LEMMA IdleOK == Idle \in ReqRow /\ \A r : RowOK(r, Idle)
  BY DEF Idle, ReqRow, RowOK, Locked, Informed

\* The invariant holds at the start.
LEMMA InitInvariant == Init => IInv
<1> SUFFICES ASSUME Init PROVE IInv
  OBVIOUS
<1> USE EngineAssumption, LevelNoneAssumption DEF Init
<1>1. TypeOK
  BY IdleOK DEF TypeOK, LevelsOf
<1>2. RequestsOK
  BY IdleOK DEF RequestsOK
<1>3. LedgerExplainsBalance
  BY DEF LedgerExplainsBalance, Accounted, Before
<1>4. SpendsOnlyWhatWasEarned
  BY DEF SpendsOnlyWhatWasEarned
<1> QED
  BY <1>1, <1>2, <1>3, <1>4 DEF IInv

\* A step of a request that only changes its own row.
LEMMA LocalStep ==
  ASSUME IInv, NEW r \in Reqs, NEW row \in ReqRow, RowOK(r, row),
         req' = [req EXCEPT ![r] = row], Local
  PROVE  IInv'
<1> USE DEF IInv, Local, stateVars, adminVars
<1>1. TypeOK'
  BY DEF TypeOK
<1>2. RequestsOK'
  BY DEF RequestsOK, RowOK, TypeOK
<1>3. LedgerExplainsBalance'
  BY DEF LedgerExplainsBalance, Accounted, Before
<1>4. SpendsOnlyWhatWasEarned'
  BY DEF SpendsOnlyWhatWasEarned
<1> QED
  BY <1>1, <1>2, <1>3, <1>4

\* The locks of the other requests survive the end of r.
LEMMA EndStep ==
  ASSUME TypeOK, RequestsOK, NEW r \in Reqs, End(r)
  PROVE  /\ req' \in [Reqs -> ReqRow]
         /\ lock' \in [LockKeys -> Reqs \cup {None}]
         /\ req'[r] = Idle
         /\ \A q \in Reqs \ {r} :
              /\ req'[q] = req[q]
              /\ req[q].pc \in Locked =>
                   lock'[LockKey[req[q].user]] = q
<1> USE EngineAssumption
<1>1. req' \in [Reqs -> ReqRow] /\ req'[r] = Idle
  BY IdleOK DEF TypeOK, End
<1>2. lock' \in [LockKeys -> Reqs \cup {None}]
  BY DEF TypeOK, End
<1>3. ASSUME NEW q \in Reqs \ {r}
      PROVE  /\ req'[q] = req[q]
             /\ req[q].pc \in Locked => lock'[LockKey[req[q].user]] = q
  <2>1. req'[q] = req[q]
    BY DEF TypeOK, End
  <2>2. ASSUME req[q].pc \in Locked
        PROVE  lock'[LockKey[req[q].user]] = q
    <3>1. req[q].user \in Users /\ lock[LockKey[req[q].user]] = q
      BY <2>2 DEF RequestsOK, RowOK, Locked
    <3> QED
      BY <3>1 DEF End
  <2> QED
    BY <2>1, <2>2
<1> QED
  BY <1>1, <1>2, <1>3

\* A request that throws rolls back and gives up its locks.
LEMMA ThrowStep ==
  ASSUME IInv, NEW r \in Reqs, Throw(r)
  PROVE  IInv'
<1> USE DEF IInv, Throw, stateVars, adminVars
<1>1. TypeOK'
  BY EndStep DEF TypeOK
<1>2. RequestsOK'
  <2>1. RowOK(r, req[r])'
    BY EndStep, IdleOK DEF RowOK, Idle, Locked, Informed
  <2>2. ASSUME NEW q \in Reqs \ {r} PROVE RowOK(q, req[q])'
    BY EndStep DEF RequestsOK, RowOK
  <2> QED
    BY <2>1, <2>2 DEF RequestsOK
<1>3. LedgerExplainsBalance'
  BY DEF LedgerExplainsBalance, Accounted, Before
<1>4. SpendsOnlyWhatWasEarned'
  BY DEF SpendsOnlyWhatWasEarned
<1> QED
  BY <1>1, <1>2, <1>3, <1>4

\* The steps before the lock.
LEMMA BeforeLockSteps ==
  ASSUME IInv, NEW r \in Reqs,
         \/ \E u \in Users, op \in Ops : Start(r, u, op)
         \/ ReadRewards(r)
         \/ CheckFunds(r)
  PROVE  IInv'
<1> USE DEF IInv, BeforeLock
<1>r. req[r] \in ReqRow /\ RowOK(r, req[r])
  BY DEF TypeOK, RequestsOK
<1>1. ASSUME NEW u \in Users, NEW op \in Ops, Start(r, u, op)
      PROVE  IInv'
  <2> DEFINE row == [req[r] EXCEPT !.pc = IF op.type = "redeem" THEN "rewards"
                                                                ELSE "queued",
                                   !.user = u, !.op = op]
  <2>1. row \in ReqRow /\ RowOK(r, row)
    BY <1>r, <1>1 DEF Start, ReqRow, RowOK, Locked, Informed
  <2>2. req' = [req EXCEPT ![r] = row] /\ Local
    BY <1>1 DEF Start, TypeOK
  <2> QED
    BY <2>1, <2>2, LocalStep
<1>2. CASE ReadRewards(r)
  <2>1. CASE Throw(r)
    BY <2>1, ThrowStep
  <2>2. CASE ~Throw(r)
    <3> DEFINE lines == {[reward |-> w, quantity |-> OpOf(r).basket[w],
                          price |-> rewards[w]] : w \in Basket(OpOf(r))}
               row == [req[r] EXCEPT !.pc = "funds", !.lines = lines,
                                     !.cost = Cost(lines)]
    <3>1. /\ \A w \in Basket(OpOf(r)) : rewards[w] # None
          /\ Cost(lines) \in Nat
          /\ req' = [req EXCEPT ![r].pc = "funds", ![r].lines = lines,
                                ![r].cost = Cost(lines)]
          /\ Local
      BY <1>2, <2>2 DEF ReadRewards
    <3>2. OpOf(r) \in Op
      BY <1>2, <1>r, EngineAssumption DEF ReadRewards, RowOK, OpOf
    <3>3. lines \in SUBSET Line
      <4>1. ASSUME NEW w \in Basket(OpOf(r))
            PROVE  /\ w \in RewardIds
                   /\ OpOf(r).basket[w] \in Nat
                   /\ rewards[w] \in Nat
        BY <3>1, <3>2 DEF Basket, Op, TypeOK
      <4>2. ASSUME NEW w \in Basket(OpOf(r))
            PROVE  [reward |-> w, quantity |-> OpOf(r).basket[w],
                    price |-> rewards[w]] \in Line
        BY <4>1 DEF Line
      <4> QED
        BY <4>2
    <3>4. row \in ReqRow /\ RowOK(r, row)
      <4> HIDE DEF lines
      <4> QED
        BY <1>2, <1>r, <3>1, <3>3 DEF ReadRewards, ReqRow, RowOK, Locked, Informed
    <3>5. req' = [req EXCEPT ![r] = row]
      BY <3>1 DEF TypeOK
    <3> QED
      BY <3>1, <3>4, <3>5, LocalStep
  <2> QED
    BY <2>1, <2>2
<1>3. CASE CheckFunds(r)
  <2>1. CASE Throw(r)
    BY <2>1, ThrowStep
  <2>2. CASE ~Throw(r)
    <3> DEFINE row == [req[r] EXCEPT !.pc = "queued"]
    <3>1. req' = [req EXCEPT ![r] = row] /\ Local
      BY <1>3, <2>2 DEF CheckFunds, TypeOK
    <3>2. row \in ReqRow /\ RowOK(r, row)
      BY <1>3, <1>r DEF CheckFunds, ReqRow, RowOK, Locked, Informed
    <3> QED
      BY <3>1, <3>2, LocalStep
  <2> QED
    BY <2>1, <2>2
<1> QED
  BY <1>1, <1>2, <1>3

\* Taking a lock nobody holds takes it from nobody.
LEMMA AcquireStep ==
  ASSUME IInv, NEW r \in Reqs, Acquire(r)
  PROVE  IInv'
<1> USE EngineAssumption DEF IInv, Acquire, stateVars, adminVars
<1>r. req[r].user \in Users /\ User(r) = req[r].user
  BY DEF RequestsOK, RowOK, User
<1>1. TypeOK'
  <2>1. lock' \in [LockKeys -> Reqs \cup {None}]
    BY <1>r DEF TypeOK
  <2>2. [req[r] EXCEPT !.pc = "locked"] \in ReqRow
    <3>1. req[r] \in ReqRow
      BY DEF TypeOK
    <3>2. "locked" \in Locked
      BY DEF Locked
    <3> HIDE DEF IInv, Acquire
    <3> QED
      BY <3>1, <3>2 DEF ReqRow
  <2>3. req' \in [Reqs -> ReqRow]
    BY <2>2 DEF TypeOK
  <2> QED
    BY <2>1, <2>3 DEF TypeOK
<1>2. RequestsOK'
  <2>1. RowOK(r, req[r])'
    BY <1>r DEF TypeOK, RequestsOK, RowOK, ReqRow, Locked, Informed
  <2>2. ASSUME NEW q \in Reqs \ {r} PROVE RowOK(q, req[q])'
    BY <1>r DEF TypeOK, RequestsOK, RowOK, ReqRow, Locked, Informed
  <2> QED
    BY <2>1, <2>2 DEF RequestsOK
<1>3. LedgerExplainsBalance'
  BY DEF LedgerExplainsBalance, Accounted, Before
<1>4. SpendsOnlyWhatWasEarned'
  BY DEF SpendsOnlyWhatWasEarned
<1> QED
  BY <1>1, <1>2, <1>3, <1>4

\* The reads under the lock.
LEMMA ReadSteps ==
  ASSUME IInv, NEW r \in Reqs, ReadState(r) \/ ReadLevel(r)
  PROVE  IInv'
<1> USE DEF IInv
<1>r. req[r] \in ReqRow /\ RowOK(r, req[r])
  BY DEF TypeOK, RequestsOK
<1>1. CASE ReadState(r)
  <2>1. CASE Throw(r)
    BY <2>1, ThrowStep
  <2>2. CASE ~Throw(r)
    <3> DEFINE row == [req[r] EXCEPT !.pc = "level",
                                     !.bal = balance[User(r)],
                                     !.per = period[User(r)],
                                     !.lvl = level[User(r)]]
    <3>1. req' = [req EXCEPT ![r] = row] /\ Local
      BY <1>1, <2>2 DEF ReadState, TypeOK
    <3>2. row \in ReqRow /\ RowOK(r, row)
      BY <1>1, <1>r DEF ReadState, TypeOK, ReqRow, RowOK, User, Locked, Informed
    <3> QED
      BY <3>1, <3>2, LocalStep
  <2> QED
    BY <2>1, <2>2
<1>2. CASE ReadLevel(r)
  <2> DEFINE found == IF req[r].lvl # None
                      THEN {IF levels[req[r].lvl] # None THEN req[r].lvl ELSE None}
                      ELSE ResolveLevel(levels, 2 * req[r].per)
  <2>0. found \subseteq LevelsOf(levels) \cup {None}
    BY <1>r, ResolveLevelType DEF ReqRow, LevelsOf
  <2>1. PICK cur \in LevelsOf(levels) \cup {None} :
          req' = [req EXCEPT ![r].pc = "points", ![r].cur = cur,
                             ![r].rate = IF cur = None THEN 0
                                                       ELSE levels[cur].rate]
    <3>1. \E cur \in found :
            req' = [req EXCEPT ![r].pc = "points", ![r].cur = cur,
                               ![r].rate = IF cur = None THEN 0
                                                         ELSE levels[cur].rate]
      BY <1>2 DEF ReadLevel
    <3> QED
      BY <2>0, <3>1
  <2> DEFINE rate == IF cur = None THEN 0 ELSE levels[cur].rate
  <2>2. rate \in Nat
    <3>1. cur = None \/ levels[cur] \in LevelRow
      BY DEF TypeOK, Catalogue, LevelsOf
    <3> QED
      BY <3>1 DEF LevelRow
  <2> DEFINE row == [req[r] EXCEPT !.pc = "points", !.cur = cur, !.rate = rate]
  <2>3. req' = [req EXCEPT ![r] = row] /\ Local
    BY <1>2, <2>1 DEF ReadLevel, TypeOK
  <2>4. row \in ReqRow /\ RowOK(r, row)
    BY <1>2, <1>r, <2>2 DEF ReadLevel, ReqRow, RowOK, Locked, Informed, LevelsOf
  <2> QED
    BY <2>3, <2>4, LocalStep
<1> QED
  BY <1>1, <1>2

\* The row of a request whose points are known.
LEMMA NextRowType ==
  ASSUME NEW q \in ReqRow, NEW e \in Int
  PROVE  [q EXCEPT !.pc = "next", !.delta = e] \in ReqRow
  BY DEF ReqRow, Locked

\* The callbacks: each sets the points to post, of the sign of its mode.
LEMMA ResolvedStep ==
  ASSUME IInv, NEW r \in Reqs, NEW delta \in Int, req[r].pc = "points",
         IF OpOf(r).mode = "credit" THEN delta >= 0 ELSE delta <= 0,
         Resolved(r, delta)
  PROVE  IInv'
<1> DEFINE row == [req[r] EXCEPT !.pc = "next", !.delta = delta]
<1>1. req[r] \in ReqRow /\ RowOK(r, req[r])
  BY DEF IInv, TypeOK, RequestsOK
<1>2. req' = [req EXCEPT ![r] = row] /\ Local
  BY DEF IInv, Resolved, TypeOK
<1>3. row \in ReqRow /\ RowOK(r, row)
  BY <1>1 DEF ReqRow, RowOK, OpOf, Locked, Informed
<1> QED
  BY <1>2, <1>3, LocalStep

\* Each entry point's callback: awardSignupBonus to adminAdjustment.
LEMMA ResolveSteps ==
  ASSUME IInv, NEW r \in Reqs,
         \/ ResolveBonus(r) \/ ResolvePurchase(r) \/ ResolveSpinReward(r)
         \/ ResolveMultiplier(r) \/ ResolveRedeem(r) \/ ResolveAdjustment(r)
  PROVE  IInv'
<1>r. /\ req[r] \in ReqRow
      /\ RowOK(r, req[r])
      /\ req[r].pc = "points"
  BY DEF IInv, TypeOK, RequestsOK, Resolving, ResolveBonus, ResolvePurchase,
         ResolveSpinReward, ResolveMultiplier, ResolveRedeem, ResolveAdjustment
<1>o. /\ OpOf(r) \in Ops
      /\ OpOf(r) \in Op
      /\ OpOf(r).type = "spin_multiplier" => OpOf(r).amount > 2
  BY <1>r, EngineAssumption DEF RowOK, OpOf
<1>m. /\ OpOf(r).mode \in {"credit", "debit"}
      /\ OpOf(r).amount \in Nat
      /\ OpOf(r).mode = "debit" => OpOf(r).type \in {"redeem", "admin_adjustment"}
      /\ OpOf(r).type = "redeem" => OpOf(r).mode = "debit"
  BY <1>o, EngineAssumption DEF Op
<1>n. req[r].bal \in Nat /\ req[r].rate \in Nat /\ req[r].cost \in Nat
  BY <1>r DEF ReqRow
<1>1. CASE ResolveBonus(r)
  <2>1. PICK type \in Bonuses :
          /\ Resolving(r, type)
          /\ IF settings # None
             THEN Resolved(r, 2 * settings[type])
             ELSE req' = [req EXCEPT ![r].pc = "create"] /\ Local
    BY <1>1 DEF ResolveBonus
  <2>2. OpOf(r).mode = "credit"
    BY <1>m, <2>1 DEF Resolving, Bonuses
  <2>3. CASE settings # None
    <3>1. 2 * settings[type] \in Nat
      BY <2>3 DEF IInv, TypeOK, SettingsRow
    <3> QED
      BY <1>r, <2>1, <2>2, <2>3, <3>1, ResolvedStep
  <2>4. CASE settings = None
    <3> DEFINE row == [req[r] EXCEPT !.pc = "create"]
    <3>1. req' = [req EXCEPT ![r] = row] /\ Local
      BY <2>1, <2>4 DEF IInv, TypeOK
    <3>2. row \in ReqRow /\ RowOK(r, row)
      BY <1>r, <2>1 DEF ReqRow, RowOK, Locked, Informed, Resolving, OpOf
    <3> QED
      BY <3>1, <3>2, LocalStep
  <2> QED
    BY <2>3, <2>4
<1>2. CASE ResolvePurchase(r)
  <2>1. OpOf(r).mode = "credit"
    BY <1>2, <1>m DEF ResolvePurchase, Resolving
  <2>2. OpOf(r).amount * req[r].rate \in Nat
    BY <1>m, <1>n, ProductType
  <2>3. CASE Throw(r)
    BY <2>3, ThrowStep
  <2>4. CASE Resolved(r, OpOf(r).amount * req[r].rate)
    <3> DEFINE d == OpOf(r).amount * req[r].rate
    <3>1. d \in Nat /\ Resolved(r, d)
      BY <2>2, <2>4
    <3> HIDE DEF d
    <3> QED
      BY <1>r, <2>1, <3>1, ResolvedStep
  <2> QED
    BY <1>2, <2>3, <2>4 DEF ResolvePurchase
<1>3. CASE ResolveSpinReward(r)
  BY <1>3, <1>r, <1>m, ResolvedStep DEF ResolveSpinReward, Resolving
<1>4. CASE ResolveMultiplier(r)
  <2> DEFINE d == req[r].bal * (OpOf(r).amount - 2)
  <2>1. OpOf(r).amount - 2 \in Nat
    BY <1>4, <1>o, <1>m DEF ResolveMultiplier, Resolving
  <2>2. d \in Nat
    BY <2>1, <1>n, ProductType
  <2>3. OpOf(r).mode = "credit" /\ Resolved(r, d)
    BY <1>4, <1>m DEF ResolveMultiplier, Resolving
  <2> HIDE DEF d
  <2> QED
    BY <1>r, <2>2, <2>3, ResolvedStep
<1>5. CASE ResolveRedeem(r)
  BY <1>5, <1>r, <1>m, <1>n, ResolvedStep DEF ResolveRedeem, Resolving
<1>6. CASE ResolveAdjustment(r)
  <2> DEFINE d == IF OpOf(r).mode = "debit" THEN -OpOf(r).amount
                                            ELSE OpOf(r).amount
  <2>1. d \in Int /\ IF OpOf(r).mode = "credit" THEN d >= 0 ELSE d <= 0
    BY <1>m
  <2>2. Resolved(r, d)
    BY <1>6 DEF ResolveAdjustment
  <2> HIDE DEF d
  <2> QED
    BY <1>r, <2>1, <2>2, ResolvedStep
<1> QED
  BY <1>1, <1>2, <1>3, <1>4, <1>5, <1>6

\* Creating the settings row posts the default bonus.
LEMMA CreateSettingsStep ==
  ASSUME IInv, NEW r \in Reqs, CreateSettings(r)
  PROVE  IInv'
<1>1. CASE Throw(r)
  BY <1>1, ThrowStep
<1>2. CASE ~Throw(r)
  <2> DEFINE d == 2 * DefaultSettings[OpOf(r).type]
             row == [req[r] EXCEPT !.created = DefaultSettings,
                                   !.pc = "next", !.delta = d]
  <2>1. /\ req[r].pc = "create"
        /\ req' = [req EXCEPT ![r].created = DefaultSettings,
                              ![r].pc = "next", ![r].delta = d]
        /\ Local
    BY <1>2 DEF CreateSettings
  <2>r. req[r] \in ReqRow /\ RowOK(r, req[r])
    BY DEF IInv, TypeOK, RequestsOK
  <2>2. OpOf(r).type \in Bonuses /\ OpOf(r).mode = "credit"
    BY <2>1, <2>r, EngineAssumption DEF RowOK, OpOf, Op, Bonuses
  <2>3. d \in Nat
    BY <2>2, EngineAssumption DEF SettingsRow
  <2> HIDE DEF d
  <2>4. req' = [req EXCEPT ![r] = row]
    BY <2>1 DEF IInv, TypeOK
  <2>5. row \in ReqRow
    <3>1. DefaultSettings \in SettingsRow
      BY EngineAssumption
    <3>2. [req[r] EXCEPT !.created = DefaultSettings] \in ReqRow
      BY <2>r, <3>1 DEF ReqRow
    <3>3. d \in Int
      BY <2>3
    <3> QED
      BY <3>2, <3>3, NextRowType
  <2>6. RowOK(r, row)
    BY <2>1, <2>r, <2>2, <2>3 DEF ReqRow, RowOK, OpOf, Locked, Informed
  <2> QED
    BY <2>1, <2>4, <2>5, <2>6, LocalStep
<1> QED
  BY <1>1, <1>2

\* Only a covered debit gets to write.
LEMMA ResolveNextStep ==
  ASSUME IInv, NEW r \in Reqs, ResolveNext(r)
  PROVE  IInv'
<1>1. CASE Throw(r)
  BY <1>1, ThrowStep
<1>2. CASE ~Throw(r)
  <2>r. req[r] \in ReqRow /\ RowOK(r, req[r])
    BY DEF IInv, TypeOK, RequestsOK
  <2> DEFINE found == IF OpOf(r).mode = "credit"
                      THEN ResolveLevel(levels, NextPeriod(r))
                      ELSE {req[r].cur}
  <2>1. /\ req[r].pc = "next"
        /\ ~(OpOf(r).mode = "debit" /\ NextBalance(r) < 0)
        /\ \E next \in found :
              req' = [req EXCEPT ![r].pc = "write", ![r].next = next]
        /\ Local
    BY <1>2 DEF ResolveNext
  <2>2. found \subseteq LevelIds \cup {None}
    BY <2>r, ResolveLevelType DEF ReqRow, LevelsOf
  <2> HIDE DEF found
  <2>3. PICK next \in LevelIds \cup {None} :
          req' = [req EXCEPT ![r].pc = "write", ![r].next = next]
    BY <2>1, <2>2
  <2> DEFINE row == [req[r] EXCEPT !.pc = "write", !.next = next]
  <2>4. req' = [req EXCEPT ![r] = row]
    BY <2>3 DEF IInv, TypeOK
  <2>5. 2 * req[r].bal + req[r].delta >= 0
    <3>1. OpOf(r).mode \in {"credit", "debit"}
      BY <2>1, <2>r, EngineAssumption DEF RowOK, OpOf, Op
    <3>2. req[r].bal \in Nat /\ req[r].delta \in Int
      BY <2>r DEF ReqRow
    <3>3. OpOf(r).mode = "credit" => req[r].delta >= 0
      BY <2>1, <2>r DEF RowOK, OpOf
    <3> QED
      BY <2>1, <3>1, <3>2, <3>3 DEF NextBalance
  <2>6. row \in ReqRow
    BY <2>r DEF ReqRow, Locked
  <2>7. RowOK(r, row)
    BY <2>1, <2>r, <2>5 DEF ReqRow, RowOK, Locked, Informed
  <2> QED
    BY <2>1, <2>4, <2>6, <2>7, LocalStep
<1> QED
  BY <1>1, <1>2

-----------------------------------------------------------------------------
(* The commit. *)

\* What is written: the ledger row of a commit and its effect.
LEMMA WriteFacts ==
  ASSUME IInv, NEW r \in Reqs, Write(r), ~Throw(r)
  PROVE  LET u == User(r)
             b == balance[u]
             p == Stored(req[r].delta)
             a == Stored(2 * b + req[r].delta)
         IN  /\ u \in users
             /\ u \in Users
             /\ p \in Int
             /\ a \in Nat
             /\ a = b + p \/ (p < 0 /\ a = b + p + 1)
             /\ balance' = [balance EXCEPT ![u] = a]
             /\ a <= period'[u]
             /\ period' \in [Users -> Nat]
             /\ \A v \in Users \ {u} : period'[v] = period[v]
             /\ \E lines \in SUBSET Line :
                   ledger' = [ledger EXCEPT ![u] =
                     Append(@, [type |-> OpOf(r).type, points |-> p,
                                after |-> a, lines |-> lines])]
             /\ OpOf(r).type \in TransactionTypes
<1> DEFINE u == User(r)
           b == balance[u]
           e == period[u]
           d == req[r].delta
<1>r. req[r] \in ReqRow /\ RowOK(r, req[r])
  BY DEF IInv, TypeOK, RequestsOK
<1>1. /\ req[r].pc = "write"
      /\ Writable(r)
      /\ balance' = [balance EXCEPT ![u] = Stored(NextBalance(r))]
      /\ period' = [period EXCEPT ![u] = Stored(NextPeriod(r))]
      /\ ledger' = [ledger EXCEPT ![u] =
                      Append(@, [type |-> OpOf(r).type,
                                 points |-> Stored(d),
                                 after |-> Stored(NextBalance(r)),
                                 lines |-> req[r].lines])]
  BY DEF Write
<1>2. /\ u \in users
      /\ u \in Users
      /\ d \in Int
      /\ req[r].bal = b
      /\ req[r].per = e
      /\ 2 * b + d >= 0
      /\ IF OpOf(r).mode = "credit" THEN d >= 0 ELSE d <= 0
      /\ req[r].lines \in SUBSET Line
  BY <1>1, <1>r DEF Writable, ReqRow, RowOK, User, OpOf, Locked, Informed
<1>3. b \in Nat /\ e \in Nat /\ b <= e
  BY <1>2 DEF IInv, TypeOK, SpendsOnlyWhatWasEarned
<1>4. OpOf(r).type \in TransactionTypes /\ OpOf(r).mode \in {"credit", "debit"}
  BY <1>1, <1>r, EngineAssumption DEF RowOK, OpOf, Op
<1>5. NextBalance(r) = 2 * b + d
  BY <1>2 DEF NextBalance
<1>6. /\ NextPeriod(r) \in Nat
      /\ 2 * b + d <= NextPeriod(r)
  BY <1>2, <1>3, <1>4 DEF NextPeriod
<1>7. /\ Stored(d) \in Int
      /\ Stored(2 * b + d) \in Nat
      /\ Stored(NextPeriod(r)) \in Nat
      /\ Stored(2 * b + d) <= Stored(NextPeriod(r))
  <2>1. 2 * b + d \in Nat
    BY <1>2, <1>3
  <2> QED
    BY <2>1, <1>2, <1>6, StoredType, StoredMonotone
<1>8. \/ Stored(2 * b + d) = b + Stored(d)
      \/ Stored(d) < 0 /\ Stored(2 * b + d) = b + Stored(d) + 1
  BY <1>2, <1>3, StoredSum
<1>9. /\ period' \in [Users -> Nat]
      /\ period'[u] = Stored(NextPeriod(r))
      /\ \A v \in Users \ {u} : period'[v] = period[v]
  BY <1>1, <1>2, <1>7 DEF IInv, TypeOK
<1> HIDE DEF u, b, d
<1>10. \E lines \in SUBSET Line :
          ledger' = [ledger EXCEPT ![u] =
                       Append(@, [type |-> OpOf(r).type, points |-> Stored(d),
                                  after |-> Stored(2 * b + d), lines |-> lines])]
  BY <1>1, <1>2, <1>5
<1>11. balance' = [balance EXCEPT ![u] = Stored(2 * b + d)]
  BY <1>1, <1>5
<1> QED
  BY <1>2, <1>4, <1>7, <1>8, <1>9, <1>10, <1>11 DEF u, b, d

\* A commit keeps the invariant: the lock kept the customer's state as it was
\* read, so the new ledger row starts from the balance of the last one.
LEMMA WriteStep ==
  ASSUME IInv, NEW r \in Reqs, Write(r)
  PROVE  IInv'
<1>1. CASE Throw(r)
  BY <1>1, ThrowStep
<1>2. CASE ~Throw(r)
  <2>0. PICK u \in Users : u = User(r)
    BY <1>2, WriteFacts
  <2> DEFINE p == Stored(req[r].delta)
             a == Stored(2 * balance[u] + req[r].delta)
  <2>1. /\ u \in users
        /\ u \in Users
        /\ p \in Int
        /\ a \in Nat
        /\ a = balance[u] + p \/ (p < 0 /\ a = balance[u] + p + 1)
        /\ balance' = [balance EXCEPT ![u] = a]
        /\ a <= period'[u]
        /\ period' \in [Users -> Nat]
        /\ \A v \in Users \ {u} : period'[v] = period[v]
        /\ OpOf(r).type \in TransactionTypes
    BY <1>2, <2>0, WriteFacts
  <2>2. PICK lines \in SUBSET Line :
          ledger' = [ledger EXCEPT ![u] =
            Append(@, [type |-> OpOf(r).type, points |-> p,
                       after |-> a, lines |-> lines])]
    BY <1>2, <2>0, WriteFacts
  <2> DEFINE row == [type |-> OpOf(r).type, points |-> p, after |-> a,
                     lines |-> lines]
  <2>r. req[r] \in ReqRow /\ RowOK(r, req[r])
    BY DEF IInv, TypeOK, RequestsOK
  <2>3. /\ req[r].pc = "write"
        /\ level' = [level EXCEPT ![u] = NextLevel(r)]
        /\ settings' = IF req[r].created # None THEN req[r].created
                                                ELSE settings
        /\ End(r)
        /\ UNCHANGED <<users, adminVars>>
    BY <1>2, <2>0 DEF Write
  <2>e. /\ req' \in [Reqs -> ReqRow]
        /\ lock' \in [LockKeys -> Reqs \cup {None}]
        /\ req'[r] = Idle
        /\ \A q \in Reqs \ {r} :
             /\ req'[q] = req[q]
             /\ req[q].pc \in Locked => lock'[LockKey[req[q].user]] = q
    BY <2>3, EndStep DEF IInv
  <2>4. row \in LedgerRow
    BY <2>1 DEF LedgerRow
  <2>u. u = req[r].user
    BY <2>0 DEF User
  <2> HIDE DEF p, a, row
  <2>5. ledger' \in [Users -> Seq(LedgerRow)]
    BY <2>1, <2>2, <2>4 DEF IInv, TypeOK, row
  <2>6. TypeOK'
    <3>1. level' \in [Users -> LevelIds \cup {None}]
      BY <2>3, <2>r DEF IInv, TypeOK, NextLevel, ReqRow
    <3>2. settings' \in SettingsRow \cup {None}
      BY <2>3, <2>r DEF IInv, TypeOK, ReqRow
    <3>3. balance' \in [Users -> Nat]
      BY <2>1 DEF IInv, TypeOK
    <3> QED
      BY <2>1, <2>3, <2>5, <2>e, <3>1, <3>2, <3>3 DEF IInv, TypeOK, adminVars
  <2>7. RequestsOK'
    <3>1. RowOK(r, req[r])'
      BY <2>e DEF RowOK, Idle, Locked, Informed
    <3>2. ASSUME NEW q \in Reqs \ {r}
          PROVE  RowOK(q, req[q])'
      <4>1. RowOK(q, req[q]) /\ req[q] \in ReqRow
        BY DEF IInv, TypeOK, RequestsOK
      <4>2. ASSUME req[q].pc \in Locked
            PROVE  /\ balance'[req[q].user] = balance[req[q].user]
                   /\ period'[req[q].user] = period[req[q].user]
        <5>1. req[q].user \in Users /\ lock[LockKey[req[q].user]] = q
          BY <4>1, <4>2 DEF RowOK, Locked
        <5>2. lock[LockKey[u]] = r
          BY <2>3, <2>r, <2>u DEF RowOK, Locked
        <5>3. req[q].user # u
          BY <5>1, <5>2
        <5> QED
          BY <2>1, <5>1, <5>3 DEF IInv, TypeOK
      <4> QED
        BY <2>e, <4>1, <4>2 DEF RowOK, Informed
    <3> QED
      BY <3>1, <3>2 DEF RequestsOK
  <2>8. SpendsOnlyWhatWasEarned'
    BY <2>1 DEF IInv, TypeOK, SpendsOnlyWhatWasEarned
  <2>9. LedgerExplainsBalance'
    <3>1. ASSUME NEW v \in users, v # u
          PROVE  ledger'[v] = ledger[v] /\ balance'[v] = balance[v]
      BY <2>1, <2>2, <3>1 DEF IInv, TypeOK
    <3>n. PICK n \in Nat : n = Len(ledger[u])
      BY DEF IInv, TypeOK
    <3>2. /\ ledger'[u] = Append(ledger[u], row)
          /\ Len(ledger'[u]) = n + 1
          /\ DOMAIN ledger[u] = 1 .. n
          /\ DOMAIN ledger'[u] = 1 .. n + 1
          /\ \A i \in 1 .. n : ledger'[u][i] = ledger[u][i]
          /\ ledger'[u][n + 1] = row
      BY <2>1, <2>2, <2>4, <3>n DEF IInv, TypeOK, row
    <3>3. /\ row.points = p
          /\ row.after = a
      BY DEF row
    <3>4. balance[u] = Before(u, n + 1)
      BY <2>1, <3>n DEF IInv, LedgerExplainsBalance, Accounted
    <3>5. \A i \in 1 .. n + 1 : Before(u, i)' = Before(u, i)
      BY <3>2 DEF Before
    <3>6. Before(u, n + 2)' = a
      BY <3>2, <3>3 DEF Before
    <3>7. balance'[u] = a
      BY <2>1 DEF IInv, TypeOK
    <3>8. Accounted(u)'
      <4>1. ASSUME NEW i \in 1 .. n + 1
            PROVE  \/ ledger'[u][i].after = Before(u, i) + ledger'[u][i].points
                   \/ /\ ledger'[u][i].points < 0
                      /\ ledger'[u][i].after =
                           Before(u, i) + ledger'[u][i].points + 1
        <5>1. CASE i = n + 1
          BY <2>1, <3>2, <3>3, <3>4, <5>1
        <5>2. CASE i \in 1 .. n
          BY <2>1, <3>2, <5>2 DEF IInv, LedgerExplainsBalance, Accounted
        <5> QED
          BY <5>1, <5>2
      <4> QED
        BY <3>2, <3>5, <3>6, <3>7, <4>1 DEF Accounted
    <3>9. ASSUME NEW v \in users, v # u
          PROVE  Accounted(v)'
      BY <3>1, <3>9 DEF IInv, LedgerExplainsBalance, Accounted, Before
    <3> QED
      BY <2>3, <3>8, <3>9 DEF LedgerExplainsBalance
  <2> QED
    BY <2>6, <2>7, <2>8, <2>9 DEF IInv
<1> QED
  BY <1>1, <1>2

-----------------------------------------------------------------------------
(* The steps that no request takes, and the theorems. *)

\* Administrators edit no balance, no ledger and no request; a deleted
\* account is no longer one the ledger accounts for.
AdminKeeps ==
  /\ UNCHANGED <<balance, period, lock, req>>
  /\ users' \subseteq users
  /\ \A v \in users' : ledger'[v] = ledger[v]
  /\ TypeOK'

\* Administrators write no balance, no ledger row and no request.
LEMMA AdminActions == IInv /\ Admin => AdminKeeps
<1> SUFFICES ASSUME IInv, Admin PROVE AdminKeeps
  OBVIOUS
<1> USE EngineAssumption DEF AdminKeeps, IInv, TypeOK, stateVars
<1>1. ASSUME NEW l \in LevelIds, NEW row \in LevelRows, CreateLevel(l, row)
      PROVE  AdminKeeps
  BY <1>1 DEF CreateLevel, Catalogue
<1>2. ASSUME NEW l \in LevelIds, NEW row \in LevelRows, UpdateLevel(l, row)
      PROVE  AdminKeeps
  BY <1>2 DEF UpdateLevel, Catalogue
<1>3. ASSUME NEW l \in LevelIds, CheckRemoveLevel(l)
      PROVE  AdminKeeps
  BY <1>3 DEF CheckRemoveLevel
<1>4. ASSUME NEW l \in LevelIds, RemoveLevel(l)
      PROVE  AdminKeeps
  BY <1>4 DEF RemoveLevel, Catalogue
<1>5. ASSUME NEW w \in RewardIds, NEW price \in Prices, UpdateReward(w, price)
      PROVE  AdminKeeps
  BY <1>5 DEF UpdateReward, levelVars
<1>6. ASSUME NEW w \in RewardIds, RemoveReward(w)
      PROVE  AdminKeeps
  BY <1>6 DEF RemoveReward, levelVars
<1>7. ASSUME NEW row \in SettingsRows, UpdateSettings(row)
      PROVE  AdminKeeps
  BY <1>7 DEF UpdateSettings, adminVars
<1>8. CASE EnsureSettings
  BY <1>8 DEF EnsureSettings, adminVars
<1>9. ASSUME NEW u \in Users, DeleteUser(u)
      PROVE  AdminKeeps
  BY <1>9 DEF DeleteUser, adminVars
<1> HIDE DEF AdminKeeps
<1> QED
  BY <1>1, <1>2, <1>3, <1>4, <1>5, <1>6, <1>7, <1>8, <1>9 DEF Admin

\* The invariant survives administrators and the deletion of accounts.
LEMMA AdminStep ==
  ASSUME IInv, Admin
  PROVE  IInv'
<1>1. AdminKeeps
  BY AdminActions
<1>2. RequestsOK'
  BY <1>1 DEF AdminKeeps, IInv, RequestsOK, RowOK
<1>3. LedgerExplainsBalance'
  <2> SUFFICES ASSUME NEW v \in users' PROVE Accounted(v)'
    BY DEF LedgerExplainsBalance
  <2> QED
    BY <1>1 DEF AdminKeeps, IInv, LedgerExplainsBalance, Accounted, Before
<1>4. SpendsOnlyWhatWasEarned'
  BY <1>1 DEF AdminKeeps, IInv, SpendsOnlyWhatWasEarned
<1> QED
  BY <1>1, <1>2, <1>3, <1>4 DEF AdminKeeps, IInv

\* A stuttering step keeps the invariant.
LEMMA StutterStep == IInv /\ UNCHANGED vars => IInv'
<1> SUFFICES ASSUME IInv, UNCHANGED vars PROVE IInv'
  OBVIOUS
<1> USE DEF IInv, vars
<1>1. TypeOK'
  BY DEF TypeOK
<1>2. RequestsOK'
  BY DEF RequestsOK, RowOK
<1>3. LedgerExplainsBalance'
  BY DEF LedgerExplainsBalance, Accounted, Before
<1>4. SpendsOnlyWhatWasEarned'
  BY DEF SpendsOnlyWhatWasEarned
<1> QED
  BY <1>1, <1>2, <1>3, <1>4

\* The invariant is inductive.
LEMMA NextInvariant == IInv /\ [Next]_vars => IInv'
<1> SUFFICES ASSUME IInv, [Next]_vars PROVE IInv'
  OBVIOUS
<1>1. ASSUME NEW r \in Reqs, \E u \in Users, op \in Ops : Start(r, u, op)
      PROVE  IInv'
  BY <1>1, BeforeLockSteps
<1>2. ASSUME NEW r \in Reqs, Acquire(r)
      PROVE  IInv'
  BY <1>2, AcquireStep
<1>3. ASSUME NEW r \in Reqs, CreateSettings(r)
      PROVE  IInv'
  BY <1>3, CreateSettingsStep
<1>4. ASSUME NEW r \in Reqs, Step(r)
      PROVE  IInv'
  BY <1>4, BeforeLockSteps, ReadSteps, ResolveSteps, ResolveNextStep,
     WriteStep DEF Step
<1>5. ASSUME NEW r \in Reqs, Fail(r)
      PROVE  IInv'
  BY <1>5, ThrowStep DEF Fail
<1>6. CASE Admin
  BY <1>6, AdminStep
<1>7. CASE UNCHANGED vars
  BY <1>7, StutterStep
<1> QED
  BY <1>1, <1>2, <1>3, <1>4, <1>5, <1>6, <1>7 DEF Next

\* The inductive invariant holds of every behaviour of the engine.
THEOREM Invariant == Spec => []IInv
  BY InitInvariant, NextInvariant, PTL DEF Spec

\* Types, and with them: no balance, and no balance in the ledger, is ever
\* negative.
THEOREM TypeCorrect == Spec => []TypeOK
<1>1. IInv => TypeOK
  BY DEF IInv
<1> QED
  BY <1>1, Invariant, PTL

\* The advisory lock serialises the requests of a customer, even when the
\* hashes of several customers collide.
THEOREM Serialised == Spec => []OneWriterPerCustomer
<1>1. IInv => OneWriterPerCustomer
  <2> SUFFICES ASSUME IInv, NEW q \in Reqs, NEW r \in Reqs, q # r,
                      req[q].pc \in Locked, req[r].pc \in Locked,
                      User(q) = User(r)
               PROVE  FALSE
    BY DEF OneWriterPerCustomer
  <2>1. lock[LockKey[User(q)]] = q /\ lock[LockKey[User(r)]] = r
    BY DEF IInv, RequestsOK, RowOK, User
  <2> QED
    BY <2>1
<1> QED
  BY <1>1, Invariant, PTL

\* The ledger accounts for every balance, row by row.
THEOREM LedgerCorrect == Spec => []LedgerExplainsBalance
<1>1. IInv => LedgerExplainsBalance
  BY DEF IInv
<1> QED
  BY <1>1, Invariant, PTL

\* A balance never exceeds what was credited.
THEOREM EarnedBeforeSpent == Spec => []SpendsOnlyWhatWasEarned
<1>1. IInv => SpendsOnlyWhatWasEarned
  BY DEF IInv
<1> QED
  BY <1>1, Invariant, PTL

-----------------------------------------------------------------------------
(* The refinement. *)

\* Neither accounts nor balances nor ledger rows change.
Unseen == UNCHANGED <<users, balance, ledger>>

\* What the ledger does not see leaves the abstract ledger as it was.
LEMMA UnseenStutters == Unseen => UNCHANGED Abstract!vars
  BY DEF Unseen, Abstract!vars, Statement

\* All but a commit and the deletion of an account goes unseen.
LEMMA OtherStepsUnseen ==
  ASSUME IInv, [Next]_vars,
         ~\E r \in Reqs : Write(r) /\ ~Throw(r),
         ~\E u \in Users : DeleteUser(u)
  PROVE  Unseen
<1> USE DEF Unseen, Throw, Local, stateVars
<1>1. ASSUME NEW r \in Reqs, \E u \in Users, op \in Ops : Start(r, u, op)
      PROVE  Unseen
  BY <1>1 DEF Start
<1>2. ASSUME NEW r \in Reqs, Acquire(r) \/ CreateSettings(r) \/ Fail(r)
      PROVE  Unseen
  BY <1>2 DEF Acquire, CreateSettings, Fail
<1>3. ASSUME NEW r \in Reqs, Step(r)
      PROVE  Unseen
  <2>1. CASE Write(r)
    BY <2>1
  <2>2. CASE ReadRewards(r) \/ CheckFunds(r) \/ ReadState(r) \/ ReadLevel(r)
    BY <2>2 DEF ReadRewards, CheckFunds, ReadState, ReadLevel
  <2>3. CASE \/ ResolveBonus(r) \/ ResolvePurchase(r) \/ ResolveSpinReward(r)
             \/ ResolveMultiplier(r) \/ ResolveRedeem(r)
             \/ ResolveAdjustment(r) \/ ResolveNext(r)
    BY <2>3 DEF ResolveBonus, ResolvePurchase, ResolveSpinReward,
                ResolveMultiplier, ResolveRedeem, ResolveAdjustment,
                ResolveNext, Resolved
  <2> QED
    BY <1>3, <2>1, <2>2, <2>3 DEF Step
<1>4. CASE Admin
  BY <1>4 DEF Admin, CreateLevel, UpdateLevel, CheckRemoveLevel, RemoveLevel,
              UpdateReward, RemoveReward, UpdateSettings, EnsureSettings
<1>5. CASE UNCHANGED vars
  BY <1>5 DEF vars
<1> QED
  BY <1>1, <1>2, <1>3, <1>4, <1>5 DEF Next

\* A commit is a posting.
LEMMA WritePosts ==
  ASSUME IInv, NEW r \in Reqs, Write(r), ~Throw(r)
  PROVE  Abstract!Next
<1>0. PICK u \in Users : u = User(r)
  BY WriteFacts
<1> DEFINE p == Stored(req[r].delta)
           a == Stored(2 * balance[u] + req[r].delta)
<1>1. /\ u \in users
      /\ p \in Int
      /\ a \in Nat
      /\ a = balance[u] + p \/ (p < 0 /\ a = balance[u] + p + 1)
      /\ balance' = [balance EXCEPT ![u] = a]
  BY <1>0, WriteFacts
<1>2. PICK lines \in SUBSET Line :
        ledger' = [ledger EXCEPT ![u] =
          Append(@, [type |-> OpOf(r).type, points |-> p,
                     after |-> a, lines |-> lines])]
  BY <1>0, WriteFacts
<1>3. UNCHANGED users
  BY DEF Write
<1> DEFINE row == [type |-> OpOf(r).type, points |-> p, after |-> a,
                   lines |-> lines]
           entry == [points |-> p, after |-> a]
<1>4. row.points = p /\ row.after = a
  OBVIOUS
<1> HIDE DEF p, a, row
<1>5. /\ balance \in [Users -> Nat]
      /\ ledger \in [Users -> Seq(LedgerRow)]
      /\ balance'[u] = a
  BY <1>1 DEF IInv, TypeOK
<1>6. ledger' = [ledger EXCEPT ![u] = Append(ledger[u], row)]
  BY <1>2 DEF row
<1>7. Statement' = [Statement EXCEPT ![u] = Append(@, entry)]
  <2> DEFINE View(s) == [i \in DOMAIN s |-> [points |-> s[i].points,
                                             after |-> s[i].after]]
  <2>1. View(Append(ledger[u], row)) = Append(View(ledger[u]), entry)
    <3>1. PICK n \in Nat : n = Len(ledger[u]) /\ DOMAIN ledger[u] = 1 .. n
      BY <1>5
    <3>2. /\ Append(ledger[u], row) = [i \in 1 .. n + 1 |->
               IF i = n + 1 THEN row ELSE ledger[u][i]]
          /\ Append(View(ledger[u]), entry) = [i \in 1 .. n + 1 |->
               IF i = n + 1 THEN entry ELSE View(ledger[u])[i]]
      BY <1>5, <3>1
    <3> QED
      BY <1>4, <3>1, <3>2
  <2>2. \A v \in Users : View(ledger'[v]) =
          IF v = u THEN Append(View(ledger[u]), entry) ELSE View(ledger[v])
    BY <1>5, <1>6, <2>1
  <2>3. /\ Statement = [v \in Users |-> View(ledger[v])]
        /\ Statement' = [v \in Users |-> View(ledger'[v])]
    BY DEF Statement
  <2> HIDE DEF View, entry
  <2> QED
    BY <2>2, <2>3
<1>8. p \in Abstract!Postable(balance'[u] - balance[u])
  BY <1>1, <1>5 DEF Abstract!Postable
<1>9. Abstract!Post(u)
  BY <1>1, <1>3, <1>5, <1>7, <1>8 DEF Abstract!Post
<1> QED
  BY <1>9 DEF Abstract!Next

\* Deleting an account closes it.
LEMMA DeleteCloses ==
  ASSUME IInv, NEW u \in Users, DeleteUser(u)
  PROVE  Abstract!Next
<1>1. /\ u \in users
      /\ users' = users \ {u}
      /\ ledger' = [ledger EXCEPT ![u] = <<>>]
      /\ UNCHANGED balance
  BY DEF DeleteUser, stateVars
<1>2. Statement' = [Statement EXCEPT ![u] = <<>>]
  <2> DEFINE View(s) == [i \in DOMAIN s |-> [points |-> s[i].points,
                                             after |-> s[i].after]]
  <2>1. View(<<>>) = <<>>
    <3>1. View(<<>>) = [i \in {} |-> [points |-> <<>>[i].points,
                                      after |-> <<>>[i].after]]
      OBVIOUS
    <3>2. View(<<>>) \in Seq({}) /\ Len(View(<<>>)) = 0
      BY <3>1
    <3> HIDE DEF View
    <3> QED
      BY <3>2
  <2>2. ledger \in [Users -> Seq(LedgerRow)]
    BY DEF IInv, TypeOK
  <2> HIDE DEF View
  <2>3. \A v \in Users : View(ledger'[v]) =
          IF v = u THEN <<>> ELSE View(ledger[v])
    BY <1>1, <2>1, <2>2
  <2>4. /\ Statement = [v \in Users |-> View(ledger[v])]
        /\ Statement' = [v \in Users |-> View(ledger'[v])]
    BY DEF Statement, View
  <2> QED
    BY <2>3, <2>4
<1>3. Abstract!Close(u)
  BY <1>1, <1>2 DEF Abstract!Close
<1> QED
  BY <1>3 DEF Abstract!Next

\* The engine implements the abstract ledger: concurrent requests post as if
\* one at a time.
THEOREM Refinement == Spec => ImplementsLedger
<1>1. Init => Abstract!Init
  BY DEF Init, Abstract!Init, Statement
<1>2. IInv /\ [Next]_vars => [Abstract!Next]_(Abstract!vars)
  <2> SUFFICES ASSUME IInv, [Next]_vars
               PROVE  Abstract!Next \/ UNCHANGED Abstract!vars
    OBVIOUS
  <2>1. CASE \E r \in Reqs : Write(r) /\ ~Throw(r)
    BY <2>1, WritePosts
  <2>2. CASE \E u \in Users : DeleteUser(u)
    BY <2>2, DeleteCloses
  <2>3. CASE /\ ~\E r \in Reqs : Write(r) /\ ~Throw(r)
             /\ ~\E u \in Users : DeleteUser(u)
    BY <2>3, OtherStepsUnseen, UnseenStutters
  <2> QED
    BY <2>1, <2>2, <2>3
<1> QED
  BY <1>1, <1>2, Invariant, PTL DEF Spec, ImplementsLedger, Abstract!Spec
-----------------------------------------------------------------------------
(* What a request holds of the catalogue: the items it redeems, their cost *)
(* and the customer's level.                                               *)

\* A redemption takes what the items it has read cost; nothing else has items.
ItemsOK(row) ==
  /\ row.pc = "rewards" => row.op.type = "redeem" /\ Basket(row.op) # {}
  /\ row.pc = "idle" \/ row.op.type # "redeem" => row.lines = {}
  /\ row.pc \notin {"idle", "rewards"} /\ row.op.type = "redeem" =>
       row.lines # {} /\ row.cost = Cost(row.lines)
  /\ row.pc \in {"next", "write"} /\ row.op.type = "redeem" =>
       row.delta = -2 * row.cost

\* The level that was read is still the customer's, unless it was removed.
LevelOK(row) == row.pc \in Informed => level[row.user] \in {row.lvl, None}

\* A ledger row costs what its items do.
ItemizedRow(x) ==
  IF x.type = "redeem" THEN x.lines # {} /\ -x.points = Cost(x.lines)
                       ELSE x.lines = {}

CatalogueInv ==
  /\ \A r \in Reqs : ItemsOK(req[r]) /\ LevelOK(req[r])
  /\ \A u \in Users : \A i \in DOMAIN ledger[u] : ItemizedRow(ledger[u][i])

\* The property is about the same sum.
LEMMA CostIsSum ==
  \A lines : MapThenSumSet(LAMBDA x : x.quantity * x.price, lines) = Cost(lines)
BY DEF Cost

LEMMA ItemizedRows == CatalogueInv => RedemptionItemized
BY CostIsSum DEF CatalogueInv, ItemizedRow, RedemptionItemized

LEMMA IdleHolds == ItemsOK(Idle) /\ LevelOK(Idle) /\ Idle.pc = "idle"
BY DEF Idle, ItemsOK, LevelOK, Informed, Locked

\* A request moves on, and customers and ledger stay as they are.
LEMMA HeldStep ==
  ASSUME IInv, CatalogueInv, NEW r \in Reqs, NEW row, ItemsOK(row), LevelOK(row),
         req' = [req EXCEPT ![r] = row], UNCHANGED <<level, ledger>>
  PROVE  CatalogueInv'
<1>1. /\ req'[r] = row /\ \A q \in Reqs \ {r} : req'[q] = req[q]
  BY DEF IInv, TypeOK
<1>2. ASSUME NEW q \in Reqs PROVE ItemsOK(req[q])' /\ LevelOK(req[q])'
  <2>1. ItemsOK(req'[q]) /\ LevelOK(req'[q])
    BY <1>1 DEF CatalogueInv
  <2> QED
    BY <2>1 DEF ItemsOK, LevelOK
<1>3. \A u \in Users : \A i \in DOMAIN ledger'[u] : ItemizedRow(ledger'[u][i])
  BY DEF CatalogueInv
<1>4. \A u \in Users : \A i \in DOMAIN ledger'[u] : ItemizedRow(ledger[u][i])'
  BY <1>3 DEF ItemizedRow
<1> QED
  BY <1>2, <1>4 DEF CatalogueInv

LEMMA HeldThrow ==
  ASSUME IInv, CatalogueInv, NEW r \in Reqs, Throw(r)
  PROVE  CatalogueInv'
<1>1. /\ req' = [req EXCEPT ![r] = Idle] /\ UNCHANGED <<level, ledger>>
  BY DEF Throw, End, stateVars
<1> QED
  BY <1>1, IdleHolds, HeldStep

\* Reading the rewards finds what the items cost.
LEMMA HeldBeforeLock ==
  ASSUME IInv, CatalogueInv, NEW r \in Reqs,
         \/ \E u \in Users, op \in Ops : Start(r, u, op)
         \/ ReadRewards(r) \/ CheckFunds(r) \/ Acquire(r)
  PROVE  CatalogueInv'
<1>r. req[r] \in ReqRow /\ ItemsOK(req[r]) /\ LevelOK(req[r])
  BY DEF IInv, TypeOK, CatalogueInv
<1>1. ASSUME NEW u \in Users, NEW op \in Ops, Start(r, u, op)
      PROVE  CatalogueInv'
  <2> DEFINE row == [req[r] EXCEPT !.pc = IF op.type = "redeem" THEN "rewards"
                                                                ELSE "queued",
                                   !.user = u, !.op = op]
  <2>1. /\ req[r].pc = "idle"
        /\ op.type = "redeem" => \E w \in RewardIds : op.basket[w] > 0
        /\ req' = [req EXCEPT ![r] = row] /\ UNCHANGED <<level, ledger>>
    BY <1>1 DEF Start, IInv, TypeOK, Local, stateVars
  <2>2. op.type = "redeem" => Basket(op) # {}
    BY <2>1 DEF Basket
  <2>3. ItemsOK(row) /\ LevelOK(row)
    BY <1>r, <2>1, <2>2 DEF ItemsOK, LevelOK, ReqRow, Informed, Locked
  <2> HIDE DEF row
  <2> QED
    BY <2>1, <2>3, HeldStep
<1>2. CASE ReadRewards(r) /\ ~Throw(r)
  <2> DEFINE lines == {[reward |-> w, quantity |-> OpOf(r).basket[w],
                        price |-> rewards[w]] : w \in Basket(OpOf(r))}
  <2>1. /\ req[r].pc = "rewards"
        /\ req' = [req EXCEPT ![r].pc = "funds", ![r].lines = lines,
                              ![r].cost = Cost(lines)]
        /\ UNCHANGED <<level, ledger>>
    BY <1>2 DEF ReadRewards, Local, stateVars
  <2>2. lines # {} /\ req[r].op.type = "redeem"
    BY <1>r, <2>1 DEF ItemsOK, OpOf
  <2> HIDE DEF lines
  <2> DEFINE row == [req[r] EXCEPT !.pc = "funds", !.lines = lines,
                                   !.cost = Cost(lines)]
  <2>3. req' = [req EXCEPT ![r] = row]
    BY <2>1 DEF IInv, TypeOK
  <2>4. ItemsOK(row) /\ LevelOK(row)
    BY <1>r, <2>1, <2>2 DEF ItemsOK, LevelOK, ReqRow, Informed, Locked
  <2> HIDE DEF row
  <2> QED
    BY <2>1, <2>3, <2>4, HeldStep
<1>3. CASE (CheckFunds(r) /\ ~Throw(r)) \/ Acquire(r)
  <2>1. PICK pc \in {"queued", "locked"} :
          /\ req[r].pc \in {"funds", "queued"}
          /\ req' = [req EXCEPT ![r].pc = pc] /\ UNCHANGED <<level, ledger>>
    BY <1>3 DEF CheckFunds, Acquire, Local, stateVars
  <2> DEFINE row == [req[r] EXCEPT !.pc = pc]
  <2>2. req' = [req EXCEPT ![r] = row]
    BY <2>1 DEF IInv, TypeOK
  <2>3. ItemsOK(row) /\ LevelOK(row)
    BY <1>r, <2>1 DEF ItemsOK, LevelOK, ReqRow, Informed, Locked
  <2> HIDE DEF row
  <2> QED
    BY <2>1, <2>2, <2>3, HeldStep
<1>4. CASE Throw(r)
  BY <1>4, HeldThrow
<1> QED
  BY <1>1, <1>2, <1>3, <1>4

\* The reads under the lock.
LEMMA HeldReads ==
  ASSUME IInv, CatalogueInv, NEW r \in Reqs, ReadState(r) \/ ReadLevel(r)
  PROVE  CatalogueInv'
<1>r. req[r] \in ReqRow /\ ItemsOK(req[r]) /\ LevelOK(req[r])
  BY DEF IInv, TypeOK, CatalogueInv
<1>1. CASE Throw(r)
  BY <1>1, HeldThrow
<1>2. CASE ReadState(r) /\ ~Throw(r)
  <2> DEFINE row == [req[r] EXCEPT !.pc = "level",
                                   !.bal = balance[User(r)],
                                   !.per = period[User(r)],
                                   !.lvl = level[User(r)]]
  <2>1. /\ req[r].pc = "locked" /\ req' = [req EXCEPT ![r] = row]
        /\ UNCHANGED <<level, ledger>>
    BY <1>2 DEF ReadState, Local, stateVars, IInv, TypeOK
  <2>2. /\ row.pc = "level" /\ row.user = req[r].user /\ row.op = req[r].op
        /\ row.lvl = level[req[r].user] /\ row.lines = req[r].lines
        /\ row.cost = req[r].cost
    BY <1>r DEF ReqRow, User
  <2> HIDE DEF row
  <2>3. ItemsOK(row) /\ LevelOK(row)
    BY <1>r, <2>1, <2>2 DEF ItemsOK, LevelOK, Informed, Locked
  <2> QED
    BY <2>1, <2>3, HeldStep
<1>3. CASE ReadLevel(r)
  <2> DEFINE Rate(cur) == IF cur = None THEN 0 ELSE levels[cur].rate
  <2>0. req[r].pc = "level" /\ UNCHANGED <<level, ledger>>
    BY <1>3 DEF ReadLevel, Local, stateVars
  <2>p. \E cur : req' = [req EXCEPT ![r].pc = "points", ![r].cur = cur,
                                    ![r].rate = Rate(cur)]
    BY <1>3 DEF ReadLevel
  <2>1. PICK cur, rate :
          req' = [req EXCEPT ![r].pc = "points", ![r].cur = cur,
                             ![r].rate = rate]
    <3> HIDE DEF Rate
    <3> QED
      BY <2>p
  <2> DEFINE row == [req[r] EXCEPT !.pc = "points", !.cur = cur, !.rate = rate]
  <2>2. req' = [req EXCEPT ![r] = row]
    BY <2>1 DEF IInv, TypeOK
  <2>3. /\ row.pc = "points" /\ row.user = req[r].user /\ row.op = req[r].op
        /\ row.lvl = req[r].lvl /\ row.lines = req[r].lines
        /\ row.cost = req[r].cost
    BY <1>r DEF ReqRow
  <2> HIDE DEF row
  <2>4. ItemsOK(row) /\ LevelOK(row)
    BY <1>r, <2>0, <2>1, <2>3 DEF ItemsOK, LevelOK, Informed, Locked
  <2> QED
    BY <2>0, <2>2, <2>4, HeldStep
<1> QED
  BY <1>1, <1>2, <1>3

\* The callbacks and what follows them: a redemption takes what it costs.
LEMMA HeldPoints ==
  ASSUME IInv, CatalogueInv, NEW r \in Reqs,
         \/ ResolveBonus(r) \/ ResolvePurchase(r) \/ ResolveSpinReward(r)
         \/ ResolveMultiplier(r) \/ ResolveRedeem(r) \/ ResolveAdjustment(r)
         \/ CreateSettings(r) \/ ResolveNext(r)
  PROVE  CatalogueInv'
<1>r. /\ req[r] \in ReqRow /\ ItemsOK(req[r]) /\ LevelOK(req[r])
      /\ RowOK(r, req[r])
  BY DEF IInv, TypeOK, RequestsOK, CatalogueInv
<1>1. CASE Throw(r)
  BY <1>1, HeldThrow
<1>2. ASSUME NEW delta, Resolved(r, delta), req[r].pc = "points",
             req[r].op.type = "redeem" => delta = -2 * req[r].cost
      PROVE  CatalogueInv'
  <2> DEFINE row == [req[r] EXCEPT !.pc = "next", !.delta = delta]
  <2>1. req' = [req EXCEPT ![r] = row] /\ UNCHANGED <<level, ledger>>
    BY <1>2 DEF Resolved, Local, stateVars, IInv, TypeOK
  <2>2. /\ row.pc = "next" /\ row.user = req[r].user /\ row.op = req[r].op
        /\ row.lvl = req[r].lvl /\ row.lines = req[r].lines
        /\ row.cost = req[r].cost /\ row.delta = delta
    BY <1>r DEF ReqRow
  <2> HIDE DEF row
  <2>3. ItemsOK(row) /\ LevelOK(row)
    BY <1>2, <1>r, <2>2 DEF ItemsOK, LevelOK, Informed, Locked
  <2> QED
    BY <2>1, <2>3, HeldStep
<1>3. CASE ResolveRedeem(r)
  BY <1>2, <1>3 DEF ResolveRedeem, Resolving
<1>4. CASE \/ ResolvePurchase(r) \/ ResolveSpinReward(r)
           \/ ResolveMultiplier(r) \/ ResolveAdjustment(r)
  <2>1. req[r].pc = "points" /\ req[r].op.type # "redeem"
    BY <1>4 DEF ResolvePurchase, ResolveSpinReward, ResolveMultiplier,
                ResolveAdjustment, Resolving, OpOf
  <2>2. Throw(r) \/ \E delta : Resolved(r, delta)
    BY <1>4 DEF ResolvePurchase, ResolveSpinReward, ResolveMultiplier,
                ResolveAdjustment
  <2> QED
    BY <1>1, <1>2, <2>1, <2>2
<1>5. CASE ResolveBonus(r)
  <2>1. /\ req[r].pc = "points" /\ req[r].op.type # "redeem"
        /\ \/ \E delta : Resolved(r, delta)
           \/ /\ req' = [req EXCEPT ![r].pc = "create"]
              /\ UNCHANGED <<level, ledger>>
    BY <1>5 DEF ResolveBonus, Resolving, OpOf, Bonuses, Local, stateVars
  <2>2. ASSUME req' = [req EXCEPT ![r].pc = "create"],
               UNCHANGED <<level, ledger>>
        PROVE  CatalogueInv'
    <3> DEFINE row == [req[r] EXCEPT !.pc = "create"]
    <3>1. req' = [req EXCEPT ![r] = row]
      BY <2>2 DEF IInv, TypeOK
    <3>2. /\ row.pc = "create" /\ row.user = req[r].user /\ row.op = req[r].op
          /\ row.lvl = req[r].lvl /\ row.lines = req[r].lines
          /\ row.cost = req[r].cost
      BY <1>r DEF ReqRow
    <3> HIDE DEF row
    <3>3. ItemsOK(row) /\ LevelOK(row)
      BY <1>r, <2>1, <3>2 DEF ItemsOK, LevelOK, Informed, Locked
    <3> QED
      BY <2>2, <3>1, <3>3, HeldStep
  <2> QED
    BY <1>2, <2>1, <2>2
<1>6. CASE CreateSettings(r) /\ ~Throw(r)
  <2>1. PICK created, delta :
          /\ req[r].pc = "create"
          /\ req' = [req EXCEPT ![r].created = created, ![r].pc = "next",
                                ![r].delta = delta]
          /\ UNCHANGED <<level, ledger>>
    BY <1>6 DEF CreateSettings, Local, stateVars
  <2> DEFINE row == [req[r] EXCEPT !.created = created, !.pc = "next",
                                   !.delta = delta]
  <2>2. req' = [req EXCEPT ![r] = row]
    BY <2>1 DEF IInv, TypeOK
  <2>3. /\ row.pc = "next" /\ row.user = req[r].user /\ row.op = req[r].op
        /\ row.lvl = req[r].lvl /\ row.lines = req[r].lines
        /\ row.cost = req[r].cost
    BY <1>r DEF ReqRow
  <2> HIDE DEF row
  <2>4. req[r].op.type # "redeem"
    BY <1>r, <2>1 DEF RowOK, Bonuses
  <2>5. ItemsOK(row) /\ LevelOK(row)
    BY <1>r, <2>1, <2>3, <2>4 DEF ItemsOK, LevelOK, Informed, Locked
  <2> QED
    BY <2>1, <2>2, <2>5, HeldStep
<1>7. CASE ResolveNext(r) /\ ~Throw(r)
  <2>1. PICK next :
          /\ req[r].pc = "next"
          /\ req' = [req EXCEPT ![r].pc = "write", ![r].next = next]
          /\ UNCHANGED <<level, ledger>>
    BY <1>7 DEF ResolveNext, Local, stateVars
  <2> DEFINE row == [req[r] EXCEPT !.pc = "write", !.next = next]
  <2>2. req' = [req EXCEPT ![r] = row]
    BY <2>1 DEF IInv, TypeOK
  <2>3. /\ row.pc = "write" /\ row.user = req[r].user /\ row.op = req[r].op
        /\ row.lvl = req[r].lvl /\ row.lines = req[r].lines
        /\ row.cost = req[r].cost /\ row.delta = req[r].delta
    BY <1>r DEF ReqRow
  <2> HIDE DEF row
  <2>4. ItemsOK(row) /\ LevelOK(row)
    BY <1>r, <2>1, <2>3 DEF ItemsOK, LevelOK, Informed, Locked
  <2> QED
    BY <2>1, <2>2, <2>4, HeldStep
<1> QED
  BY <1>1, <1>3, <1>4, <1>5, <1>6, <1>7

\* What a redemption takes is recorded to the hundredth.
LEMMA StoredCost == \A c \in Nat : -Stored(-2 * c) = c
<1> SUFFICES ASSUME NEW c \in Nat PROVE -Stored(-2 * c) = c
  OBVIOUS
<1>1. CASE c = 0
  <2>1. Stored(0) = 0
    BY DEF Stored
  <2> QED
    BY <1>1, <2>1
<1>2. CASE c > 0
  BY <1>2 DEF Stored
<1> QED
  BY <1>1, <1>2

\* The commit of a redemption records its items with what they cost, and the
\* level it stores is none only if the customer has none.
LEMMA HeldWrite ==
  ASSUME IInv, CatalogueInv, NEW r \in Reqs, Write(r), ~Throw(r)
  PROVE  /\ CatalogueInv'
         /\ \E u \in Users :
               /\ \A v \in Users \ {u} : ledger'[v] = ledger[v]
               /\ level[u] # None => level'[u] # None
<1>r. /\ req[r] \in ReqRow /\ ItemsOK(req[r]) /\ LevelOK(req[r])
      /\ RowOK(r, req[r])
  BY DEF IInv, TypeOK, RequestsOK, CatalogueInv
<1>0. PICK u \in Users : u = req[r].user
  BY WriteFacts DEF User
<1> DEFINE row == [type |-> req[r].op.type, points |-> Stored(req[r].delta),
                   after |-> Stored(NextBalance(r)), lines |-> req[r].lines]
<1>1. /\ req[r].pc = "write"
      /\ ledger' = [ledger EXCEPT ![u] = Append(@, row)]
      /\ level' = [level EXCEPT ![u] = NextLevel(r)]
      /\ req' = [req EXCEPT ![r] = Idle]
  BY <1>0 DEF Write, User, OpOf, End
<1>2. ItemizedRow(row)
  <2>1. CASE req[r].op.type = "redeem"
    <3>1. /\ req[r].cost \in Nat /\ req[r].delta = -2 * req[r].cost
          /\ req[r].lines # {} /\ req[r].cost = Cost(req[r].lines)
      BY <1>r, <1>1, <2>1 DEF ItemsOK, ReqRow
    <3>2. -Stored(req[r].delta) = Cost(req[r].lines)
      BY <3>1, StoredCost
    <3> QED
      BY <2>1, <3>1, <3>2 DEF ItemizedRow
  <2>2. CASE req[r].op.type # "redeem"
    BY <1>r, <1>1, <2>2 DEF ItemsOK, ItemizedRow
  <2> QED
    BY <2>1, <2>2
<1> HIDE DEF row
<1>3. /\ ledger \in [Users -> Seq(LedgerRow)]
      /\ level \in [Users -> LevelIds \cup {None}]
      /\ req \in [Reqs -> ReqRow]
  BY DEF IInv, TypeOK
<1>4. /\ \A v \in Users \ {u} : ledger'[v] = ledger[v]
      /\ ledger'[u] = Append(ledger[u], row)
      /\ \A v \in Users \ {u} : level'[v] = level[v]
      /\ level'[u] = NextLevel(r)
  BY <1>1, <1>3
<1>5. level[u] # None => level'[u] # None
  BY <1>r, <1>0, <1>1, <1>4 DEF LevelOK, Informed, Locked, NextLevel
<1>6. ASSUME NEW v \in Users, NEW i \in DOMAIN ledger'[v]
      PROVE  ItemizedRow(ledger'[v][i])
  <2>1. CASE v # u
    BY <1>4, <1>6, <2>1 DEF CatalogueInv
  <2>2. CASE v = u
    <3>1. PICK n \in Nat : n = Len(ledger[u]) /\ DOMAIN ledger[u] = 1 .. n
      BY <1>3
    <3>2. Append(ledger[u], row) = [k \in 1 .. n + 1 |->
            IF k = n + 1 THEN row ELSE ledger[u][k]]
      BY <1>3, <3>1
    <3>3. /\ i \in 1 .. n + 1
          /\ ledger'[v][i] = row \/ (i \in 1 .. n /\ ledger'[v][i] = ledger[u][i])
      BY <1>4, <1>6, <2>2, <3>2
    <3> QED
      BY <1>2, <3>1, <3>3 DEF CatalogueInv
  <2> QED
    BY <2>1, <2>2
<1>7. ASSUME NEW q \in Reqs PROVE ItemsOK(req'[q]) /\ LevelOK(req[q])'
  <2>1. CASE q = r
    <3>1. req'[q] = Idle
      BY <1>1, <1>3, <2>1
    <3> QED
      BY <3>1, IdleHolds DEF LevelOK, Informed, Locked
  <2>2. CASE q # r
    <3>1. req'[q] = req[q] /\ ItemsOK(req[q]) /\ LevelOK(req[q])
          /\ RowOK(q, req[q])
      BY <1>1, <1>3, <2>2 DEF CatalogueInv, IInv, RequestsOK
    <3>2. req[q].pc \in Informed => req[q].user \in Users \ {u}
      BY <1>r, <1>0, <1>1, <2>2, <3>1 DEF RowOK, Informed, Locked
    <3> QED
      BY <1>4, <3>1, <3>2 DEF LevelOK
  <2> QED
    BY <2>1, <2>2
<1>8. ASSUME NEW q \in Reqs PROVE (ItemsOK(req[q]) /\ LevelOK(req[q]))'
  BY <1>7 DEF ItemsOK, LevelOK
<1>9. ASSUME NEW v \in Users, NEW i \in DOMAIN ledger'[v]
      PROVE  ItemizedRow(ledger[v][i])'
  BY <1>6 DEF ItemizedRow
<1> QED
  BY <1>4, <1>5, <1>8, <1>9 DEF CatalogueInv

\* Administrators and owners take levels and ledgers away and touch no
\* request.
LEMMA HeldAdmin ==
  ASSUME IInv, CatalogueInv, Admin
  PROVE  CatalogueInv'
<1>1. /\ UNCHANGED req
      /\ \A u \in Users : level'[u] \in {level[u], None}
      /\ \A u \in Users : ledger'[u] \in {ledger[u], <<>>}
  <2>1. CASE \E l \in LevelIds : RemoveLevel(l)
    BY <2>1 DEF RemoveLevel
  <2>2. CASE \E u \in Users : DeleteUser(u)
    BY <2>2 DEF DeleteUser, stateVars, IInv, TypeOK
  <2>3. CASE /\ ~\E l \in LevelIds : RemoveLevel(l)
             /\ ~\E u \in Users : DeleteUser(u)
    BY <2>3 DEF Admin, CreateLevel, UpdateLevel, CheckRemoveLevel,
                UpdateReward, RemoveReward, UpdateSettings, EnsureSettings,
                stateVars
  <2> QED
    BY <2>1, <2>2, <2>3
<1>2. ASSUME NEW q \in Reqs PROVE (ItemsOK(req[q]) /\ LevelOK(req[q]))'
  <2>1. /\ req'[q] = req[q] /\ ItemsOK(req[q]) /\ LevelOK(req[q])
        /\ RowOK(q, req[q])
    BY <1>1 DEF CatalogueInv, IInv, RequestsOK
  <2>2. req[q].pc \in Informed => req[q].user \in Users
    BY <2>1 DEF RowOK, Informed, Locked
  <2> QED
    BY <1>1, <2>1, <2>2 DEF ItemsOK, LevelOK
<1>3. ASSUME NEW v \in Users, NEW i \in DOMAIN ledger'[v]
      PROVE  ItemizedRow(ledger[v][i])'
  <2>1. ledger'[v] = ledger[v]
    BY <1>1, <1>3
  <2>2. ItemizedRow(ledger'[v][i])
    BY <1>3, <2>1 DEF CatalogueInv
  <2> QED
    BY <2>2 DEF ItemizedRow
<1> QED
  BY <1>2, <1>3 DEF CatalogueInv

\* What requests hold of the catalogue is inductive with IInv.
LEMMA HeldNext == IInv /\ CatalogueInv /\ [Next]_vars => CatalogueInv'
<1> SUFFICES ASSUME IInv, CatalogueInv, [Next]_vars PROVE CatalogueInv'
  OBVIOUS
<1>1. ASSUME NEW r \in Reqs, \E u \in Users, op \in Ops : Start(r, u, op)
      PROVE  CatalogueInv'
  BY <1>1, HeldBeforeLock
<1>2. ASSUME NEW r \in Reqs, Acquire(r)
      PROVE  CatalogueInv'
  BY <1>2, HeldBeforeLock
<1>3. ASSUME NEW r \in Reqs, CreateSettings(r)
      PROVE  CatalogueInv'
  BY <1>3, HeldPoints
<1>4. ASSUME NEW r \in Reqs, Step(r)
      PROVE  CatalogueInv'
  BY <1>4, HeldBeforeLock, HeldReads, HeldPoints, HeldThrow, HeldWrite
     DEF Step
<1>5. ASSUME NEW r \in Reqs, Fail(r)
      PROVE  CatalogueInv'
  BY <1>5, HeldThrow DEF Fail
<1>6. CASE Admin
  BY <1>6, HeldAdmin
<1>7. CASE UNCHANGED vars
  BY <1>7 DEF vars, CatalogueInv, ItemsOK, LevelOK, ItemizedRow
<1> QED
  BY <1>1, <1>2, <1>3, <1>4, <1>5, <1>6, <1>7 DEF Next

LEMMA HeldInit == Init => CatalogueInv
  BY IdleHolds DEF Init, CatalogueInv

\* What requests hold of the catalogue holds of every behaviour.
THEOREM CatalogueHeld == Spec => []CatalogueInv
  BY HeldInit, HeldNext, Invariant, PTL DEF Spec

\* Every redemption in the ledger took what its items cost, whatever
\* happened to the prices in between; nothing else has items.
THEOREM RedemptionsItemized == Spec => []RedemptionItemized
  BY ItemizedRows, CatalogueHeld, PTL

\* Posting points never takes a level away: the level a posting read is the
\* one it replaces, or an administrator has removed it since.
THEOREM LevelsKept == Spec => PostingKeepsALevel
<1>1. IInv /\ CatalogueInv /\ [Next]_vars =>
        [\A u \in Users :
           Len(ledger'[u]) > Len(ledger[u]) /\ level[u] # None
             => level'[u] # None]_vars
  <2> SUFFICES ASSUME IInv, CatalogueInv, [Next]_vars, NEW u \in Users,
                      Len(ledger'[u]) > Len(ledger[u]), level[u] # None
               PROVE  level'[u] # None
    OBVIOUS
  <2>1. PICK n \in Nat : n = Len(ledger[u])
    BY DEF IInv, TypeOK
  <2>2. ledger'[u] # ledger[u] /\ ledger'[u] # <<>>
    BY <2>1
  <2>3. CASE \E r \in Reqs : Write(r) /\ ~Throw(r)
    BY <2>2, <2>3, HeldWrite
  <2>4. CASE \E v \in Users : DeleteUser(v)
    BY <2>2, <2>4 DEF DeleteUser, IInv, TypeOK
  <2>5. CASE /\ ~\E r \in Reqs : Write(r) /\ ~Throw(r)
             /\ ~\E v \in Users : DeleteUser(v)
    BY <2>2, <2>5, OtherStepsUnseen DEF Unseen
  <2> QED
    BY <2>3, <2>4, <2>5
<1> QED
  BY <1>1, CatalogueHeld, Invariant, PTL DEF Spec, PostingKeepsALevel

-----------------------------------------------------------------------------
(* The loyalty levels: what resolveLevel yields for any catalogue. *)

\* A sequence of a finite set has all its elements.
LEMMA SeqCovers ==
  ASSUME NEW S, IsFiniteSet(S), NEW s \in SetToSeqs(S), NEW x \in S
  PROVE  \E i \in DOMAIN s : s[i] = x
<1>1. PICK n \in Nat : n = Cardinality(S)
  BY FS_CardinalityType
<1>2. s \in [1 .. n -> S] /\ \A i, j \in 1 .. n : i # j => s[i] # s[j]
  BY <1>1 DEF SetToSeqs
<1>3. s \in Injection(1 .. n, S)
  BY <1>2 DEF Injection, IsInjective
<1>4. Cardinality(1 .. n) = n
  BY <1>1, FS_Interval
<1>5. s \in Surjection(1 .. n, S)
  BY <1>1, <1>3, <1>4, FS_Injection
<1> QED
  BY <1>2, <1>5 DEF Surjection

\* A finite set that is not empty has an element of the highest rank.
LEMMA HighestExists ==
  ASSUME NEW S, IsFiniteSet(S), NEW rank \in [S -> Int]
  PROVE  \A T \in SUBSET S :
            T # {} => \E m \in T : \A x \in T : rank[x] <= rank[m]
<1> DEFINE G == {T \in SUBSET S :
             T # {} => \E m \in T : \A x \in T : rank[x] <= rank[m]}
<1>1. ASSUME NEW T \in SUBSET S, \A U \in SUBSET T : U # T => U \in G
      PROVE  T \in G
  <2> SUFFICES ASSUME T # {}
               PROVE  \E m \in T : \A x \in T : rank[x] <= rank[m]
    OBVIOUS
  <2>1. PICK y \in T : TRUE
    OBVIOUS
  <2> DEFINE U == T \ {y}
  <2>2. U \in G
    BY <1>1
  <2>3. CASE U = {}
    BY <2>3
  <2>4. CASE U # {}
    <3>1. PICK m \in U : \A x \in U : rank[x] <= rank[m]
      BY <2>2, <2>4
    <3>2. rank[m] \in Int /\ rank[y] \in Int /\ \A x \in T : rank[x] \in Int
      OBVIOUS
    <3>3. CASE rank[y] <= rank[m]
      BY <3>1, <3>2, <3>3
    <3>4. CASE rank[m] <= rank[y]
      BY <3>1, <3>2, <3>4
    <3> QED
      BY <3>2, <3>3, <3>4
  <2> QED
    BY <2>3, <2>4
<1> HIDE DEF G
<1>2. \A T \in SUBSET S : T \in G
  BY <1>1, SubsetInduction
<1> QED
  BY <1>2 DEF G

\* A finite set can be listed by ascending rank.
LEMMA AscendingExists ==
  ASSUME NEW S, IsFiniteSet(S), NEW rank \in [S -> Int]
  PROVE  \E s \in SetToSeqs(S) :
            \A i, j \in DOMAIN s : i < j => rank[s[i]] <= rank[s[j]]
<1> DEFINE Ascending(T) == \E s \in SetToSeqs(T) :
             \A i, j \in DOMAIN s : i < j => rank[s[i]] <= rank[s[j]]
           G == {T \in SUBSET S : Ascending(T)}
<1>1. ASSUME NEW T \in SUBSET S, \A U \in SUBSET T : U # T => U \in G
      PROVE  Ascending(T)
  <2>1. CASE T = {}
    <3>1. Cardinality(T) = 0
      BY <2>1, FS_EmptySet
    <3>2. <<>> \in [1 .. 0 -> T] /\ 1 .. 0 = {} /\ DOMAIN <<>> = {}
      OBVIOUS
    <3>3. <<>> \in SetToSeqs(T)
      BY <3>1, <3>2 DEF SetToSeqs
    <3> QED
      BY <3>2, <3>3
  <2>2. CASE T # {}
    <3>1. PICK m \in T : \A x \in T : rank[x] <= rank[m]
      BY <2>2, HighestExists
    <3> DEFINE U == T \ {m}
    <3>2. Ascending(U)
      BY <1>1
    <3>3. PICK n \in Nat : n = Cardinality(U)
      BY FS_Subset, FS_CardinalityType
    <3>4. Cardinality(T) = n + 1
      BY <3>3, FS_Subset, FS_RemoveElement, FS_CardinalityType
    <3>5. PICK s \in SetToSeqs(U) :
            \A i, j \in DOMAIN s : i < j => rank[s[i]] <= rank[s[j]]
      BY <3>2
    <3>6. s \in [1 .. n -> U] /\ \A i, j \in 1 .. n : i # j => s[i] # s[j]
      BY <3>3 DEF SetToSeqs
    <3> DEFINE t == [i \in 1 .. n + 1 |-> IF i = n + 1 THEN m ELSE s[i]]
    <3>7. t \in [1 .. n + 1 -> T]
      BY <3>6
    <3>8. \A i, j \in 1 .. n + 1 : i # j => t[i] # t[j]
      BY <3>6
    <3>9. t \in SetToSeqs(T)
      BY <3>4, <3>7, <3>8 DEF SetToSeqs
    <3>10. \A i, j \in 1 .. n + 1 : i < j => rank[t[i]] <= rank[t[j]]
      <4> SUFFICES ASSUME NEW i \in 1 .. n + 1, NEW j \in 1 .. n + 1, i < j
                   PROVE  rank[t[i]] <= rank[t[j]]
        OBVIOUS
      <4>1. i \in 1 .. n /\ t[i] = s[i] /\ s[i] \in T
        BY <3>6
      <4>2. CASE j = n + 1
        BY <3>1, <4>1, <4>2
      <4>3. CASE j # n + 1
        BY <3>5, <3>6, <4>1, <4>3
      <4> QED
        BY <4>2, <4>3
    <3> HIDE DEF t
    <3> QED
      BY <3>7, <3>9, <3>10
  <2> QED
    BY <2>1, <2>2
<1> HIDE DEF Ascending
<1>2. \A T \in SUBSET S : T \in G
  <2> HIDE DEF G
  <2>1. ASSUME NEW T \in SUBSET S, \A U \in SUBSET T : U # T => U \in G
        PROVE  T \in G
    BY <1>1, <2>1 DEF G
  <2> QED
    BY <2>1, SubsetInduction
<1> QED
  BY <1>2 DEF Ascending

\* The order of the rows, and that all of them are there.
LEMMA SortedFacts ==
  ASSUME IsFiniteSet(LevelIds), NEW cat \in Catalogue,
         NEW s \in SortedLevels(cat)
  PROVE  /\ \E len \in Nat : DOMAIN s = 1 .. len
         /\ \A i \in DOMAIN s : s[i] \in LevelsOf(cat)
         /\ \A i, j \in DOMAIN s : i < j => cat[s[i]].sort <= cat[s[j]].sort
         /\ \A k \in LevelsOf(cat) : \E i \in DOMAIN s : s[i] = k
<1>1. IsFiniteSet(LevelsOf(cat))
  BY FS_Subset DEF LevelsOf
<1>2. Cardinality(LevelsOf(cat)) \in Nat
  BY <1>1, FS_CardinalityType
<1>3. s \in SetToSeqs(LevelsOf(cat))
  BY DEF SortedLevels
<1>4. s \in [1 .. Cardinality(LevelsOf(cat)) -> LevelsOf(cat)]
  BY <1>3 DEF SetToSeqs
<1> QED
  BY <1>1, <1>2, <1>3, <1>4, SeqCovers DEF SortedLevels

LEMMA RowNumbers ==
  ASSUME NEW cat \in Catalogue, NEW l \in LevelsOf(cat)
  PROVE  l \in LevelIds /\ cat[l].min \in Nat /\ cat[l].sort \in Nat
<1>1. cat[l] \in LevelRow
  BY DEF Catalogue, LevelsOf
<1> QED
  BY <1>1 DEF LevelsOf, LevelRow

\* A resolved level is reached, and so is every level ordered before it.
LEMMA ReachedInOrder ==
  ASSUME IsFiniteSet(LevelIds), NEW cat \in Catalogue, NEW p \in Int,
         NEW l \in ResolveLevel(cat, p), l # None, NEW k \in LevelsOf(cat),
         k = l \/ cat[k].sort < cat[l].sort
  PROVE  l \in LevelsOf(cat) /\ Reached(cat, k, p)
<1>1. PICK s \in SortedLevels(cat) : \E n \in {0} \cup DOMAIN s :
        StopsAfter(cat, s, n, p) /\ l = IF n = 0 THEN None ELSE s[n]
  BY DEF ResolveLevel
<1>2. PICK n \in DOMAIN s : StopsAfter(cat, s, n, p) /\ l = s[n]
  BY <1>1
<1>3. PICK len \in Nat : DOMAIN s = 1 .. len
  BY SortedFacts
<1>4. PICK i \in DOMAIN s : s[i] = k
  BY SortedFacts
<1>5. l \in LevelsOf(cat)
  BY <1>2, SortedFacts
<1>6. CASE k = l
  BY <1>2, <1>3, <1>5, <1>6 DEF StopsAfter
<1>7. CASE cat[k].sort < cat[l].sort
  <2>1. ~(n < i)
    BY <1>2, <1>4, <1>5, <1>7, SortedFacts, RowNumbers
  <2>2. i \in 1 .. n
    BY <1>2, <1>3, <1>4, <2>1
  <2> QED
    BY <1>2, <1>4, <1>5, <2>2 DEF StopsAfter
<1> QED
  BY <1>6, <1>7

\* When it resolves to l, or to no level, and some level exists, there is a
\* next level in the order that is not reached, or every level is.
LEMMA StopsAtNext ==
  ASSUME IsFiniteSet(LevelIds), NEW cat \in Catalogue, NEW p \in Int,
         NEW l \in ResolveLevel(cat, p), NEW k \in LevelsOf(cat),
         l = None \/ cat[l].sort < cat[k].sort
  PROVE  \E x \in LevelsOf(cat) :
            ~Reached(cat, x, p) /\ cat[x].sort <= cat[k].sort
<1>1. PICK s \in SortedLevels(cat) : \E n \in {0} \cup DOMAIN s :
        StopsAfter(cat, s, n, p) /\ l = IF n = 0 THEN None ELSE s[n]
  BY DEF ResolveLevel
<1>2. PICK n \in {0} \cup DOMAIN s :
        StopsAfter(cat, s, n, p) /\ l = IF n = 0 THEN None ELSE s[n]
  BY <1>1
<1>3. PICK len \in Nat : DOMAIN s = 1 .. len
  BY SortedFacts
<1>4. PICK i \in DOMAIN s : s[i] = k
  BY SortedFacts
<1>5. n < i
  <2>1. CASE n = 0
    BY <1>3, <1>4, <2>1
  <2>2. CASE n # 0
    <3>1. n \in DOMAIN s /\ l = s[n] /\ l \in LevelsOf(cat) /\ l # None
      BY <1>2, <2>2, SortedFacts, LevelNoneAssumption DEF LevelsOf
    <3>2. ~(i < n) /\ i # n
      BY <1>4, <3>1, SortedFacts, RowNumbers
    <3> QED
      BY <1>3, <3>1, <3>2
  <2> QED
    BY <2>1, <2>2
<1>6. n + 1 \in DOMAIN s /\ (n + 1 = i \/ n + 1 < i)
  BY <1>2, <1>3, <1>5
<1>7. /\ s[n + 1] \in LevelsOf(cat) /\ ~Reached(cat, s[n + 1], p)
      /\ cat[s[n + 1]].sort <= cat[k].sort
  BY <1>2, <1>4, <1>6, SortedFacts, RowNumbers DEF StopsAfter
<1> QED
  BY <1>7

\* With distinct sort orders, more points never resolve to an earlier level
\* or to none.
THEOREM MoreNeverLower ==
  ASSUME IsFiniteSet(LevelIds), NEW cat \in Catalogue, DistinctSorts(cat),
         NEW p \in Int, NEW q \in Int, p <= q
  PROVE  NeverLower(cat, p, q)
<1> SUFFICES ASSUME NEW old \in ResolveLevel(cat, p), old # None,
                    NEW new \in ResolveLevel(cat, q)
             PROVE  new # None /\ cat[new].sort >= cat[old].sort
  BY DEF NeverLower
<1>0. \A k, l \in LevelsOf(cat) : cat[k].sort = cat[l].sort => k = l
  BY DEF DistinctSorts
<1>1. old \in LevelsOf(cat)
  <2>1. \E k \in LevelsOf(cat) : k = old
    <3>1. PICK s \in SortedLevels(cat) : \E n \in DOMAIN s : old = s[n]
      BY DEF ResolveLevel
    <3> QED
      BY <3>1, SortedFacts
  <2> QED
    BY <2>1
<1>2. new = None \/ new \in LevelsOf(cat)
  <2>1. PICK s \in SortedLevels(cat) : \E n \in {0} \cup DOMAIN s :
          new = IF n = 0 THEN None ELSE s[n]
    BY DEF ResolveLevel
  <2> QED
    BY <2>1, SortedFacts
<1> SUFFICES ASSUME new = None \/ cat[new].sort < cat[old].sort PROVE FALSE
  BY <1>1, <1>2, RowNumbers
<1>3. PICK x \in LevelsOf(cat) :
        ~Reached(cat, x, q) /\ cat[x].sort <= cat[old].sort
  BY <1>1, StopsAtNext
<1>4. x = old \/ cat[x].sort < cat[old].sort
  BY <1>0, <1>1, <1>3, RowNumbers
<1>5. Reached(cat, x, p)
  BY <1>4, ReachedInOrder
<1> QED
  BY <1>3, <1>5, RowNumbers DEF Reached

\* Where the sort orders follow the minimums, the loop over the rows is the
\* textbook rule: the level with the greatest minimum the points reach.
THEOREM HighestLevel ==
  ASSUME IsFiniteSet(LevelIds), NEW cat \in Catalogue, NEW p \in Int,
         Aligned(cat)
  PROVE  HighestWon(cat, p)
<1>0. \A k, l \in LevelsOf(cat) :
         cat[k].sort < cat[l].sort <=> cat[k].min < cat[l].min
  BY DEF Aligned
<1> DEFINE won == {l \in LevelsOf(cat) : Reached(cat, l, p)}
           top == {l \in won : \A k \in won : cat[k].min <= cat[l].min}
<1>a. won = {l \in LevelsOf(cat) : 2 * cat[l].min <= p}
  BY DEF Reached
<1>f. IsFiniteSet(LevelsOf(cat))
  BY FS_Subset DEF LevelsOf
<1>1. ASSUME NEW l \in ResolveLevel(cat, p)
      PROVE  l \in IF won = {} THEN {None} ELSE top
  <2>1. PICK s \in SortedLevels(cat) : \E n \in {0} \cup DOMAIN s :
          StopsAfter(cat, s, n, p) /\ l = IF n = 0 THEN None ELSE s[n]
    BY DEF ResolveLevel
  <2>2. l = None \/ l \in LevelsOf(cat)
    BY <2>1, SortedFacts
  <2>3. CASE l = None
    <3>1. ASSUME NEW k \in won PROVE FALSE
      <4>1. PICK x \in LevelsOf(cat) :
              ~Reached(cat, x, p) /\ cat[x].sort <= cat[k].sort
        BY <2>3, StopsAtNext
      <4> QED
        BY <1>0, <4>1, RowNumbers DEF Reached
    <3> QED
      BY <2>3, <3>1
  <2>4. CASE l # None
    <3>1. l \in won
      BY <2>2, <2>4, ReachedInOrder
    <3>2. ASSUME NEW k \in won PROVE cat[k].min <= cat[l].min
      <4> SUFFICES ASSUME cat[l].min < cat[k].min PROVE FALSE
        BY <3>1, RowNumbers
      <4>1. PICK x \in LevelsOf(cat) :
              ~Reached(cat, x, p) /\ cat[x].sort <= cat[k].sort
        BY <1>0, <3>1, StopsAtNext
      <4> QED
        BY <1>0, <4>1, RowNumbers DEF Reached
    <3> QED
      BY <3>1, <3>2
  <2> QED
    BY <2>3, <2>4
<1>2. ASSUME won = {} PROVE None \in ResolveLevel(cat, p)
  <2> DEFINE rank == [k \in LevelsOf(cat) |-> cat[k].sort]
  <2>1. rank \in [LevelsOf(cat) -> Int]
    BY RowNumbers
  <2>2. PICK s \in SetToSeqs(LevelsOf(cat)) :
          \A i, j \in DOMAIN s : i < j => rank[s[i]] <= rank[s[j]]
    BY <1>f, <2>1, AscendingExists
  <2>3. s \in [1 .. Cardinality(LevelsOf(cat)) -> LevelsOf(cat)]
    BY DEF SetToSeqs
  <2>4. s \in SortedLevels(cat)
    BY <2>2, <2>3 DEF SortedLevels
  <2>5. StopsAfter(cat, s, 0, p)
    BY <1>2, <2>3 DEF StopsAfter
  <2> QED
    BY <2>4, <2>5 DEF ResolveLevel
<1>3. ASSUME NEW l \in top PROVE l \in ResolveLevel(cat, p)
  <2> DEFINE rank == [k \in LevelsOf(cat) |->
                        2 * cat[k].sort + IF k = l THEN 1 ELSE 0]
  <2>1. rank \in [LevelsOf(cat) -> Int]
    BY RowNumbers
  <2>2. PICK s \in SetToSeqs(LevelsOf(cat)) :
          \A i, j \in DOMAIN s : i < j => rank[s[i]] <= rank[s[j]]
    BY <1>f, <2>1, AscendingExists
  <2>3. /\ s \in [1 .. Cardinality(LevelsOf(cat)) -> LevelsOf(cat)]
        /\ \A i, j \in 1 .. Cardinality(LevelsOf(cat)) :
              i # j => s[i] # s[j]
    BY DEF SetToSeqs
  <2>4. ASSUME NEW i \in DOMAIN s, NEW j \in DOMAIN s, i < j
        PROVE  /\ cat[s[i]].sort <= cat[s[j]].sort
               /\ s[i] = l => cat[l].sort < cat[s[j]].sort
    <3>1. s[i] \in LevelsOf(cat) /\ s[j] \in LevelsOf(cat) /\ i # j
      BY <2>3, <2>4
    <3>2. cat[s[i]].sort \in Nat /\ cat[s[j]].sort \in Nat
      BY <3>1, RowNumbers
    <3>3. /\ rank[s[i]] <= rank[s[j]] /\ (s[i] = l => s[j] # l)
      BY <2>2, <2>3, <2>4, <3>1
    <3> QED
      BY <3>1, <3>2, <3>3
  <2> HIDE DEF rank
  <2>5. s \in SortedLevels(cat)
    BY <2>4 DEF SortedLevels
  <2>6. PICK n \in DOMAIN s : s[n] = l
    BY <2>5, SortedFacts
  <2>7. PICK len \in Nat : DOMAIN s = 1 .. len
    BY <2>5, SortedFacts
  <2>8. ASSUME NEW i \in 1 .. n PROVE Reached(cat, s[i], p)
    <3>0. i \in DOMAIN s /\ s[i] \in LevelsOf(cat) /\ (i = n \/ i < n)
      BY <2>5, <2>7, <2>8, SortedFacts
    <3>1. s[i] \in LevelsOf(cat) /\ cat[s[i]].sort <= cat[l].sort
      <4>1. CASE i = n
        BY <2>6, <3>0, <4>1, RowNumbers
      <4>2. CASE i < n
        BY <2>4, <2>6, <3>0, <4>2
      <4> QED
        BY <3>0, <4>1, <4>2
    <3>2. cat[s[i]].min <= cat[l].min
      BY <1>0, <3>1, RowNumbers
    <3> QED
      BY <3>1, <3>2, RowNumbers DEF Reached
  <2>9. ASSUME n + 1 \in DOMAIN s PROVE ~Reached(cat, s[n + 1], p)
    <3>0. n < n + 1 /\ s[n + 1] \in LevelsOf(cat)
      BY <2>5, <2>7, <2>9, SortedFacts
    <3>1. s[n + 1] \in LevelsOf(cat) /\ cat[l].sort < cat[s[n + 1]].sort
      BY <2>4, <2>6, <2>9, <3>0
    <3>2. cat[l].min < cat[s[n + 1]].min
      BY <1>0, <3>1
    <3> QED
      BY <3>1, <3>2, RowNumbers
  <2>10. StopsAfter(cat, s, n, p)
    BY <2>8, <2>9 DEF StopsAfter
  <2>11. n # 0 /\ l \in LevelIds
    BY <2>7 DEF LevelsOf
  <2> QED
    BY <2>5, <2>6, <2>10, <2>11 DEF ResolveLevel
<1>4. won # {} => top # {}
  <2> DEFINE rank == [k \in LevelsOf(cat) |-> cat[k].min]
  <2>1. rank \in [LevelsOf(cat) -> Int]
    BY RowNumbers
  <2>2. won # {} => \E m \in won : \A x \in won : rank[x] <= rank[m]
    BY <1>f, <2>1, HighestExists
  <2> QED
    BY <2>2
<1>5. ResolveLevel(cat, p) = IF won = {} THEN {None} ELSE top
  BY <1>1, <1>2, <1>3
<1> HIDE DEF won
<1> QED
  BY <1>a, <1>5 DEF HighestWon

-----------------------------------------------------------------------------
(* Levels and rounding. *)

\* Rounding changes the level only of points it brings up to a minimum.
LEMMA RoundingReaches ==
  ASSUME NEW cat \in Catalogue, NEW p \in Nat,
         ~(p < 2 * Stored(p) /\ \E l \in LevelsOf(cat) :
                                  2 * cat[l].min = 2 * Stored(p))
  PROVE  ResolveLevel(cat, p) \subseteq ResolveLevel(cat, 2 * Stored(p))
<1> DEFINE kept == 2 * Stored(p)
<1>1. kept \in Int /\ (kept = p \/ kept = p + 1) /\ \E m \in Int : kept = 2 * m
  BY DEF Stored
<1>2. ~(p < kept /\ \E l \in LevelsOf(cat) : 2 * cat[l].min = kept)
  OBVIOUS
<1> HIDE DEF kept
<1>3. ASSUME NEW l \in LevelsOf(cat)
      PROVE  Reached(cat, l, p) <=> Reached(cat, l, kept)
  BY <1>1, <1>2, RowNumbers DEF Reached
<1>4. ASSUME NEW s \in SortedLevels(cat), NEW n \in {0} \cup DOMAIN s,
             StopsAfter(cat, s, n, p)
      PROVE  StopsAfter(cat, s, n, kept)
  <2>1. PICK len \in Nat : DOMAIN s = 1 .. len
    BY LevelIdsAssumption, SortedFacts
  <2>2. \A i \in DOMAIN s : s[i] \in LevelsOf(cat)
    BY LevelIdsAssumption, SortedFacts
  <2>3. 1 .. n \subseteq DOMAIN s
    BY <2>1
  <2> QED
    BY <1>3, <1>4, <2>2, <2>3 DEF StopsAfter
<1>5. ResolveLevel(cat, p) \subseteq ResolveLevel(cat, kept)
  BY <1>4 DEF ResolveLevel
<1> QED
  BY <1>5 DEF kept

\* A step of one request leaves the others as they are.
LEMMA OthersKept ==
  ASSUME IInv, NEW r \in Reqs,
         \/ \E u \in Users, op \in Ops : Start(r, u, op)
         \/ Acquire(r) \/ CreateSettings(r) \/ Step(r) \/ Fail(r)
  PROVE  \A q \in Reqs \ {r} : req'[q] = req[q]
<1> USE DEF Throw, End, IInv, TypeOK
<1>1. CASE \E u \in Users, op \in Ops : Start(r, u, op)
  BY <1>1 DEF Start
<1>2. CASE Acquire(r) \/ CreateSettings(r) \/ Fail(r)
  BY <1>2 DEF Acquire, CreateSettings, Fail
<1>3. CASE ReadRewards(r) \/ CheckFunds(r) \/ ReadState(r) \/ ReadLevel(r)
  BY <1>3 DEF ReadRewards, CheckFunds, ReadState, ReadLevel
<1>4. CASE \/ ResolveBonus(r) \/ ResolvePurchase(r) \/ ResolveSpinReward(r)
           \/ ResolveMultiplier(r) \/ ResolveRedeem(r)
           \/ ResolveAdjustment(r) \/ ResolveNext(r)
  BY <1>4 DEF ResolveBonus, ResolvePurchase, ResolveSpinReward,
              ResolveMultiplier, ResolveRedeem, ResolveAdjustment,
              ResolveNext, Resolved
<1>5. CASE Write(r)
  BY <1>5 DEF Write
<1> QED
  BY <1>1, <1>2, <1>3, <1>4, <1>5 DEF Step

\* Only resolving the level takes a credit on to its commit.
LEMMA CreditResolves ==
  ASSUME IInv, [Next]_vars, NEW r \in Reqs,
         req[r].pc = "next", req'[r].pc = "write", OpOf(r).mode = "credit"
  PROVE  req'[r].next \in ResolveLevel(levels, NextPeriod(r))
<1>1. req' # req
  OBVIOUS
<1>2. PICK q \in Reqs :
        \/ \E u \in Users, op \in Ops : Start(q, u, op)
        \/ Acquire(q) \/ CreateSettings(q) \/ Step(q) \/ Fail(q)
  BY <1>1 DEF Next, vars, Admin, CreateLevel, UpdateLevel, CheckRemoveLevel,
              RemoveLevel, UpdateReward, RemoveReward, UpdateSettings,
              EnsureSettings, DeleteUser
<1>3. q = r
  BY <1>2, OthersKept
<1>4. ~Throw(r)
  BY DEF Throw, End, Idle, IInv, TypeOK
<1>5. ResolveNext(r)
  BY <1>2, <1>3, <1>4
     DEF Step, Start, Acquire, CreateSettings, Fail, ReadRewards, CheckFunds,
         ReadState, ReadLevel, Resolving, ResolveBonus, ResolvePurchase,
         ResolveSpinReward, ResolveMultiplier, ResolveRedeem,
         ResolveAdjustment, Write
<1>6. PICK next \in ResolveLevel(levels, NextPeriod(r)) :
        req' = [req EXCEPT ![r].pc = "write", ![r].next = next]
  BY <1>4, <1>5 DEF ResolveNext
<1>7. req'[r].next = next
  BY <1>6 DEF IInv, TypeOK, ReqRow
<1> QED
  BY <1>6, <1>7

\* A level comes late, by rounding, only at exactly its minimum.
THEOREM RoundingOnlyDelays == Spec => OnlyRoundingDelaysALevel
<1>1. ASSUME IInv, [Next]_vars
      PROVE  [\A r \in Reqs :
                LET points == NextPeriod(r)
                    kept   == 2 * Stored(points)
                IN  /\ req[r].pc = "next"
                    /\ req'[r].pc = "write"
                    /\ OpOf(r).mode = "credit"
                    => \/ req'[r].next \in ResolveLevel(levels, kept)
                       \/ /\ points < kept
                          /\ \E l \in LevelsOf(levels) :
                               2 * levels[l].min = kept]_vars
  <2> SUFFICES ASSUME NEW r \in Reqs, req[r].pc = "next",
                      req'[r].pc = "write", OpOf(r).mode = "credit"
               PROVE  \/ req'[r].next \in ResolveLevel(levels,
                                                 2 * Stored(NextPeriod(r)))
                      \/ /\ NextPeriod(r) < 2 * Stored(NextPeriod(r))
                         /\ \E l \in LevelsOf(levels) :
                              2 * levels[l].min = 2 * Stored(NextPeriod(r))
    OBVIOUS
  <2>1. req'[r].next \in ResolveLevel(levels, NextPeriod(r))
    BY <1>1, CreditResolves
  <2>2. NextPeriod(r) \in Nat
    BY <1>1 DEF IInv, TypeOK, ReqRow, NextPeriod
  <2> QED
    BY <1>1, <2>1, <2>2, RoundingReaches DEF IInv, TypeOK
<1> QED
  BY <1>1, Invariant, PTL DEF Spec, OnlyRoundingDelaysALevel
=============================================================================
