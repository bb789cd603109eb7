---------------------------- MODULE PointsEngine ----------------------------
(***************************************************************************)
(* The points engine (points-engine.service.ts) and the services that call *)
(* it: adjust-points, points-redeem, the signup, birthday and spin awards. *)
(*                                                                         *)
(* The API serves requests concurrently.  A request runs one database      *)
(* transaction at READ COMMITTED, one statement per step: each statement   *)
(* sees what is committed when it runs, what the request writes becomes    *)
(* visible when it commits, and a request that throws, times out or dies   *)
(* with its process leaves nothing behind.  An advisory lock on a hash of  *)
(* the customer's id, held until the transaction ends, serialises the      *)
(* requests of one customer.  Meanwhile administrators edit levels,        *)
(* rewards and settings, and accounts are deleted, without that lock.      *)
(*                                                                         *)
(* A points_user_state row that does not exist reads as one of zeros       *)
(* (the engine creates it so, points-user-state returns it so): balance,   *)
(* period and level are total functions and row creation is no step.       *)
(***************************************************************************)
EXTENDS PointsLevels, FiniteSetsExt

CONSTANTS Users,            \* customers registered at the start
          Reqs,             \* slots for requests in flight
          LockKeys,         \* values of hashtext
          LockKey,          \* hashtext(userId): two customers may collide
          RewardIds,        \* ids of points_rewards rows
          Ops,              \* operations a client may ask for
          InitLevels,       \* catalogue at the start
          LevelRows,        \* rows an administrator may save
          InitRewards,      \* prices at the start, in hundredths
          Prices,           \* prices an administrator may set
          InitSettings,     \* settings row at the start, None if none yet
          DefaultSettings,  \* settings row the engine creates: bonus by type
          SettingsRows,     \* settings rows an administrator may save
          NumericMax,       \* greatest numeric(10,2), in hundredths
          MaxPostings       \* bound: postings and requests at a time

Bonuses == {"signup_bonus", "birthday_bonus"}

TransactionTypes ==
  Bonuses \cup {"purchase_earn", "spin_reward", "spin_multiplier",
                "redeem", "admin_adjustment"}

\* A request as its controller validated it.  amount is the purchase and
\* the spin reward in hundredths, the multiplier in halves, the adjustment in
\* half hundredths; basket gives the quantity of each reward to redeem.
Op == [type : TransactionTypes, mode : {"credit", "debit"}, amount : Nat,
       basket : [RewardIds -> Nat]]

SettingsRow == [Bonuses -> Nat]

\* A points_redeem_items row.
Line == [reward : RewardIds, quantity : Nat, price : Nat]

ASSUME EngineAssumption ==
  /\ None \notin Users \cup Reqs \cup RewardIds
  /\ None \notin Op \cup SettingsRow \cup Nat
  /\ LockKey \in [Users -> LockKeys]
  /\ Ops \subseteq Op
  /\ \A op \in Ops :
       /\ op.mode = "debit" => op.type \in {"redeem", "admin_adjustment"}
       /\ op.type = "redeem" => op.mode = "debit"
  /\ InitLevels \in Catalogue
  /\ LevelRows \subseteq LevelRow
  /\ InitRewards \in [RewardIds -> Nat]
  /\ Prices \subseteq Nat
  /\ InitSettings \in SettingsRow \cup {None}
  /\ DefaultSettings \in SettingsRow
  /\ SettingsRows \subseteq SettingsRow
  /\ NumericMax \in Nat
  /\ MaxPostings \in Nat

VARIABLES users,        \* rows of users
          balance,      \* points_user_state.current_balance
          period,       \* points_user_state.period_points_earned
          level,        \* points_user_state.current_level_id
          ledger,       \* points_transactions of each user, oldest first
          levels,       \* points_levels
          freshLevels,  \* level ids no row has had yet
          removing,     \* levels whose removal has passed its check
          rewards,      \* price of each points_rewards row
          settings,     \* the points_settings row
          lock,         \* holder of each advisory lock
          req           \* the requests in flight

stateVars == <<balance, period, level>>
levelVars == <<levels, freshLevels, removing>>
adminVars == <<levels, freshLevels, removing, rewards>>
vars == <<users, balance, period, level, ledger, levels, freshLevels,
          removing, rewards, settings, lock, req>>

\* Where a request stands: before its transaction, waiting for the lock, ...
BeforeLock == {"rewards", "funds", "queued"}

\* ... and in it, with the lock.
Locked == {"locked", "level", "points", "create", "next", "write"}

Idle == [pc |-> "idle", user |-> None, op |-> None, bal |-> 0, per |-> 0,
         lvl |-> None, cur |-> None, rate |-> 0, lines |-> {}, cost |-> 0,
         delta |-> 0, next |-> None, created |-> None]

Init ==
  /\ users = Users
  /\ balance = [u \in Users |-> 0]
  /\ period = [u \in Users |-> 0]
  /\ level = [u \in Users |-> None]
  /\ ledger = [u \in Users |-> <<>>]
  /\ levels = InitLevels
  /\ freshLevels = LevelIds \ LevelsOf(InitLevels)
  /\ removing = {}
  /\ rewards = InitRewards
  /\ settings = InitSettings
  /\ lock = [k \in LockKeys |-> None]
  /\ req = [r \in Reqs |-> Idle]

-----------------------------------------------------------------------------
(* Rounding.  numeric(10,2) rounds a half away from zero. *)

\* Mutant: rounds a half down.
StoredDown(h) == IF h >= 0 THEN h \div 2 ELSE -((-h) \div 2)

\* The column value of h half hundredths.
Stored(h) == IF h >= 0 THEN (h + 1) \div 2 ELSE -((1 - h) \div 2)

-----------------------------------------------------------------------------
(* Requests. *)

Active == {r \in Reqs : req[r].pc # "idle"}

Postings == MapThenSumSet(LAMBDA u : Len(ledger[u]), Users)

User(r) == req[r].user
OpOf(r) == req[r].op

\* Mutant: the lock outlives the transaction.
EndKeepingLock(r) == req' = [req EXCEPT ![r] = Idle] /\ UNCHANGED lock

\* The request ends: its transaction is over and its locks are released.
End(r) ==
  /\ req' = [req EXCEPT ![r] = Idle]
  /\ lock' = [k \in LockKeys |-> IF lock[k] = r THEN None ELSE lock[k]]

\* The request throws: the transaction rolls back and nothing is written.
Throw(r) ==
  /\ End(r)
  /\ UNCHANGED <<users, stateVars, ledger, adminVars, settings>>

\* Only the request itself moves on.
Local == UNCHANGED <<users, stateVars, ledger, adminVars, settings, lock>>

\* A request arrives and passes the checks on its input alone.  A multiplier
\* of one or less is refused before anything is read.
Start(r, u, op) ==
  /\ req[r].pc = "idle"
  /\ Postings + Cardinality(Active) < MaxPostings
  /\ op.type \in {"purchase_earn", "admin_adjustment"} => op.amount > 0
  /\ op.type = "spin_multiplier" => op.amount > 2
  /\ op.type = "redeem" => \E w \in RewardIds : op.basket[w] > 0
  /\ req' = [req EXCEPT ![r].pc = IF op.type = "redeem" THEN "rewards"
                                                        ELSE "queued",
                        ![r].user = u, ![r].op = op]
  /\ Local

-----------------------------------------------------------------------------
(* points-redeem.service.ts: what a redemption reads before the engine. *)

Basket(op) == {w \in RewardIds : op.basket[w] > 0}

\* Mutant: the quantity is forgotten.
CostPerKind(lines) == MapThenSumSet(LAMBDA x : x.price, lines)

Cost(lines) == MapThenSumSet(LAMBDA x : x.quantity * x.price, lines)

\* All rewards of the basket are read in one query and priced.
ReadRewards(r) ==
  /\ req[r].pc = "rewards"
  /\ IF /\ User(r) \in users
        /\ \A w \in Basket(OpOf(r)) : rewards[w] # None
     THEN LET lines == {[reward |-> w, quantity |-> OpOf(r).basket[w],
                         price |-> rewards[w]] : w \in Basket(OpOf(r))}
          IN  /\ Cost(lines) \in Nat          \* assertNonNegativeNumber
              /\ req' = [req EXCEPT ![r].pc = "funds", ![r].lines = lines,
                                    ![r].cost = Cost(lines)]
              /\ Local
     ELSE Throw(r)

\* The balance is checked once without the lock.
CheckFunds(r) ==
  /\ req[r].pc = "funds"
  /\ IF balance[User(r)] < req[r].cost
     THEN Throw(r)
     ELSE req' = [req EXCEPT ![r].pc = "queued"] /\ Local

-----------------------------------------------------------------------------
(* points-engine.service.ts: applyTransaction, statement by statement. *)

\* Mutant: the lock is not waited for.
AcquireAnyway(r) ==
  /\ req[r].pc = "queued"
  /\ lock' = [lock EXCEPT ![LockKey[User(r)]] = r]
  /\ req' = [req EXCEPT ![r].pc = "locked"]
  /\ UNCHANGED <<users, stateVars, ledger, adminVars, settings>>

\* pg_advisory_xact_lock.
Acquire(r) ==
  /\ req[r].pc = "queued"
  /\ lock[LockKey[User(r)]] = None
  /\ lock' = [lock EXCEPT ![LockKey[User(r)]] = r]
  /\ req' = [req EXCEPT ![r].pc = "locked"]
  /\ UNCHANGED <<users, stateVars, ledger, adminVars, settings>>

\* The user must exist; the state is read.
ReadState(r) ==
  /\ req[r].pc = "locked"
  /\ IF User(r) \in users
     THEN /\ req' = [req EXCEPT ![r].pc = "level",
                                ![r].bal = balance[User(r)],
                                ![r].per = period[User(r)],
                                ![r].lvl = level[User(r)]]
          /\ Local
     ELSE Throw(r)

\* The current level: the stored one, read again by its id, or the one the
\* period points resolve to when none is stored.
ReadLevel(r) ==
  /\ req[r].pc = "level"
  /\ \E cur \in IF req[r].lvl # None
                THEN {IF levels[req[r].lvl] # None THEN req[r].lvl ELSE None}
                ELSE ResolveLevel(levels, 2 * req[r].per) :
        req' = [req EXCEPT ![r].pc = "points", ![r].cur = cur,
                           ![r].rate = IF cur = None THEN 0
                                                     ELSE levels[cur].rate]
  /\ Local

\* The callback of the entry point has computed delta, in half hundredths.
Resolved(r, delta) ==
  /\ req' = [req EXCEPT ![r].pc = "next", ![r].delta = delta]
  /\ Local

Resolving(r, type) == req[r].pc = "points" /\ OpOf(r).type = type

\* awardSignupBonus, awardBirthdayBonus: the amount is in the settings.
ResolveBonus(r) ==
  \E type \in Bonuses :
     /\ Resolving(r, type)
     /\ IF settings # None
        THEN Resolved(r, 2 * settings[type])
        ELSE req' = [req EXCEPT ![r].pc = "create"] /\ Local

\* getPointsSettings creates the missing row.  While another transaction has
\* inserted it the unique index makes this one wait; once that is committed
\* the insert fails.
CreateSettings(r) ==
  /\ req[r].pc = "create"
  /\ \A q \in Reqs : req[q].created = None
  /\ IF settings = None
     THEN /\ req' = [req EXCEPT ![r].created = DefaultSettings,
                                ![r].pc = "next",
                                ![r].delta = 2 * DefaultSettings[OpOf(r).type]]
          /\ Local
     ELSE Throw(r)

\* awardPurchasePoints: amount times the earn rate of the current level.
ResolvePurchase(r) ==
  /\ Resolving(r, "purchase_earn")
  /\ IF req[r].cur = None
     THEN Throw(r)
     ELSE Resolved(r, OpOf(r).amount * req[r].rate)

\* awardSpinReward.
ResolveSpinReward(r) ==
  /\ Resolving(r, "spin_reward")
  /\ Resolved(r, 2 * OpOf(r).amount)

\* applySpinMultiplier: balance * multiplier - balance.
ResolveMultiplier(r) ==
  /\ Resolving(r, "spin_multiplier")
  /\ Resolved(r, req[r].bal * (OpOf(r).amount - 2))

\* redeemReward.
ResolveRedeem(r) ==
  /\ Resolving(r, "redeem")
  /\ Resolved(r, -2 * req[r].cost)

\* adminAdjustment.
ResolveAdjustment(r) ==
  /\ Resolving(r, "admin_adjustment")
  /\ Resolved(r, IF OpOf(r).mode = "debit" THEN -OpOf(r).amount
                                           ELSE OpOf(r).amount)

NextBalance(r) == 2 * req[r].bal + req[r].delta

\* Mutant: only purchases count towards the level.
NextPeriodOfPurchases(r) ==
  2 * req[r].per + IF OpOf(r).type = "purchase_earn" THEN req[r].delta ELSE 0

\* A debit adds nothing to the period points.
NextPeriod(r) ==
  2 * req[r].per + IF OpOf(r).mode = "credit" /\ req[r].delta > 0
                   THEN req[r].delta ELSE 0

\* Mutant: the balance is not checked again under the lock.
ResolveNextUnchecked(r) ==
  /\ req[r].pc = "next"
  /\ \E next \in IF OpOf(r).mode = "credit"
                 THEN ResolveLevel(levels, NextPeriod(r))
                 ELSE {req[r].cur} :
        req' = [req EXCEPT ![r].pc = "write", ![r].next = next]
  /\ Local

\* Mutant: the level is resolved from the points before the posting.
ResolveNextBefore(r) ==
  /\ req[r].pc = "next"
  /\ IF OpOf(r).mode = "debit" /\ NextBalance(r) < 0
     THEN Throw(r)
     ELSE /\ \E next \in IF OpOf(r).mode = "credit"
                         THEN ResolveLevel(levels, 2 * req[r].per)
                         ELSE {req[r].cur} :
                req' = [req EXCEPT ![r].pc = "write", ![r].next = next]
          /\ Local

\* A debit below zero throws; a credit resolves the level anew, a debit keeps
\* the current one.
ResolveNext(r) ==
  /\ req[r].pc = "next"
  /\ IF OpOf(r).mode = "debit" /\ NextBalance(r) < 0
     THEN Throw(r)
     ELSE /\ \E next \in IF OpOf(r).mode = "credit"
                         THEN ResolveLevel(levels, NextPeriod(r))
                         ELSE {req[r].cur} :
                req' = [req EXCEPT ![r].pc = "write", ![r].next = next]
          /\ Local

\* Mutant: a level that no longer resolves is dropped.
NextLevelOnly(r) == req[r].next

\* nextLevel?.id ?? state.currentLevelId
NextLevel(r) == IF req[r].next # None THEN req[r].next ELSE req[r].lvl

\* The database takes the rows: their foreign keys exist, their numbers fit.
Writable(r) ==
  /\ User(r) \in users
  /\ NextLevel(r) # None => levels[NextLevel(r)] # None
  /\ \A x \in req[r].lines : rewards[x.reward] # None
  /\ {Stored(NextBalance(r)), Stored(NextPeriod(r)), Stored(req[r].delta)}
       \subseteq -NumericMax .. NumericMax

\* The ledger row, the new state and the redeemed items are written and the
\* transaction commits, with the settings row it may have created.
Write(r) ==
  /\ req[r].pc = "write"
  /\ IF Writable(r)
     THEN LET u == User(r)
              row == [type |-> OpOf(r).type, points |-> Stored(req[r].delta),
                      after |-> Stored(NextBalance(r)), lines |-> req[r].lines]
          IN  /\ ledger' = [ledger EXCEPT ![u] = Append(@, row)]
              /\ balance' = [balance EXCEPT ![u] = Stored(NextBalance(r))]
              /\ period' = [period EXCEPT ![u] = Stored(NextPeriod(r))]
              /\ level' = [level EXCEPT ![u] = NextLevel(r)]
              /\ settings' = IF req[r].created # None THEN req[r].created
                                                    ELSE settings
              /\ End(r)
              /\ UNCHANGED <<users, adminVars>>
     ELSE Throw(r)

\* Anything may fail: a connection, the transaction's timeout, the process.
Fail(r) == req[r].pc # "idle" /\ Throw(r)

-----------------------------------------------------------------------------
(* Administrators and account owners. *)

CreateLevel(l, row) ==
  /\ l \in freshLevels
  /\ levels' = [levels EXCEPT ![l] = row]
  /\ freshLevels' = freshLevels \ {l}
  /\ UNCHANGED <<users, stateVars, ledger, removing, rewards, settings,
                 lock, req>>

UpdateLevel(l, row) ==
  /\ levels[l] # None
  /\ levels' = [levels EXCEPT ![l] = row]
  /\ UNCHANGED <<users, stateVars, ledger, freshLevels, removing, rewards,
                 settings, lock, req>>

\* remove, first statement: no state may have the level.
CheckRemoveLevel(l) ==
  /\ levels[l] # None
  /\ \A u \in Users : level[u] # l
  /\ removing' = removing \cup {l}
  /\ UNCHANGED <<users, stateVars, ledger, levels, freshLevels, rewards,
                 settings, lock, req>>

\* remove, second statement: the row goes and the foreign key of any state
\* that has it is set to null.
RemoveLevel(l) ==
  /\ l \in removing
  /\ levels' = [levels EXCEPT ![l] = None]
  /\ level' = [u \in Users |-> IF level[u] = l THEN None ELSE level[u]]
  /\ removing' = removing \ {l}
  /\ UNCHANGED <<users, balance, period, ledger, freshLevels, rewards,
                 settings, lock, req>>

UpdateReward(w, price) ==
  /\ rewards[w] # None
  /\ rewards' = [rewards EXCEPT ![w] = price]
  /\ UNCHANGED <<users, stateVars, ledger, levelVars, settings, lock, req>>

\* A new reward has an id no request can hold yet, so none is ever added.
\* The items already redeemed keep their price and the item's name.
RemoveReward(w) ==
  /\ rewards[w] # None
  /\ rewards' = [rewards EXCEPT ![w] = None]
  /\ UNCHANGED <<users, stateVars, ledger, levelVars, settings, lock, req>>

\* updateSettings creates the row if it is missing and then saves.
UpdateSettings(row) ==
  /\ settings = None => \A q \in Reqs : req[q].created = None
  /\ settings' = row
  /\ UNCHANGED <<users, stateVars, ledger, adminVars, lock, req>>

\* ensureSettingsExist, called by every read of the settings: when another
\* transaction is first, it reads that one's row.
EnsureSettings ==
  /\ settings = None
  /\ \A q \in Reqs : req[q].created = None
  /\ settings' = DefaultSettings
  /\ UNCHANGED <<users, stateVars, ledger, adminVars, lock, req>>

\* A user row goes with its ledger; points_user_state has no foreign key to
\* it and stays.  A customer who has spun the wheel cannot be deleted: the
\* spin, written with its ledger row, restricts it.
DeleteUser(u) ==
  /\ u \in users
  /\ \A i \in DOMAIN ledger[u] :
       ledger[u][i].type \notin {"spin_reward", "spin_multiplier"}
  /\ users' = users \ {u}
  /\ ledger' = [ledger EXCEPT ![u] = <<>>]
  /\ UNCHANGED <<stateVars, adminVars, settings, lock, req>>

-----------------------------------------------------------------------------
Step(r) ==
  \/ ReadRewards(r) \/ CheckFunds(r)
  \/ ReadState(r) \/ ReadLevel(r)
  \/ ResolveBonus(r) \/ ResolvePurchase(r) \/ ResolveSpinReward(r)
  \/ ResolveMultiplier(r) \/ ResolveRedeem(r) \/ ResolveAdjustment(r)
  \/ ResolveNext(r) \/ Write(r)

Admin ==
  \/ \E l \in LevelIds : \E row \in LevelRows :
        CreateLevel(l, row) \/ UpdateLevel(l, row)
  \/ \E l \in LevelIds : CheckRemoveLevel(l) \/ RemoveLevel(l)
  \/ \E w \in RewardIds : \E price \in Prices : UpdateReward(w, price)
  \/ \E w \in RewardIds : RemoveReward(w)
  \/ \E row \in SettingsRows : UpdateSettings(row)
  \/ EnsureSettings
  \/ \E u \in Users : DeleteUser(u)

Next ==
  \/ \E r \in Reqs :
        \/ \E u \in Users, op \in Ops : Start(r, u, op)
        \/ Acquire(r) \/ CreateSettings(r) \/ Step(r) \/ Fail(r)
  \/ Admin

\* The database runs every statement it is given, and serves the waiters for
\* a lock or a unique index in turn.
Fairness ==
  \A r \in Reqs : /\ WF_vars(Step(r))
                  /\ SF_vars(Acquire(r))
                  /\ SF_vars(CreateSettings(r))

Spec == Init /\ [][Next]_vars /\ Fairness

-----------------------------------------------------------------------------
(* Properties. *)

LedgerRow ==
  [type : TransactionTypes, points : Int, after : Nat, lines : SUBSET Line]

ReqRow ==
  [pc : {"idle"} \cup BeforeLock \cup Locked, user : Users \cup {None},
   op : Ops \cup {None}, bal : Nat, per : Nat, lvl : LevelIds \cup {None},
   cur : LevelIds \cup {None}, rate : Nat, lines : SUBSET Line, cost : Nat,
   delta : Int, next : LevelIds \cup {None}, created : SettingsRow \cup {None}]

\* The rows of every table and of every request have their types.  Balances,
\* and the balances recorded in the ledger, are naturals: applyTransaction
\* never lets a debit through that the balance does not cover.
TypeOK ==
  /\ users \subseteq Users
  /\ balance \in [Users -> Nat]
  /\ period \in [Users -> Nat]
  /\ level \in [Users -> LevelIds \cup {None}]
  /\ ledger \in [Users -> Seq(LedgerRow)]
  /\ levels \in Catalogue
  /\ freshLevels \subseteq LevelIds
  /\ removing \subseteq LevelIds
  /\ rewards \in [RewardIds -> Nat \cup {None}]
  /\ settings \in SettingsRow \cup {None}
  /\ lock \in [LockKeys -> Reqs \cup {None}]
  /\ req \in [Reqs -> ReqRow]

\* At most one request at a time is between taking a customer's lock and its
\* commit: what it read of the customer is still so when it writes.
OneWriterPerCustomer ==
  \A q, r \in Reqs :
     /\ q # r
     /\ req[q].pc \in Locked
     /\ req[r].pc \in Locked
     => User(q) # User(r)

\* The balance before row i of a customer's ledger.
Before(u, i) == IF i = 1 THEN 0 ELSE ledger[u][i - 1].after

\* Each row of u's ledger starts from the balance the row before it left, and
\* the last one leaves the balance.  Taking away points that are not whole
\* hundredths is recorded as one hundredth more than the balance loses.
Accounted(u) ==
  /\ \A i \in DOMAIN ledger[u] :
       \/ ledger[u][i].after = Before(u, i) + ledger[u][i].points
       \/ /\ ledger[u][i].points < 0
          /\ ledger[u][i].after = Before(u, i) + ledger[u][i].points + 1
  /\ balance[u] = Before(u, Len(ledger[u]) + 1)

\* The ledger accounts for the balance of every existing customer: the rows
\* of concurrent requests never overlap, none is lost, none applied twice.
LedgerExplainsBalance == \A u \in users : Accounted(u)

\* No customer can spend more than was ever credited: spins, bonuses,
\* corrections and purchases all count towards the period points, debits and
\* rounding never make the balance overtake them.
SpendsOnlyWhatWasEarned == \A u \in Users : balance[u] <= period[u]

\* A redemption's items cost what its ledger row takes, whatever happened to
\* the prices between reading them and the commit; only redemptions have any.
RedemptionItemized ==
  \A u \in Users : \A i \in DOMAIN ledger[u] :
     LET row == ledger[u][i]
     IN  IF row.type = "redeem"
         THEN /\ row.lines # {}
              /\ -row.points =
                   MapThenSumSet(LAMBDA x : x.quantity * x.price, row.lines)
         ELSE row.lines = {}

\* Posting points never takes a level away, even when the catalogue has
\* changed so that the points resolve to none.
PostingKeepsALevel ==
  [][\A u \in Users :
        Len(ledger'[u]) > Len(ledger[u]) /\ level[u] # None
          => level'[u] # None]_vars

\* The level is resolved from the period points before the column rounds
\* them.  It is the level of what the column keeps, except where rounding
\* brings the points up to the minimum of a level: that one comes late.
OnlyRoundingDelaysALevel ==
  [][\A r \in Reqs :
        LET points == NextPeriod(r)
            kept   == 2 * Stored(points)
        IN  /\ req[r].pc = "next"
            /\ req'[r].pc = "write"
            /\ OpOf(r).mode = "credit"
            => \/ req'[r].next \in ResolveLevel(levels, kept)
               \/ /\ points < kept
                  /\ \E l \in LevelsOf(levels) : 2 * levels[l].min = kept]_vars

\* Every request that arrives is answered: neither the advisory locks nor the
\* settings row can make requests wait for each other forever.
EveryRequestEnds ==
  \A r \in Reqs : req[r].pc # "idle" ~> req[r].pc = "idle"

\* "Cannot delete a loyalty level currently assigned to users."
AssignedLevelNotDeleted ==
  [][\A l \in LevelIds :
        levels[l] # None /\ levels'[l] = None
          => \A u \in Users : level[u] # l]_vars

\* The statement of the abstract ledger.
Statement ==
  [u \in Users |-> [i \in DOMAIN ledger[u] |->
     [points |-> ledger[u][i].points, after |-> ledger[u][i].after]]]

Abstract ==
  INSTANCE PointsLedger WITH open <- users, statement <- Statement

\* The engine implements the abstract ledger: whatever the interleaving, each
\* commit is one atomic posting and every other step changes nothing of it.
ImplementsLedger == Abstract!Spec
=============================================================================
