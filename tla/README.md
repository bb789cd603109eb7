# SwiftBack: specification, model checking and proofs

SwiftBack is the backend of a loyalty and ordering application (NestJS, Prisma, PostgreSQL).
This directory specifies the parts of it in which concurrent requests, failures and long
sequences of calls decide whether customers keep their points and their orders. The modules are
written from the code; paths below are relative to the repository.

## The system

One or more stateless API processes serve requests concurrently. All state is in one PostgreSQL
database, used through Prisma at the default isolation level, READ COMMITTED: a statement sees
what is committed when it runs, two statements of one handler may see different states, and
only statements inside `$transaction` roll back together. Files are in an external object
storage, text messages go through an external gateway. Nothing is queued or retried: a request
that throws or dies is over.

| component | state | operations | hard behaviour | what makes it correct |
|---|---|---|---|---|
| points engine (`points-engine`) | `points_user_state`, `points_transactions`, `points_redeem_items` | signup, purchase, spin, birthday, redeem, adjust | concurrent postings, rounding, catalogue edited meanwhile, failure in the middle | the ledger explains every balance, no overdraft, levels are kept |
| redemption, adjustment (`points-redeem`, `adjust-points`) | none of their own | price a basket, check the funds, post | prices and funds are read before the lock | what is taken is what the items cost |
| levels, rewards, settings (`points-level`, `points-reward`, `points-settings`) | the catalogue and one settings row | edit, remove, create once | check and write are separate statements | no level in use is removed, one settings row |
| orders (`orders`) | `orders`, `order_items`, `customer_order` | place, in-store, cancel, claim, edit, estimate, delete, award | nothing locks an order; the award follows the commit | points once per order, totals right, status rules |
| spin wheel (`spin-wheel`) | settings, prizes, spins | configure, spin | cooldown, prize drawn then written, posting in the same transaction | one spin per cooldown, a posting per spin, shares that add up but for rounding |
| authentication (`auth`) | users, one-time passwords with limits and blocks | send and verify codes, register, log in, change, delete | limits per phone and address, attempts, expiry, no transaction anywhere | codes sent, guesses and uses are limited as far as overlapping requests allow, one bonus per registration |
| users (`users`) | role, birthday, cashier's store | assign, confirm | role changes meanwhile, two confirmations | only cashiers have a store, a date is confirmed once |
| menu (`menu-categories`, `menu-items`), rewards | rows with positions; a reward per item | create, move, remove | positions shifted concurrently, checks outside transactions | distinct positions, one reward per item |
| stores, advertisements, images (`store`, `advertisement`, `*-images`, `supabase`) | rows, and files in an object storage | create, remove, switch, upload, delete | two storages without a common transaction, failure half-way | every image has its file, every file its image |
| reports, listings, dashboard, health, guards | none | read | none | |

How they interact: the order handlers and `adjust-points` call the engine's
`awardPurchasePoints`, redemption calls `redeemReward`, registration calls `awardSignupBonus`,
the wheel passes its own transaction to `awardSpinReward` and `applySpinMultiplier`. Nothing
calls `awardBirthdayBonus` yet. All share the database's rows: the engine reads the
catalogue and the settings that administrators edit; deleting an account cascades to its ledger
and detaches its orders; `awardOrderPoints` finds out by a query on the ledger whether an order
has been awarded.

`PROJECT.json` lists every component with its files and every hazard with its line.

## Modules

| module | models | extends |
|---|---|---|
| `PointsLevels` | `resolveLevel` as an operator over any catalogue, and what it promises of one | |
| `PointsLedger` | abstract: open accounts, balances, statements; an atomic posting | |
| `PointsEngine` | engine, redemption, adjustment, catalogue edits, account deletion | `PointsLevels`, instantiates `PointsLedger` |
| `PointsEngineProofs` | the theorems about the engine and the levels | `PointsEngine`, `SumLemmas`, TLAPS |
| `OrderRewards` | abstract: what customers may count on for the points of an order | |
| `Orders` | the order handlers and the award of points | instantiates `OrderRewards` |
| `OrdersProofs` | the theorems about orders | `Orders`, `SumLemmas` |
| `SpinTurns` | abstract: what a customer may count on who spins | |
| `SpinWheel` | saving the wheel, spinning it, the settings row, liveness of its requests | instantiates `SpinTurns` |
| `SpinWheelProofs` | the theorems about the wheel | `SpinWheel`, `SumLemmas` |
| `OneTimePasswords` | `sendOtp`, `verifyOtp`, and what uses up a verified code | |
| `OneTimePasswordsProofs` | the theorems about codes | `OneTimePasswords`, TLAPS |
| `Accounts` | registration and its bonus, verification, phones, roles, stores of cashiers, birthdays, deletion | |
| `AccountsProofs` | the theorems about accounts | `Accounts`, TLAPS |
| `Catalogue` | positions of categories and items, one reward per item | |
| `CatalogueProofs` | the theorems about positions and rewards | `Catalogue`, TLAPS |
| `Images` | stores, advertisements, items; upload, deletion, removal and switch, over database and storage | |
| `ImagesProofs` | the theorems about images and files | `Images`, TLAPS |
| `SumLemmas` | lemmas: induction over finite subsets, sums over finite sets | `FiniteSetTheorems`, TLAPS |
| `MC...` | values of the constants for TLC | the module they are named after |

### PointsLevels and PointsEngine

A request is a record `req[r]` whose `pc` names the statement it runs next, and the other fields
are the local variables of `redeem` and `applyTransaction`: the state it read (`bal`, `per`,
`lvl`), the level it works with (`cur`, `rate`), the priced basket (`lines`, `cost`), the points
(`delta`) and the level to store (`next`). One action is one database statement, except that

- the user's existence and the state row are read in one step (both under the lock, and only
  this request writes the state; a user deleted in between makes the write fail all the same);
- all writes of `applyTransaction` and the commit are one step, `Write`: the rows are invisible
  until then, and either all are written or, when a foreign key is missing or a number does not
  fit its column (`Writable`), none is.

`lock` is the advisory lock on `hashtext(userId)`; `LockKey` maps customers to keys in any way, so
the proofs cover collisions. `created` is a settings row inserted and not yet committed: the
unique index makes other inserters wait for it. `Fail` ends a request at any point, for a lost
connection, the timeout of an interactive transaction or the death of the process: the
transaction rolls back and its lock goes.

Points are in hundredths, what is computed before the database rounds it in half hundredths (a
half is the only fraction on which rounding directions disagree), earn rates in halves and
multipliers in halves. The error of floating-point sums is far below half a hundredth at the
sizes of `numeric(10,2)` and left out. The level of a posting is resolved before that rounding:
`OnlyRoundingDelaysALevel` says exactly when it is not the level of the points that are stored.
`HighestLevelWon` and `EarningNeverDemotes` say what `resolveLevel` gives: for every catalogue of three levels
and any period points (that part has no variable and is computed once), and for the catalogue of the moment
with the points its customers have. The first is stated for catalogues whose sort
orders follow their minimums. Nothing sees to that: for the others the loop stops at the
first level it does not pass and withholds those after it, though the DTO calls the minimum what is "required in the period
to reach this level" (`create-points-level.dto.ts:24`) and the sort order one "for display purposes" (42): with a level of
minimum 2 ordered before one of minimum 1, a customer with one point has neither. The code and the words disagree there. Not kept: cashier and store snapshot, reference and reason
of a ledger row, names and descriptions.

### Orders

A request has a `kind` (the handler) and a `pc`. A transaction is its reads, one step each,
followed by one step with all its writes: the rows it has updated before are locked until the
commit, so nobody can tell the difference. `claimOrder` is the exception, it reads the order
after it has updated the link and commits later: `LinkOrder`, `ReadClaimed`, `CommitClaim`, with
the row of `customer_order` locked in between (`Holding`). Writes set the columns the handler
names and leave the others as they are *by then* (`Updated(row, seen, dto)` distinguishes the row
now from the one read), which is what makes stale totals possible. What a handler uses of the row
it has read is `SeenByClaim`, `SeenByEdit`. The ledger rows of an order are kept for each customer (`awards`):
they go with the account of that customer, while `awardOrderPoints` asks for any of them (`Awarded`).

The menu, the active stores and the assignment of cashiers are edited at any time by other
components: here they are any prices, any store, or a refusal. The engine is `Award` or `AwardFails`:
it posts atomically (that is what `PointsEngine` shows of it) or fails and is
logged. Two history variables are no code: `overlapped`, the orders that two requests have handled
at once, and `forgone`, those whose award was for nothing, failed, or died with its process.
Columns that nothing here depends on (note, phone, estimated time) are left out.

`ImplementsRewards` is the promise `OrderRewards` makes to customers, without requests or
columns: an order is entered, claimed, finished, revised and removed; entering, claiming or
finishing it as a finished order makes its goods due to its owner if nothing has been
posted for it yet; what is due is posted, once, or forgone. `Book` is what the rows say of an order, `Dues` what
the request in flight is still to post, `Paid` the ledger. The promise is made of orders outside `overlapped`
(`Contend` ends it): for the others the code keeps none of it, as the violation runs show.

An account's orders outlive it. The schema calls the link of such an order null "same as a never-claimed guest
order" (`schema.prisma:438-441`), but that of a guest order is the guest's
account, the only one `claimOrder` accepts: a claim of an order left behind is always refused. The code and the words disagree there. Two customers who claim one guest order at once
both pass the check, and the one who writes last has it: no property says
otherwise, and `AwardsBounded` limits what the two are awarded.

Claims and
cancellations are made by customers; any account may make them, a cashier's is one more.

### SpinWheel

A spin is `StartSpin`, `Acquire` (the advisory lock), `ReadCooldown` (the settings row, created if
missing, and the last spin), `Draw` (the active prizes, one of which is copied into the request), `CommitSpin`
(spin row, posting and a created settings row, which become visible together). The draw is any
prize with a share, which is what `selectWeightedPrize` can return: its roll is below the sum of the
weights, so a prize of weight 0 is never reached, and with a sum of 0 `randomInt` throws. The
posting is what the wheel asks of the engine; the arithmetic is in `PointsEngine`, and the
refusal of a multiplier of one or less, which rolls the spin back, is here (`Payable`).
`saveConfig` reads the ids to delete outside its transaction (`ReadIds`) and writes by id
(`ApplyConfig`); a spin keeps what it won, but not its prize, when that is deleted. Time is counted in hours up to `MaxTime`.

`ImplementsTurns` is `SpinTurns` without requests and locks: a customer takes one turn at a time;
it begins when the cooldown in force has passed (`ReadCooldown`), draws from what is on the wheel then (`Draw`), and is
recorded and paid in one step (`CommitSpin`) or comes to nothing. `Begun` and `Drawn` collect the
requests at these statements: that there is at most one per customer is what the lock is for. `CooldownInForce` is the
default as long as there is no settings row, also while a spin has inserted one.

A percentage of the DTO may have any decimals. `validateActiveProbabilitySum` checks it as JavaScript rounds
it (`checked`), and the column `numeric(5,2)` keeps it as the database rounds it (`row.weight`): the two differ by at most one basis
point, as in 1.005 and 99, which are accepted as 100% and stored as 100.01%. An `Entry` has both, related
only by that. So the wheel that is stored adds up but for one basis point per active prize (`WheelAddsUp`), from below
unless a save named a prize twice, when the last row of it stays, and from above unless saves overlapped, when each leaves
the prizes the other created (`distorted`): nothing locks the wheel, and nothing checks the ids of a request for
repetitions. `SharesBounded` holds under every interleaving: the active prizes are never worth more than one wheel
for each request in flight. The wheel at the start is empty, as after the migrations, or as a save leaves it (`WheelAssumption`).

### OneTimePasswords

Every query of `otps` names a purpose, so one behaviour is about one `purpose`. The table is a function by
id; a row has its place in the order of `createdAt` (`older`), by which the queries find the latest. A request has a `pc`
for its next statement; a row keeps what limits and verification depend on: status, attempts,
level and count of the limit, whether it is `blocked` or expired (`late`). The five minutes, the hour and
the day are nondeterministic `Expire` and `Unblock`.

Requests arrive at any time, any number of a phone at once, and die at any statement: the code has
no lock, no transaction and no unique index here. The properties say what remains.

- `PhoneLimitHolds`: two codes per phone until a block ends or a code is used. It excepts a phone
  from the moment two requests for its codes overlap, or one is broken off between deleting the
  old row and creating the new one (`crowded`). For these there is no limit at all:
  overlapping requests store the same count, and so on for ever, and a broken-off one takes the count along with the row.
- `CodesBounded`, under every interleaving: a phone has no more codes than there are requests in flight.
- `GuessesBounded`, under every interleaving: verifications that overlap write back the attempts they have read,
  so that each answer may give back the attempts the others counted. `Answers[n]` is what can come
  of a code with n attempts left: one request's own answer, and what any of the others can do once it has
  written back its count. It is `MaxAttempts` with one request in flight, and has no shorter form with more.
- `CodeUsesBounded`: each request in flight can use a code once, also when the row was
  deleted and another code sent: `verifyOtp` marks the account verified first, by its id (243-246), and only then
  finds that the row has gone. It excepts codes whose request died between the two (`left`), which stay valid.

The history variables `sent`, `wrong` and `uses` count these, and `crowded` and `left` name the exceptions.

### Accounts

No handler uses a transaction, so each statement of a handler is a step, except where the
lookup only throws earlier what the unique index or the missing row make the write throw.
The history variables say what would otherwise be invisible: `proven` (a code was shown
for the phone, or an administrator gave it), `due` (registrations whose bonus has not been lost), `sworn` (how often the birthday was
confirmed), `demoted` (was a cashier).
A date of birth is kept as who gave it: the registration, the user, an administrator. `confirmDob` reads `isDobConfirmed` and
updates by id, so overlapping confirmations all write, although `users.controller.ts:117` says that a confirmed
date cannot be changed: `ConfirmedOnce` is violated, `ConfirmationsBounded` says what holds. An administrator's update writes
the date without looking at the flag, confirmed or not (`auth.service.ts:604-606`). `OnlyCashiersHaveStores` excepts `demoted`: `updateUserByAdmin` leaves the
store of a user who is no cashier any more. `SignupBonusOnce` excepts registrations that break off
between the account and its bonus: the phone is then taken, so it cannot be made up for.

### Catalogue

`place` has the list (the menu, or a category) and the position of every category and item. Both
services have the same two statements in a transaction: shift, then write. At READ COMMITTED the
shift finds its rows when it starts (`StartCreate`, `FindRows`), waits for those another
transaction has changed (`Locked`) and looks at those again, but sees no new ones (`ShiftRows`);
two creations at one position can therefore both get it. `PositionsDistinct` excepts lists that two
requests changed at once or that got an item without a shift (`disturbed`): a PATCH with a
new category and no new position moves the item to wherever its old position is there. `OneRewardPerItem`
excepts items two requests wanted a reward for at once (`contested`): there is no unique index. An id
stands for a new row only when no request has it any more (`Unused`).

### Images

The three image services are one program over three tables and buckets: an image row names a
file. Each file of an upload is a request of its own (`Promise.all`). The storage refuses a name
that exists; names are the time and the original name, so two uploads have the same name only
within one millisecond (`NameFor`). What breaks off stays as it is: `leaked` are files whose row was never
written or went by cascade, `spoiled` are rows whose files were removed before the rows could
be. Outside these, rows and files agree: files are removed before rows on purpose, so a deletion that
broke off can be repeated. Of a store and an advertisement only `isActive` is kept.

## Runs

| run | module, cfg | what it shows |
|---|---|---|
| `engine` | `MCPointsEngine` | eight properties of two concurrent requests of one customer, among them the refinement of `PointsLedger`; and two of `resolveLevel`, for every catalogue of three levels: when the sort orders follow the minimums the highest level reached wins, when they are distinct earning never demotes |
| `engine_waiting` | `MCPointsEngineWaiting` | with two customers and a missing settings row every request ends |
| `engine_removal` | `MCPointsEngineRemoval` | **violated**: a level is deleted that a customer got between check and delete |
| `orders` | `MCOrders` | seven properties of one order handled by two requests at a time, any number of them in sequence, among them the refinement of `OrderRewards` |
| `orders_double_award` | `MCOrdersDoubleAward` | **violated**: two overlapping requests award one order twice |
| `orders_late_cancel` | `MCOrdersLateCancel` | **violated**: a late cancellation overwrites IN_PROGRESS or FINISHED |
| `spin_wheel` | `MCSpinWheel` | `SpinTurns` is implemented (simultaneous spins keep the cooldown, what was drawn is paid once, with its spin), the shares add up but for rounding, overlapping saves make several wheels at most, every spin and save ends |
| `one_time_passwords` | `MCOneTimePasswords` | limits per phone that shares its address with another; codes, guesses and uses of a code, whatever overlaps or breaks off |
| `accounts` | `MCAccounts` | bonus once per registration, only proven phones log in, birthdays confirmed no more often than requests overlap, stores for cashiers only |
| `accounts_confirmed_twice` | `MCAccountsConfirmedTwice` | **violated**: two overlapping confirmations both write the date |
| `catalogue` | `MCCatalogue` | positions of two lists and the rewards under two requests at once |
| `images` | `MCImages` | rows and files agree whatever overlaps or breaks off |

The four violated properties state what a comment, an API description or an error message of the code says;
`findings` in `PROJECT.json` quotes them. Each has a repair the models point at: make the update
conditional on the status it was checked against (`updateMany ... where status`), put the delete
of a level under a restricting foreign key, make the award unique per order in the ledger, confirm a date only `where isDobConfirmed` is false.

Of the passing properties of `Orders`, `AwardsBounded`, `FeeFollowsType` and the types hold under every
interleaving. `FinishedOrderRewarded`, `TotalCoversItems`,
`AwardIsCurrent` and `ImplementsRewards` are stated for orders that are not in
`overlapped`: as long as requests about an order come one after the other, in any sequence and
with deletions of the order or the account in the middle, each of them holds; when they
overlap the code guarantees none of them, and the runs of the double award and the late cancellation show two of them fail.

### Bounds

- `engine`: one customer, two requests, three postings in all (`MaxPostings` bounds the ledger and
  the requests in flight), two levels, one reward, `NumericMax` = 6 hundredths so that overflow happens.
  Two requests suffice for every race on one customer; the proofs cover any number. Requests
  are interchangeable (symmetry). The two properties of `resolveLevel` range over catalogues of three levels, minimums and sort
  orders from 0 to 2, period points up to three hundredths: a level below, at and above the point where the loop
  breaks, in any order, with equal minimums and equal sort orders.
- `engine_waiting`: two customers, because requests of one customer never meet at the settings
  row; no symmetry, since it is a liveness property.
- `orders`: one order, two customers, one cashier, one store, two items, two requests. Orders do
  not influence each other. There is no bound on the number of requests: the state space is
  finite. Amounts are chosen so that totals typed in, computed, with and without fee differ.
  With one store, moving an order between stores is checked for its guard but not exercised.
- `spin_wheel`: one customer, two requests, three prizes, four configurations (with a prize the
  engine refuses, an inactive one, one named twice, and percentages stored higher than checked), a wheel of ten basis points, a cooldown of one or two hours,
  two hours (`MaxTime` 1), so that a second spin is in time after one hour and too early after two, no settings row at first. No symmetry
  (liveness). Other customers share only the settings row; two requests already wait for it.
- `one_time_passwords`: two requests. Under CHANGE_PHONE the limits: two phones and one address, so that the limit of the address meets that of either
  phone, and nobody enters a code. Under the other two purposes one phone whose codes are sent, entered, guessed at and used
  by both requests. Two levels in place of three (the last one stays, the length of a block is not kept), two
  attempts in place of five, the least with a wrong code that leaves the code valid, four rows (`MaxId`), two per phone: a creation only waits while the other
  request still names rows that are gone. States are compared by a VIEW that leaves out what no step reads any more: attempts and age of a
  row that is not pending, and the counts of a row to which nothing can be added; whether these counts are within
  their bounds is part of the view, so that a state that breaks a bound is not merged with one that does not.
- `accounts`: two accounts, two phones, two roles, one store, two requests: enough for a phone to be
  taken, freed and taken again while it is being verified. A VIEW merges the states that differ
  only in who gave a date of birth that is not the registration's any more: no step reads it and no property tells it apart.
- `catalogue`: two categories, two items, two rewards, two positions. Behaviours go on until two lists or items (`OneSpoiled`) are
  out of order; the states reached there are checked as well.
- `images`: one owner of each kind, two images, two file names, two requests.
- Ids of deleted rows stand for new ones once nothing refers to them, so these runs need no bound on the
  number of requests.
- Deadlock is not checked for the engine because `MaxPostings` ends the behaviours; it is checked
  for all the others.

### Fairness

`PointsEngine` assumes weak fairness of every statement (the database runs what it is given) and
strong fairness of taking the advisory lock and of inserting the settings row: PostgreSQL serves
waiters in turn, so one that is able to go on again and again will. A request need not arrive
and nothing need fail. `SpinWheel` assumes the same: weak fairness of `Draw`, `CommitSpin` and `ReadIds`,
strong fairness of what waits for the advisory lock or the settings row. It does not assume that
time passes or that anybody spins. The other modules state no liveness
property and assume no fairness: their requests wait for nothing but row locks of transactions that end.

## Proofs

`PointsEngineProofs` proves, for every number of customers, requests, levels and rewards, every
catalogue, price and hash, from the assumptions `LevelNoneAssumption`, `LevelIdsAssumption` (the
levels ever created are finitely many) and `EngineAssumption`, all about the constants and evaluated by TLC in the runs:

| theorem | statement |
|---|---|
| `Invariant` | `Spec => []IInv` |
| `TypeCorrect` | `Spec => []TypeOK`: balances, also those in the ledger, are natural numbers |
| `Serialised` | `Spec => []OneWriterPerCustomer` |
| `LedgerCorrect` | `Spec => []LedgerExplainsBalance` |
| `EarnedBeforeSpent` | `Spec => []SpendsOnlyWhatWasEarned` |
| `Refinement` | `Spec => ImplementsLedger` |

The invariant `IInv` is the type invariant, the two properties of balances, and `RowOK(r, req[r])` for
every request: between lock and commit `r` holds the lock of its customer; after the read,
what it read of balance and period is *still* the customer's; before the write the points have
the sign of the mode; at the write a debit is covered. Only with it are the properties
inductive: `LedgerExplainsBalance` alone says nothing of a request that is about to write from an
old balance. That no two requests hold one key follows from `lock` being a function. The
arithmetic is in three lemmas on `Stored` (type, monotony, and that the rounded sum is the sum of
the rounded parts or one hundredth more when points are taken); then there is one lemma per group
of actions.

The refinement maps the ledger to the statement of the abstract module and `users` to the open
accounts. A commit is a `Post` (`WritePosts`), deleting an account a `Close` (`DeleteCloses`), every other step a
stutter (`OtherStepsUnseen`).

`AccountsProofs` proves the five properties that hold of `Accounts`, for any number of accounts, phones,
roles, stores and requests, from `AccountsAssumption` (the null value is no id, phone or row):

| theorem | statement |
|---|---|
| `AccountsInvariant` | `Spec => []IInv` |
| `AccountsTypeCorrect` | `Spec => []TypeOK`: also, no two accounts have one phone |
| `BonusPaidOnce` | `Spec => []SignupBonusOnce` |
| `ProvenBeforeLogin` | `Spec => []VerifiedPhoneProven` |
| `ConfirmationsAreBounded` | `Spec => []ConfirmationsBounded` |
| `StoresOfCashiers` | `Spec => []OnlyCashiersHaveStores` |

Nothing locks an account, so the invariant says what of a lookup *survives* until the statement
that relies on it. `RequestOK`: if the account is still there, a bonus about to be posted has not
been posted, an account about to be marked verified is proven, one about to get a store is or was
a cashier's. `PairsOK`: two requests never post the bonus of one account. `DobOK`: a date that is confirmed has been
confirmed, and is about to be, by at most as many requests as there are; one that is not has never been, since
no request starts to write a confirmed date and none takes the flag away.
`Forgotten`: nothing is remembered of an account that is gone, so that its id can stand for a new one. What
makes it inductive is that handlers update by id and ids are not used twice (`Unused`): a deleted
account makes the write throw, whoever has its phone by then. The lemmas are one per handler's statement,
over five about what they share: a request that throws, moves on or ends, a row that is replaced, a
phone that changes.

`PointsEngineProofs` has three more groups of results. `CatalogueInv` says what a request *holds* of rows
that administrators edit while it runs: the items it redeems with the prices it read, a cost that
is their sum and a `delta` of minus twice that sum (half hundredths); and that the level it read is still the customer's unless
the level was removed since. With `IInv` it is inductive, the lock being what keeps other
postings from changing the level (`HeldWrite`). The pure results about `resolveLevel` hold for
every finite set of levels; they need that a finite set can be listed by any rank (`AscendingExists`) and that
such a list has every element (`SeqCovers`).

| theorem | statement |
|---|---|
| `CatalogueHeld` | `Spec => []CatalogueInv` |
| `RedemptionsItemized` | `Spec => []RedemptionItemized` |
| `LevelsKept` | `Spec => PostingKeepsALevel` |
| `HighestLevel` | `Aligned(cat)` implies `HighestWon(cat, p)` |
| `MoreNeverLower` | `DistinctSorts(cat)` and `p <= q` imply `NeverLower(cat, p, q)` |
| `RoundingOnlyDelays` | `Spec => OnlyRoundingDelaysALevel` |

The last one rests on `RoundingReaches`: when points and their rounding lie on different sides of a
minimum, which is a whole hundredth, the rounding is exactly that minimum; if there is no such
level the two resolve alike.

`SpinWheelProofs`, for any number of customers, requests, prizes and configurations, from `WheelAssumption`:

| theorem | statement |
|---|---|
| `SpinWheelInvariant` | `Spec => []IInv` |
| `SpinWheelTypeCorrect` | `Spec => []TypeOK` |
| `CooldownAlwaysKept` | `Spec => []CooldownKept` |
| `SpinsArePaid` | `Spec => []EverySpinPaid` |
| `WheelAlwaysAddsUp` | `Spec => []WheelAddsUp` |
| `SharesAreBounded` | `Spec => []SharesBounded` |
| `TurnsPromised` | `Spec => ImplementsTurns` |

`SpinOK`: a spin that has computed its cooldown holds the customer's lock, so the last spin it
read is still the last when it commits. `SaveOK`: what a save is about to delete is exactly
what it does not name, unless saves overlapped; then the stored shares are those of the request, each a basis point
off at most, and the step from one sum to the other is a lemma of `SumLemmas` on sums over a bijection.
`SharesBounded` is not inductive: a save that is written leaves what it has not seen. `SharesOK` says of every set of saves
about to be written that what none of them names or deletes is worth a wheel less for each of them; a new save has seen
everything, so nothing is left besides it.
The refinement of `SpinTurns` needs one invariant more, `MadeOK`: there is one inserted settings row at most, and until it is
committed none, so that its commit changes nothing of the cooldown in force. That a request makes
up the whole turn of its customer (`TurnOfRequest`) follows from the lock (`OneTurn`).

`OrdersProofs`, for any number of orders, customers, cashiers, stores, items and
requests, from `OrdersAssumption`:

| theorem | statement |
|---|---|
| `OrdersInvariant` | `Spec => []IInv` |
| `OrdersTypeCorrect` | `Spec => []TypeOK` |
| `AwardedOncePerOrder` | `Spec => []PointsOncePerOrder` |
| `OverlapIsBounded` | `Spec => []AwardsBounded` |
| `OwnerIsRewarded` | `Spec => []FinishedOrderRewarded` |
| `TotalsAddUp` | `Spec => []TotalCoversItems` |
| `FeesFollowTypes` | `Spec => []FeeFollowsType` |
| `AwardsAreCurrent` | `Spec => []AwardIsCurrent` |
| `RewardsPromised` | `Spec => ImplementsRewards` |

No handler locks an order, so the invariant is mostly conditional. `StageOK` says which variables a request
has at each statement and holds always; `RelyOK` says that what it read is still so, and holds of
orders outside `overlapped`, where it is the only request (`Alone`). `HoldOK` is the row lock
of a claim. `OneAward` and `RewardComes` say where the points of an order are: with its
owner, once, or about to be posted by a request in flight. `DueBounded` needs no such condition: awards and requests that have found
none are together at most as many as there are request slots, whatever overlaps.

The refinement needs one fact more than `IInv`, `PayeeOK`: once a request has settled whom it
awards, nobody else has points for the order. Without it the deletion of an account, which
takes that account's points, could make points due that the request in flight was not to post. `RequestView`
says that outside `overlapped` what is due for an order depends on its one request; so a step
of a request is a step of `OrderRewards` about its order and changes nothing of the others (one lemma
per handler's statement, `PayeeInvariant` for the invariant). A second request about an order is `Contend`, a deletion of the
account `Close`.

`ImagesProofs`, for any number of owners, images, names and requests, from `ImagesAssumption`:

| theorem | statement |
|---|---|
| `ImagesInvariant` | `Spec => []IInv` |
| `ImagesTypeCorrect` | `Spec => []TypeOK` |
| `ShownImagesLoad` | `Spec => []EveryImageHasFile` |
| `FilesBelong` | `Spec => []EveryFileHasImage` |

The argument is about who may use a name: one row has it (`NamesUnique`), or one upload has stored
the file and not yet the row (`StoredOK`); the names a deletion removes are those of the rows
it deletes (`DeletedOK`).

`CatalogueProofs`, for any number of categories, items, positions, rewards and requests, from `CatalogueAssumption`:

| theorem | statement |
|---|---|
| `CatalogueInvariant` | `Spec => []IInv` |
| `CatalogueTypeCorrect` | `Spec => []TypeOK` |
| `OrderIsStrict` | `Spec => []PositionsDistinct` |
| `RewardsDoNotCollide` | `Spec => []OneRewardPerItem` |

Between its two statements a request has its list to itself or the list is `disturbed` (`ClearedOK`);
the rows it has shifted are locked, so they stay beyond the position it is about to write
(`LockedOK`). A request about a reward has its item to itself, or the item is `contested` (`OnlyOK`).

`OneTimePasswordsProofs`, for any number of phones, addresses, rows and requests, any number of attempts and
levels, from `OneTimePasswordsAssumption`:

| theorem | statement |
|---|---|
| `OneTimePasswordsInvariant` | `Spec => []IInv` |
| `OneTimePasswordsTypeCorrect` | `Spec => []TypeOK` |
| `PhoneLimitIsKept` | `Spec => []PhoneLimitHolds` |
| `CodesAreBounded` | `Spec => []CodesBounded` |
| `GuessesAreBounded` | `Spec => []GuessesBounded` |
| `CodeUsesAreBounded` | `Spec => []CodeUsesBounded` |

The limit of a phone is stored in the row that the next code replaces. `LimitOK` says of a phone that is not `crowded`
that one request for a code is in flight at most, and that the row, or what this request has read of it
(`SendOK`), bounds what was sent. The others hold of every phone and row. `CodesOK`: a row was created by a request, which deleted the others first;
so rows and requests about to create one are no more than the requests. `UsesOK`: once a code is not pending
any more, only the requests that have found it can still use it. `GuessOK`: each request has a `Stake` in a code, the wrong answers that it
can still lead to, from the attempts in the row or from those it has read and will write back; what was answered and all stakes together never
grow. An answer costs the request that gives it more than it can give back to the others: that is what the
recursion of `Answers` is made for.

Sums (the cost of a basket, the total of an order, the shares of a wheel) are folds of the
community modules. `SumLemmas` proves what the model needs of them by well-founded
induction over finite subsets, stated for a set of subsets (`SubsetInduction`), since the prover
cannot instantiate an induction theorem with an operator. No module uses recursive operators.

Every safety property that a passing run checks is a theorem, for every value of the constants, and
so are the three refinements. (`HighestLevelWon` and `EarningNeverDemotes` range over small catalogues; the theorems
`HighestLevel` and `MoreNeverLower` say the same of all.) `CooldownKept`, `EverySpinPaid` and `PointsOncePerOrder` are parts of what
`SpinTurns` and `OrderRewards` promise; the runs check the promises, and each part is a theorem of its own. The violated properties are false and stay with TLC's counterexamples. Only model-checked is
`EveryRequestEnds` of `PointsEngine` and of `SpinWheel`: liveness under fairness, for which the
prover has no `ENABLED`.

## Not modelled

- Reports, listings, the dashboard, health checks, wiring: no state.
- Guards and tokens: the roles they admit are the callers of the actions. An access token
  that outlives a change of its account is not modelled; `Accounts` says so.
- `changePassword`, `editAccount`, the password `resetPassword` writes, names, texts, prices,
  hours, dates of advertisements: columns nothing else depends on, each written by one statement.
- The message with the code: the code never sends it, and every code is the same at this commit.
- The clocks of several processes: a code or a block may expire at any time, a cooldown is
  measured by one clock.
- Migrations and the sizes and types of uploaded files.

## Plan

1. Done: every module, with all safety properties and three refinements checked and proved.
2. Possible next: an abstract store of named files that `Images` implements outside `leaked` and `spoiled`.
3. One hazard has no property: two switches of one store or advertisement at once count as one
   (`store.service.ts:143`). That is what the code does, and nothing says it should not.
