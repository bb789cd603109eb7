------------------------------ MODULE SpinWheel ------------------------------
(***************************************************************************)
(* The spin wheel (spin-wheel.service.ts): administrators save its prizes  *)
(* and the cooldown, customers spin it and are paid by the points engine.  *)
(*                                                                         *)
(* A spin is one transaction under the customer's advisory lock, the same  *)
(* lock the engine takes: it reads the cooldown and the last spin, draws   *)
(* from the prizes it reads, then writes the spin and has the engine post  *)
(* within the same transaction.  What it writes is locked until it commits *)
(* and seen by nobody, so writing, posting and committing are one step.    *)
(* saveConfig reads the ids of the prizes first and writes in a            *)
(* transaction of blind updates by id, one step for the same reason.       *)
(* Requests that the database makes wait for each other's rows in a circle *)
(* end with the failure of one of them: Fail.                              *)
(***************************************************************************)
EXTENDS Integers, Sequences, FiniteSets, Functions

CONSTANTS Users,            \* customers at the start
          Reqs,             \* slots for requests in flight
          LockKeys,         \* values of hashtext
          LockKey,          \* hashtext(userId)
          PrizeIds,         \* ids of spin_wheel_prizes rows
          InitPrizes,       \* the wheel at the start
          Configs,          \* what an administrator may save: Config
          InitCooldown,     \* cooldown at the start, None without a row
          DefaultCooldown,  \* DEFAULT_COOLDOWN_HOURS
          BasisPoints,      \* BASIS_POINTS_TOTAL
          MaxTime,          \* bound: the clock stops
          None              \* null

\* A prize.  weight is probabilityPercent as the column keeps it, with two
\* decimals: in basis points; value is in points, or the factor of a multiplier.
Prize == [type : {"points", "multiplier"}, value : Nat, weight : Nat,
          active : BOOLEAN]

\* An entry of SaveWheelConfigDto.  Its percentage may have any decimals: the
\* save checks it as checked, which JavaScript rounds (Math.round of 100 times
\* it), and stores it as row.weight, which the database rounds.  1.005 is
\* checked as 100 and stored as 101: they differ by one at most.
\* An entry without an id gets one from the database when its row is created;
\* here it has that id, one no row has had before.
Entry == {e \in [id : PrizeIds, row : Prize, checked : Nat] :
            e.row.weight \in e.checked - 1 .. e.checked + 1}

Config == [prizes : Seq(Entry), cooldown : Nat \ {0}]

\* The active prizes of the rows of a table.
Active(rows) == {p \in PrizeIds : rows[p] # None /\ rows[p].active}

\* The share of the wheel that they take, as stored.
Share(rows) ==
  SumFunction([p \in PrizeIds |-> IF p \in Active(rows)
                                  THEN rows[p].weight ELSE 0])

\* A share in basis points is all of the wheel, but for the rounding of its
\* parts.
AddsUp(share, parts) ==
  share \in BasisPoints - Cardinality(parts) .. BasisPoints + Cardinality(parts)

\* Only saves write the table: at the start it is empty or as one left it.
ASSUME WheelAssumption ==
  /\ None \notin Users \cup Reqs \cup PrizeIds \cup Nat \cup Prize \cup Config
  /\ LockKey \in [Users -> LockKeys]
  /\ IsFiniteSet(PrizeIds)
  /\ IsFiniteSet(Reqs) /\ Reqs # {}
  /\ InitPrizes \in [PrizeIds -> Prize \cup {None}]
  /\ \/ Active(InitPrizes) = {}
     \/ AddsUp(Share(InitPrizes), Active(InitPrizes))
  /\ Configs \subseteq Config
  /\ InitCooldown \in Nat \cup {None}
  /\ DefaultCooldown \in Nat
  /\ BasisPoints \in Nat \ {0}
  /\ MaxTime \in Nat

VARIABLES now,        \* the clock, in hours
          users,      \* rows of users
          prizes,     \* spin_wheel_prizes
          fresh,      \* prize ids no row has had yet
          cooldown,   \* spin_wheel_settings.cooldownHours
          spins,      \* spin_wheel_spins of each customer, oldest first
          postings,   \* points_transactions that refer to a spin
          lock,       \* holder of each advisory lock
          req,        \* the requests in flight
          distorted   \* history: "overlap" once saves overlapped, "twice"
                      \* once one named a prize twice

tables == <<users, prizes, cooldown, spins, postings>>
vars == <<now, users, prizes, fresh, cooldown, spins, postings, lock, req,
          distorted>>

Idle == [pc |-> "idle", user |-> None, wait |-> 0, made |-> FALSE,
         prize |-> None, drawn |-> None, at |-> 0,
         config |-> None, new |-> {}, drop |-> {}]

Init ==
  /\ now = 0
  /\ users = Users
  /\ prizes = InitPrizes
  /\ fresh = {p \in PrizeIds : InitPrizes[p] = None}
  /\ cooldown = InitCooldown
  /\ spins = [u \in Users |-> <<>>]
  /\ postings = [u \in Users |-> <<>>]
  /\ lock = [k \in LockKeys |-> None]
  /\ req = [r \in Reqs |-> Idle]
  /\ distorted = {}

-----------------------------------------------------------------------------
(* Requests. *)

User(r) == req[r].user

\* Mutant: the lock outlives the transaction.
EndKeepingLock(r) == req' = [req EXCEPT ![r] = Idle] /\ UNCHANGED lock

\* The request is over and its transaction with it: its locks are released.
End(r) ==
  /\ req' = [req EXCEPT ![r] = Idle]
  /\ lock' = [k \in LockKeys |-> IF lock[k] = r THEN None ELSE lock[k]]

\* The handler throws: the transaction rolls back.
Throw(r) == End(r) /\ UNCHANGED <<now, tables, fresh, distorted>>

\* A step that changes nothing but the request.
Local == UNCHANGED <<now, tables, fresh, lock, distorted>>

\* A settings row that a transaction has inserted and not committed makes
\* every other upsert of it wait.
SettingsFree == \A q \in Reqs : ~req[q].made

-----------------------------------------------------------------------------
(* spin. *)

StartSpin(r, u) ==
  /\ req[r].pc = "idle"
  /\ req' = [req EXCEPT ![r].pc = "queued", ![r].user = u]
  /\ Local

\* pg_advisory_xact_lock.
Acquire(r) ==
  /\ req[r].pc = "queued"
  /\ lock[LockKey[User(r)]] = None
  /\ lock' = [lock EXCEPT ![LockKey[User(r)]] = r]
  /\ req' = [req EXCEPT ![r].pc = "locked"]
  /\ UNCHANGED <<now, tables, fresh, distorted>>

\* The last spin of u, by its time.
NextEligible(u, wait) ==
  IF spins[u] = <<>> THEN 0 ELSE spins[u][Len(spins[u])].at + wait

\* The cooldown, whose row is created when it is missing, and the last spin
\* are read; the customer may be too early.
ReadCooldown(r) ==
  /\ req[r].pc = "locked"
  /\ cooldown = None => SettingsFree
  /\ LET wait == IF cooldown = None THEN DefaultCooldown ELSE cooldown
     IN  IF NextEligible(User(r), wait) > now
         THEN Throw(r)
         ELSE /\ req' = [req EXCEPT ![r].pc = "draw", ![r].wait = wait,
                                    ![r].made = cooldown = None]
              /\ Local

Offered == Active(prizes)

\* Mutant: prizes that are switched off are drawn too.
DrawableAny == {p \in PrizeIds : prizes[p] # None /\ prizes[p].weight > 0}

\* The prizes the roll can select: those with a share of the wheel.
Drawable == {p \in Offered : prizes[p].weight > 0}

\* One of the active prizes is drawn; with none, or with none that has a
\* share, the spin fails.  From here on the row drawn is a copy.
Draw(r) ==
  /\ req[r].pc = "draw"
  /\ IF Drawable = {}
     THEN Throw(r)
     ELSE /\ \E p \in Drawable :
                req' = [req EXCEPT ![r].pc = "commit", ![r].prize = p,
                                   ![r].drawn = prizes[p], ![r].at = now]
          /\ Local

\* The engine refuses a multiplier of one or less.
Payable(row) == row.type = "multiplier" => row.value > 1

Posting(row) == [type |-> row.type, value |-> row.value]

\* The spin is written, the customer must still exist and the prize too.
Recorded(r) ==
  LET drawn == req[r].drawn
  IN  spins' = [spins EXCEPT ![User(r)] = Append(@,
                  [at |-> req[r].at, prize |-> req[r].prize,
                   reward |-> Posting(drawn), wait |-> req[r].wait])]

\* The spin, its posting and the settings row that was created become visible
\* together, or the transaction rolls back.
CommitSpin(r) ==
  /\ req[r].pc = "commit"
  /\ IF /\ User(r) \in users
        /\ prizes[req[r].prize] # None
        /\ Payable(req[r].drawn)
     THEN /\ Recorded(r)
          /\ postings' = [postings EXCEPT ![User(r)] =
                            Append(@, Posting(req[r].drawn))]
          /\ cooldown' = IF req[r].made THEN req[r].wait ELSE cooldown
          /\ End(r)
          /\ UNCHANGED <<now, users, prizes, fresh, distorted>>
     ELSE Throw(r)

-----------------------------------------------------------------------------
(* saveConfig. *)

\* The share of the wheel that the active prizes of a dto take, as checked.
ActiveShare(rows) ==
  SumFunction([i \in DOMAIN rows |-> IF rows[i].row.active
                                     THEN rows[i].checked ELSE 0])

Named(config) == {config.prizes[i].id : i \in DOMAIN config.prizes}

Saving == {r \in Reqs : req[r].config # None}

\* validateActiveProbabilitySum, before anything is read.
StartSave(r, config) ==
  /\ req[r].pc = "idle"
  /\ ActiveShare(config.prizes) = BasisPoints
  /\ req' = [req EXCEPT ![r].pc = "ids", ![r].config = config,
                        ![r].new = Named(config) \cap fresh]
  /\ fresh' = fresh \ Named(config)
  /\ distorted' = distorted \cup
       (IF Saving # {} THEN {"overlap"} ELSE {}) \cup
       (IF Cardinality(Named(config)) < Len(config.prizes)
        THEN {"twice"} ELSE {})
  /\ UNCHANGED <<now, tables, lock>>

\* The prizes that are not in the dto will be deleted.
ReadIds(r) ==
  /\ req[r].pc = "ids"
  /\ req' = [req EXCEPT ![r].pc = "apply",
               ![r].drop = {p \in PrizeIds : prizes[p] # None}
                             \ Named(req[r].config)]
  /\ Local

\* The rows are written in the order of the dto: the last one of an id stays.
LastRow(config, p) ==
  LET rows == config.prizes
      last == CHOOSE i \in DOMAIN rows :
                /\ rows[i].id = p
                /\ \A j \in DOMAIN rows : rows[j].id = p => j <= i
  IN  rows[last].row

\* Mutant: prizes that are not in the dto stay.
SavedWheelKeeping(r) ==
  [p \in PrizeIds |-> IF p \in Named(req[r].config)
                      THEN LastRow(req[r].config, p) ELSE prizes[p]]

\* The prizes after the save.
SavedWheel(r) ==
  [p \in PrizeIds |-> CASE p \in Named(req[r].config) ->
                               LastRow(req[r].config, p)
                        [] p \in req[r].drop -> None
                        [] OTHER -> prizes[p]]

\* Mutant: spins go on referring to the prizes that go.
SpinsAsTheyAre(drop) == spins

\* Spins of a deleted prize keep what they paid, not the prize.
SpinsWithout(drop) ==
  [u \in Users |-> [i \in DOMAIN spins[u] |->
     [spins[u][i] EXCEPT !.prize = IF @ \in drop THEN None ELSE @]]]

\* The transaction: rows are deleted, updated and created, and the settings
\* are saved.  A row to update that is not there any more rolls it all back.
ApplyConfig(r) ==
  /\ req[r].pc = "apply"
  /\ SettingsFree
  /\ IF \A p \in Named(req[r].config) \ req[r].new : prizes[p] # None
     THEN /\ prizes' = SavedWheel(r)
          /\ spins' = SpinsWithout(req[r].drop)
          /\ cooldown' = req[r].config.cooldown
          /\ End(r)
          /\ UNCHANGED <<now, users, postings, fresh, distorted>>
     ELSE Throw(r)

-----------------------------------------------------------------------------
(* What happens around the requests. *)

\* getWheel and getConfig create the settings row when it is missing.
EnsureSettings ==
  /\ cooldown = None
  /\ SettingsFree
  /\ cooldown' = DefaultCooldown
  /\ UNCHANGED <<now, users, prizes, fresh, spins, postings, lock, req,
                 distorted>>

\* An account is deleted, unless a spin refers to it.
DeleteUser(u) ==
  /\ u \in users
  /\ spins[u] = <<>>
  /\ users' = users \ {u}
  /\ UNCHANGED <<now, prizes, fresh, cooldown, spins, postings, lock, req,
                 distorted>>

\* Bound: MaxTime.
Tick ==
  /\ now < MaxTime
  /\ now' = now + 1
  /\ UNCHANGED <<tables, fresh, lock, req, distorted>>

\* A connection, the transaction's timeout, a number too large, the process:
\* anything may fail.
Fail(r) == req[r].pc # "idle" /\ Throw(r)

-----------------------------------------------------------------------------
Waiting(r) == Acquire(r) \/ ReadCooldown(r) \/ ApplyConfig(r)

Step(r) == Draw(r) \/ CommitSpin(r) \/ ReadIds(r)

Next ==
  \/ \E r \in Reqs :
        \/ \E u \in Users : StartSpin(r, u)
        \/ \E config \in Configs : StartSave(r, config)
        \/ Waiting(r) \/ Step(r) \/ Fail(r)
  \/ \E u \in Users : DeleteUser(u)
  \/ EnsureSettings
  \/ Tick

\* The database runs every statement it is given, and serves those that wait
\* for an advisory lock or for the settings row in turn.
Fairness == \A r \in Reqs : WF_vars(Step(r)) /\ SF_vars(Waiting(r))

Spec == Init /\ [][Next]_vars /\ Fairness

-----------------------------------------------------------------------------
(* Properties. *)

Spin == [at : Nat, prize : PrizeIds \cup {None}, wait : Nat,
         reward : [type : {"points", "multiplier"}, value : Nat]]

ReqRow ==
  [pc : {"idle", "queued", "locked", "draw", "commit", "ids", "apply"},
   user : Users \cup {None}, wait : Nat, made : BOOLEAN,
   prize : PrizeIds \cup {None}, drawn : Prize \cup {None}, at : Nat,
   config : Configs \cup {None}, new : SUBSET PrizeIds, drop : SUBSET PrizeIds]

\* The rows of the tables and the requests have their types; a spin refers
\* to a prize that is there, or to none once it is deleted.
TypeOK ==
  /\ now \in Nat
  /\ users \subseteq Users
  /\ prizes \in [PrizeIds -> Prize \cup {None}]
  /\ fresh \subseteq PrizeIds
  /\ cooldown \in Nat \cup {None}
  /\ spins \in [Users -> Seq(Spin)]
  /\ \A u \in Users : \A i \in DOMAIN spins[u] :
        spins[u][i].prize # None => prizes[spins[u][i].prize] # None
  /\ postings \in [Users -> Seq([type : {"points", "multiplier"}, value : Nat])]
  /\ lock \in [LockKeys -> Reqs \cup {None}]
  /\ req \in [Reqs -> ReqRow]
  /\ distorted \subseteq {"overlap", "twice"}

\* Two spins of a customer are apart by the cooldown in force when the second
\* was checked, however many requests are sent at once.
CooldownKept ==
  \A u \in Users : \A i \in DOMAIN spins[u] \ {1} :
     spins[u][i].at >= spins[u][i - 1].at + spins[u][i].wait

\* A spin that is recorded is paid, once, with what was drawn, even if the
\* prize has been edited or deleted since; nothing else is paid.
EverySpinPaid ==
  \A u \in Users :
     postings[u] = [i \in DOMAIN spins[u] |-> spins[u][i].reward]

\* "Prize probabilities must sum to 100%" of the dto, as checked.  Those of
\* the wheel, once it has active prizes, are then off by one basis point for
\* each of them at most; below, only if a save named a prize twice, above, only
\* if saves overlapped.
WheelAddsUp ==
  Offered # {} =>
    /\ "twice" \notin distorted =>
         Share(prizes) >= BasisPoints - Cardinality(Offered)
    /\ "overlap" \notin distorted =>
         Share(prizes) <= BasisPoints + Cardinality(Offered)

\* Saves that overlap leave each other's prizes on the wheel, which is then
\* worth several: as many as there are requests at once, and never more, since
\* each save that is written deletes all it has seen.
SharesBounded ==
  Share(prizes) <= Cardinality(Reqs) * (BasisPoints + Cardinality(PrizeIds))

\* Every request ends: spins that wait for the customer's lock and for the
\* settings row, and saves that wait for that row, never wait forever.
EveryRequestEnds ==
  \A r \in Reqs : req[r].pc # "idle" ~> req[r].pc = "idle"

-----------------------------------------------------------------------------
(* The promise, SpinTurns. *)

CooldownInForce == IF cooldown = None THEN DefaultCooldown ELSE cooldown

\* What can be drawn: the prizes that are active and have a share.
Wheel ==
  {Posting(prizes[p]) : p \in {p \in PrizeIds : /\ prizes[p] # None
                                              /\ prizes[p].active
                                              /\ prizes[p].weight > 0}}

\* The requests of u that have computed the cooldown, or drawn: one at most,
\* since they hold the lock of u.
SpinsAt(u, pc) == {r \in Reqs : req[r].pc = pc /\ req[r].user = u}

Begun == [u \in Users |-> {req[r].wait : r \in SpinsAt(u, "draw")}]

Drawn ==
  [u \in Users |->
     {[at |-> req[r].at, wait |-> req[r].wait,
       reward |-> Posting(req[r].drawn)] : r \in SpinsAt(u, "commit")}]

\* What a customer keeps of a spin when its prize is deleted.
Taken ==
  [u \in Users |-> [i \in DOMAIN spins[u] |->
     [at |-> spins[u][i].at, wait |-> spins[u][i].wait,
      reward |-> spins[u][i].reward]]]

Promise == INSTANCE SpinTurns
             WITH clock <- now, accounts <- users,
                  cooldown <- CooldownInForce, wheel <- Wheel,
                  begun <- Begun, drawn <- Drawn, taken <- Taken,
                  paid <- postings

\* Whatever spins and saves interleave and break off, customers take turns as
\* SpinTurns has it: one at a time, a cooldown apart, for something on the
\* wheel, recorded and paid together.
ImplementsTurns == Promise!Spec
=============================================================================
