--------------------------- MODULE SpinWheelProofs ---------------------------
(***************************************************************************)
(* Proofs about SpinWheel, for any number of customers, requests and       *)
(* prizes and any wheels an administrator may save.                        *)
(*                                                                         *)
(* A spin relies, until it commits, on the last spin it read: RowOK says   *)
(* that it holds the customer's lock and that the cooldown it computed is  *)
(* still right.  A save relies on the list of prizes it read: it is still  *)
(* the list when it deletes, if no other save is under way.  If another    *)
(* is, SharesOK says what can be on the wheel that the saves about to be   *)
(* written have not seen: each of them gives up one wheel of the bound.    *)
(* The last part shows that SpinWheel implements SpinTurns.                *)
(***************************************************************************)
EXTENDS SpinWheel, SumLemmas

\* No prize is named twice.
Distinct(rows) ==
  \A i, j \in DOMAIN rows : rows[i].id = rows[j].id => i = j

\* What a spin in flight relies on.
SpinOK(r) ==
  LET row == req[r]
  IN  /\ row.pc \in {"queued", "locked", "draw", "commit"} =>
           row.user \in Users /\ row.config = None
      /\ row.pc \in {"locked", "draw", "commit"} =>
           lock[LockKey[row.user]] = r
      /\ row.pc = "draw" => NextEligible(row.user, row.wait) <= now
      /\ row.pc = "commit" =>
           /\ NextEligible(row.user, row.wait) <= row.at
           /\ row.drawn \in Prize
           /\ row.prize \in PrizeIds

\* What a save in flight relies on.
SaveOK(r) ==
  LET row == req[r]
  IN  /\ row.config # None <=> row.pc \in {"ids", "apply"}
      /\ row.config # None =>
           /\ ActiveShare(row.config.prizes) = BasisPoints
           /\ "twice" \notin distorted => Distinct(row.config.prizes)
      /\ row.pc = "apply" => row.drop \cap Named(row.config) = {}
      /\ row.pc = "apply" /\ "overlap" \notin distorted =>
           row.drop = {p \in PrizeIds : prizes[p] # None} \ Named(row.config)

RequestsOK == \A r \in Reqs : SpinOK(r) /\ SaveOK(r)

\* Saves do not overlap, until they have been seen to.
SavesAlone == "overlap" \notin distorted => \A r, q \in Saving : r = q

\* The share of each prize, and of those in S.
Weights(rows) ==
  [p \in PrizeIds |-> IF p \in Active(rows) THEN rows[p].weight ELSE 0]

Part(rows, S) == SumFunctionOnSet(Weights(rows), S)

\* The saves about to be written, and what they write or delete.
Applying == {r \in Reqs : req[r].pc = "apply"}

Touched(r) == req[r].drop \cup Named(req[r].config)

\* The share of a save, rounded up as often as possible.
MostShare == BasisPoints + Cardinality(PrizeIds)

\* What some saves will leave alone is worth a wheel less for each of them.
SharesOK ==
  \A Q \in SUBSET Applying :
    Part(prizes, PrizeIds \ UNION {Touched(q) : q \in Q})
      <= (Cardinality(Reqs) - Cardinality(Q)) * MostShare

\* The inductive invariant.
IInv ==
  /\ TypeOK
  /\ RequestsOK
  /\ SavesAlone
  /\ SharesOK
  /\ CooldownKept
  /\ EverySpinPaid
  /\ WheelAddsUp

-----------------------------------------------------------------------------
(* Shares of the wheel. *)

\* Shares are naturals and add up by parts; what has no row has none.
LEMMA Parts ==
  ASSUME NEW rows \in [PrizeIds -> Prize \cup {None}]
  PROVE  /\ \A p \in PrizeIds : Weights(rows)[p] \in Nat
         /\ Share(rows) = Part(rows, PrizeIds)
         /\ \A S \in SUBSET PrizeIds :
              /\ IsFiniteSet(S) /\ Part(rows, S) \in Nat
              /\ (\A p \in S : rows[p] = None) => Part(rows, S) = 0
              /\ \A T \in SUBSET S :
                   /\ Part(rows, T) <= Part(rows, S)
                   /\ Part(rows, S) = Part(rows, T) + Part(rows, S \ T)
<1>1. \A p \in PrizeIds : Weights(rows)[p] \in Nat
  <2> SUFFICES ASSUME NEW p \in PrizeIds PROVE Weights(rows)[p] \in Nat
    OBVIOUS
  <2>1. p \in Active(rows) => rows[p] \in Prize
    BY DEF Active
  <2> QED
    BY <2>1 DEF Weights, Prize
<1>2. Share(rows) = Part(rows, PrizeIds)
  BY DEF Share, Part, Weights, SumFunction
<1>3. ASSUME NEW S \in SUBSET PrizeIds
      PROVE  /\ IsFiniteSet(S) /\ Part(rows, S) \in Nat
             /\ (\A p \in S : rows[p] = None) => Part(rows, S) = 0
  <2>1. IsFiniteSet(S)
    BY WheelAssumption, FS_Subset
  <2>2. Part(rows, S) \in Nat
    BY <1>1, <2>1, SumOfNaturals DEF Part
  <2>3. ASSUME \A p \in S : rows[p] = None
        PROVE  Part(rows, S) = 0
    <3>1. \A p \in S \ {} : Weights(rows)[p] = 0
      BY <2>3 DEF Weights, Active
    <3>2. SumFunctionOnSet(Weights(rows), S) = SumFunctionOnSet(Weights(rows), {})
      BY <1>1, <2>1, <3>1, SumOfSupport
    <3> QED
      BY <3>2, SumOfNone DEF Part
  <2> QED
    BY <2>1, <2>2, <2>3
<1>4. ASSUME NEW S \in SUBSET PrizeIds, NEW T \in SUBSET S
      PROVE  /\ Part(rows, T) <= Part(rows, S)
             /\ Part(rows, S) = Part(rows, T) + Part(rows, S \ T)
  <2>1. IsFiniteSet(S) /\ \A p \in S : Weights(rows)[p] \in Nat
    BY <1>1, <1>3
  <2>2. \A p \in S : Weights(rows)[p] \in Int
    BY <2>1
  <2> QED
    BY <2>1, <2>2, SumOfPart, SumOfParts DEF Part
<1> QED
  BY <1>1, <1>2, <1>3, <1>4

\* How many prizes there are, and requests.
LEMMA Counts ==
  /\ IsFiniteSet(Reqs) /\ Cardinality(Reqs) \in Nat \ {0}
  /\ IsFiniteSet(PrizeIds) /\ Cardinality(PrizeIds) \in Nat
  /\ MostShare \in Nat
  /\ \A S \in SUBSET PrizeIds :
       Cardinality(S) \in Nat /\ Cardinality(S) <= Cardinality(PrizeIds)
<1>1. Cardinality(Reqs) \in Nat /\ Cardinality(Reqs) # 0
  BY WheelAssumption, FS_CardinalityType, FS_EmptySet
<1>2. \A S \in SUBSET PrizeIds :
        Cardinality(S) \in Nat /\ Cardinality(S) <= Cardinality(PrizeIds)
  BY WheelAssumption, FS_CardinalityType, FS_Subset
<1>3. Cardinality(PrizeIds) \in Nat
  BY WheelAssumption, FS_CardinalityType
<1> QED
  BY <1>1, <1>2, <1>3, WheelAssumption DEF MostShare

\* A step that leaves the prizes alone, and brings no save to the point of
\* being written.
LEMMA SharesStay ==
  ASSUME IInv, prizes' = prizes,
         \A q \in Reqs : req'[q].pc = "apply" =>
           /\ req[q].pc = "apply"
           /\ req'[q].drop = req[q].drop /\ req'[q].config = req[q].config
  PROVE  SharesOK'
<1> SUFFICES ASSUME NEW Q \in SUBSET (Applying')
             PROVE  Part(prizes, PrizeIds \ UNION {Touched(q)' : q \in Q})
                      <= (Cardinality(Reqs) - Cardinality(Q)) * MostShare
  BY DEF SharesOK, Part, Weights, Active, MostShare
<1>1. Q \in SUBSET Applying
  BY DEF Applying
<1>2. \A q \in Q : Touched(q)' = Touched(q)
  BY DEF Applying, Touched, Named
<1>3. {Touched(q)' : q \in Q} = {Touched(q) : q \in Q}
  BY <1>2
<1> QED
  BY <1>1, <1>3 DEF IInv, SharesOK

-----------------------------------------------------------------------------
(* Requests that start, break off or move on. *)

\* A slot with no request has its type.
LEMMA IdleType == Idle \in ReqRow
  BY DEF Idle, ReqRow

\* The invariant holds at the start.
LEMMA InitInvariant == Init => IInv
<1> SUFFICES ASSUME Init PROVE IInv
  OBVIOUS
<1> USE WheelAssumption, IdleType DEF Init
<1>1. TypeOK
  <2>1. spins \in [Users -> Seq(Spin)] /\ \A u \in Users : spins[u] = <<>>
    OBVIOUS
  <2>2. postings \in [Users -> Seq([type : {"points", "multiplier"},
                                    value : Nat])]
    OBVIOUS
  <2>3. \A u \in Users : \A i \in DOMAIN spins[u] :
          spins[u][i].prize # None => prizes[spins[u][i].prize] # None
    BY <2>1
  <2>4. lock \in [LockKeys -> Reqs \cup {None}] /\ req \in [Reqs -> ReqRow]
    OBVIOUS
  <2> QED
    BY <2>1, <2>2, <2>3, <2>4 DEF TypeOK
<1>2. RequestsOK /\ SavesAlone
  BY DEF RequestsOK, SpinOK, SaveOK, SavesAlone, Saving, Idle
<1>3. CooldownKept /\ EverySpinPaid
  BY DEF CooldownKept, EverySpinPaid
<1>4. WheelAddsUp /\ Share(prizes) <= MostShare
  <2>1. CASE Active(prizes) = {}
    <3>1. \A p \in PrizeIds \ {} : Weights(prizes)[p] = 0
      BY <2>1 DEF Weights
    <3>2. SumFunctionOnSet(Weights(prizes), PrizeIds)
            = SumFunctionOnSet(Weights(prizes), {})
      BY <3>1, Parts, SumOfSupport
    <3>3. Share(prizes) = 0
      BY <3>2, Parts, SumOfNone DEF Part
    <3> QED
      BY <2>1, <3>3, Counts DEF WheelAddsUp, Offered
  <2>2. CASE AddsUp(Share(prizes), Active(prizes))
    <3>1. /\ Cardinality(Active(prizes)) \in Nat
          /\ Cardinality(Active(prizes)) <= Cardinality(PrizeIds)
      BY Counts DEF Active
    <3> QED
      BY <2>2, <3>1, Counts DEF AddsUp, WheelAddsUp, Offered, MostShare
  <2> QED
    BY <2>1, <2>2
<1>5. SharesOK
  <2> SUFFICES ASSUME NEW Q \in SUBSET Applying
               PROVE  Part(prizes, PrizeIds \ UNION {Touched(q) : q \in Q})
                        <= (Cardinality(Reqs) - Cardinality(Q)) * MostShare
    BY DEF SharesOK
  <2>1. Q = {}
    BY DEF Applying, Idle
  <2>2. /\ PrizeIds \ UNION {Touched(q) : q \in Q} = PrizeIds
        /\ Cardinality(Q) = 0
    BY <2>1, FS_EmptySet
  <2>3. Part(prizes, PrizeIds) <= MostShare /\ Part(prizes, PrizeIds) \in Nat
    BY <1>4, Parts
  <2>4. MostShare <= Cardinality(Reqs) * MostShare
    <3>1. MostShare \in Nat /\ Cardinality(Reqs) \in Nat \ {0}
      BY Counts
    <3> QED
      BY <3>1
  <2>5. (Cardinality(Reqs) - Cardinality(Q)) * MostShare
          = Cardinality(Reqs) * MostShare
    BY <2>2, Counts
  <2>6. Cardinality(Reqs) * MostShare \in Int /\ MostShare \in Int
    BY Counts
  <2>7. Part(prizes, PrizeIds \ UNION {Touched(q) : q \in Q})
          = Part(prizes, PrizeIds)
    BY <2>2
  <2> QED
    BY <2>3, <2>4, <2>5, <2>6, <2>7
<1> QED
  BY <1>1, <1>2, <1>3, <1>4, <1>5 DEF IInv

\* What is said of the tables survives a step that leaves them alone.
LEMMA TablesStay ==
  ASSUME IInv, UNCHANGED <<tables, distorted>>
  PROVE  CooldownKept' /\ EverySpinPaid' /\ WheelAddsUp'
<1> USE DEF IInv, tables
<1>1. CooldownKept' /\ EverySpinPaid'
  BY DEF CooldownKept, EverySpinPaid
<1>2. WheelAddsUp'
  BY DEF WheelAddsUp, Offered, Active, Share
<1> QED
  BY <1>1, <1>2

\* A request that is over leaves the other requests and their locks alone.
LEMMA EndEffect ==
  ASSUME IInv, NEW r \in Reqs, End(r)
  PROVE  /\ req' \in [Reqs -> ReqRow] /\ req'[r] = Idle
         /\ lock' \in [LockKeys -> Reqs \cup {None}]
         /\ \A q \in Reqs \ {r} :
              /\ req'[q] = req[q]
              /\ \A k \in LockKeys : lock[k] = q => lock'[k] = q
  BY IdleType DEF End, IInv, TypeOK

\* The last spin of u is where and when it was.
SameLast(u) ==
  /\ spins'[u] = <<>> <=> spins[u] = <<>>
  /\ spins[u] # <<>> => spins'[u][Len(spins'[u])].at
                          = spins[u][Len(spins[u])].at

\* A request that is over relies on nothing any more, and leaves what the
\* others rely on, if the spins of those that hold a lock are as they were
\* and the prizes are, or it was the only save.
LEMMA EndKeepsRequests ==
  ASSUME IInv, NEW r \in Reqs, End(r), UNCHANGED <<now, distorted>>,
         \A q \in Reqs \ {r} :
           req[q].pc \in {"draw", "commit"} => SameLast(req[q].user),
         prizes' = prizes \/ req[r].config # None
  PROVE  RequestsOK' /\ SavesAlone'
<1>e. /\ req' \in [Reqs -> ReqRow] /\ req'[r] = Idle
      /\ \A q \in Reqs \ {r} :
           /\ req'[q] = req[q]
           /\ \A k \in LockKeys : lock[k] = q => lock'[k] = q
  BY EndEffect
<1>1. SpinOK(r)' /\ SaveOK(r)'
  BY <1>e DEF SpinOK, SaveOK, Idle
<1>2. ASSUME NEW q \in Reqs \ {r}
      PROVE  SpinOK(q)'
  <2>1. SpinOK(q) /\ req'[q] = req[q]
    BY <1>e DEF IInv, RequestsOK
  <2>2. \A u \in Users : LockKey[u] \in LockKeys
    BY WheelAssumption
  <2>3. req[q].pc \in {"draw", "commit"} =>
          NextEligible(req[q].user, req[q].wait)'
            = NextEligible(req[q].user, req[q].wait)
    BY <2>1 DEF NextEligible, SameLast
  <2>4. req'[q].pc \in {"locked", "draw", "commit"} =>
          lock'[LockKey[req'[q].user]] = q
    BY <1>e, <2>1, <2>2 DEF SpinOK
  <2> QED
    BY <2>1, <2>3, <2>4 DEF SpinOK
<1>3. ASSUME NEW q \in Reqs \ {r}
      PROVE  SaveOK(q)'
  <2>1. SaveOK(q) /\ req'[q] = req[q]
    BY <1>e DEF IInv, RequestsOK
  <2>2. CASE prizes' = prizes
    BY <2>1, <2>2 DEF SaveOK, ActiveShare, Distinct, Named
  <2>3. CASE req[r].config # None
    <3>1. "overlap" \notin distorted => req[q].config = None
      BY <2>3 DEF IInv, SavesAlone, Saving
    <3> QED
      BY <2>1, <3>1 DEF SaveOK, ActiveShare, Distinct, Named
  <2> QED
    BY <2>2, <2>3
<1>4. SavesAlone'
  BY <1>e DEF IInv, SavesAlone, Saving, Idle
<1> QED
  BY <1>1, <1>2, <1>3, <1>4 DEF RequestsOK

\* A request that breaks off leaves no trace.
LEMMA ThrowStep ==
  ASSUME IInv, NEW r \in Reqs, Throw(r)
  PROVE  IInv'
<1>1. End(r) /\ UNCHANGED <<now, tables, fresh, distorted>>
  BY DEF Throw
<1>2. TypeOK'
  BY <1>1, EndEffect DEF IInv, TypeOK, tables
<1>3. RequestsOK' /\ SavesAlone'
  <2>1. \A q \in Reqs : SameLast(req[q].user)
    BY <1>1 DEF SameLast, tables
  <2> QED
    BY <1>1, <2>1, EndKeepsRequests DEF tables
<1>4. CooldownKept' /\ EverySpinPaid' /\ WheelAddsUp'
  BY <1>1, TablesStay DEF tables
<1>5. SharesOK'
  BY <1>1, EndEffect, SharesStay DEF Idle, tables
<1> QED
  BY <1>2, <1>3, <1>4, <1>5 DEF IInv

\* A request that only moves on keeps the invariant, if it may rely on what
\* it relies on then.
LEMMA LocalStep ==
  ASSUME IInv, NEW r \in Reqs, NEW row \in ReqRow,
         req' = [req EXCEPT ![r] = row], UNCHANGED <<now, tables, distorted>>,
         fresh' \subseteq PrizeIds,
         lock' \in [LockKeys -> Reqs \cup {None}],
         \A k \in LockKeys : lock[k] # None => lock'[k] = lock[k],
         SpinOK(r)', SaveOK(r)',
         row.config # None => req[r].config # None,
         row.pc # "apply" \/ SharesOK'
  PROVE  IInv'
<1>1. /\ req' \in [Reqs -> ReqRow] /\ req'[r] = row
      /\ \A q \in Reqs \ {r} : req'[q] = req[q]
  BY DEF IInv, TypeOK
<1>2. TypeOK'
  BY <1>1 DEF IInv, TypeOK, tables
<1>3. ASSUME NEW q \in Reqs \ {r}
      PROVE  SpinOK(q)' /\ SaveOK(q)'
  <2>1. SpinOK(q) /\ SaveOK(q) /\ req'[q] = req[q] /\ q # None
    BY <1>1, WheelAssumption DEF IInv, RequestsOK
  <2>2. \A u \in Users : LockKey[u] \in LockKeys
    BY WheelAssumption
  <2>3. SpinOK(q)'
    BY <2>1, <2>2 DEF SpinOK, NextEligible, tables
  <2>4. SaveOK(q)'
    BY <2>1 DEF SaveOK, ActiveShare, Distinct, Named, tables
  <2> QED
    BY <2>3, <2>4
<1>4. SavesAlone'
  BY <1>1 DEF IInv, SavesAlone, Saving
<1>5. CooldownKept' /\ EverySpinPaid' /\ WheelAddsUp'
  BY TablesStay DEF tables
<1>6. SharesOK'
  BY <1>1, SharesStay DEF tables
<1> QED
  BY <1>1, <1>2, <1>3, <1>4, <1>5, <1>6 DEF IInv, RequestsOK

-----------------------------------------------------------------------------
(* The steps of a spin. *)

\* A spin arrives.
LEMMA StartSpinStep ==
  ASSUME IInv, NEW r \in Reqs, NEW u \in Users, StartSpin(r, u)
  PROVE  IInv'
<1>1. req[r] \in ReqRow /\ SaveOK(r) /\ req[r].pc = "idle"
  BY DEF IInv, TypeOK, RequestsOK, StartSpin
<1>2. req[r].config = None
  BY <1>1 DEF SaveOK
<1> DEFINE new == [req[r] EXCEPT !.pc = "queued", !.user = u]
<1>3. /\ new \in ReqRow /\ new.pc = "queued" /\ new.user = u
      /\ new.config = None
  BY <1>1, <1>2 DEF ReqRow
<1>4. req' = [req EXCEPT ![r] = new] /\ Local
  BY DEF StartSpin, IInv, TypeOK
<1> HIDE DEF new
<1>5. req'[r] = new
  BY <1>4 DEF IInv, TypeOK
<1>6. SpinOK(r)' /\ SaveOK(r)'
  BY <1>3, <1>5 DEF SpinOK, SaveOK
<1> QED
  BY <1>3, <1>4, <1>6, LocalStep DEF Local, IInv, TypeOK

\* The customer's lock is free and taken.
LEMMA AcquireStep ==
  ASSUME IInv, NEW r \in Reqs, Acquire(r)
  PROVE  IInv'
<1> DEFINE new == [req[r] EXCEPT !.pc = "locked"]
<1>1. /\ req[r] \in ReqRow /\ SpinOK(r) /\ SaveOK(r)
      /\ req[r].pc = "queued"
  BY DEF IInv, TypeOK, RequestsOK, Acquire
<1>2. /\ new \in ReqRow /\ new.pc = "locked" /\ new.user = req[r].user
      /\ new.config = None /\ req[r].user \in Users
  BY <1>1 DEF ReqRow, SpinOK
<1>3. /\ req' = [req EXCEPT ![r] = new]
      /\ UNCHANGED <<now, tables, fresh, distorted>>
  BY DEF Acquire, IInv, TypeOK
<1> HIDE DEF new
<1>4. req'[r] = new
  BY <1>3 DEF IInv, TypeOK
<1>5. LockKey[req[r].user] \in LockKeys
  BY <1>2, WheelAssumption
<1>6. /\ lock' = [lock EXCEPT ![LockKey[req[r].user]] = r]
      /\ lock[LockKey[req[r].user]] = None
  BY DEF Acquire, User
<1>7. /\ lock' \in [LockKeys -> Reqs \cup {None}]
      /\ lock'[LockKey[req[r].user]] = r
      /\ \A k \in LockKeys : lock[k] # None => lock'[k] = lock[k]
  BY <1>5, <1>6 DEF IInv, TypeOK
<1>8. SpinOK(r)' /\ SaveOK(r)'
  BY <1>2, <1>4, <1>7 DEF SpinOK, SaveOK
<1> QED
  BY <1>2, <1>3, <1>7, <1>8, LocalStep DEF IInv, TypeOK

\* The cooldown of the last spin is over: it stays over, since the lock keeps
\* other spins of the customer away and the clock does not go back.
LEMMA ReadCooldownStep ==
  ASSUME IInv, NEW r \in Reqs, ReadCooldown(r)
  PROVE  IInv'
<1> DEFINE wait == IF cooldown = None THEN DefaultCooldown ELSE cooldown
           new == [req[r] EXCEPT !.pc = "draw", !.wait = wait,
                                 !.made = cooldown = None]
<1>1. CASE Throw(r)
  BY <1>1, ThrowStep
<1>2. CASE ~Throw(r)
  <2>1. /\ req[r] \in ReqRow /\ SpinOK(r) /\ req[r].pc = "locked"
    BY DEF IInv, TypeOK, RequestsOK, ReadCooldown
  <2>2. wait \in Nat
    BY WheelAssumption DEF IInv, TypeOK
  <2>3. NextEligible(req[r].user, wait) <= now
    <3>1. /\ ~(NextEligible(req[r].user, wait) > now)
          /\ req[r].user \in Users
      BY <1>2, <2>1 DEF ReadCooldown, User, SpinOK
    <3>2. NextEligible(req[r].user, wait) \in Nat
      <4>1. spins[req[r].user] \in Seq(Spin)
        BY <3>1 DEF IInv, TypeOK
      <4>2. spins[req[r].user] # <<>> =>
              spins[req[r].user][Len(spins[req[r].user])] \in Spin
        BY <4>1
      <4> QED
        BY <2>2, <4>2 DEF NextEligible, Spin
    <3> QED
      BY <3>1, <3>2 DEF IInv, TypeOK
  <2>4. req' = [req EXCEPT ![r] = new] /\ Local
    BY <1>2 DEF ReadCooldown, IInv, TypeOK
  <2> HIDE DEF wait
  <2>5. /\ new \in ReqRow /\ new.pc = "draw" /\ new.user = req[r].user
        /\ new.config = None /\ new.wait = wait /\ req[r].user \in Users
    BY <2>1, <2>2 DEF ReqRow, SpinOK
  <2> HIDE DEF new
  <2>6. req'[r] = new
    BY <2>4 DEF IInv, TypeOK
  <2>7. SaveOK(r)'
    BY <2>5, <2>6 DEF SaveOK
  <2>8. SpinOK(r)'
    BY <2>1, <2>3, <2>4, <2>5, <2>6
       DEF SpinOK, NextEligible, Local, tables
  <2> QED
    BY <2>4, <2>5, <2>7, <2>8, LocalStep DEF Local, IInv, TypeOK
<1> QED
  BY <1>1, <1>2

\* A prize that has a share is drawn.
LEMMA DrawStep ==
  ASSUME IInv, NEW r \in Reqs, Draw(r)
  PROVE  IInv'
<1>1. CASE Throw(r)
  BY <1>1, ThrowStep
<1>2. CASE ~Throw(r)
  <2>1. PICK p \in Drawable :
          req' = [req EXCEPT ![r].pc = "commit", ![r].prize = p,
                             ![r].drawn = prizes[p], ![r].at = now]
    BY <1>2 DEF Draw
  <2> DEFINE new == [req[r] EXCEPT !.pc = "commit", !.prize = p,
                                   !.drawn = prizes[p], !.at = now]
  <2>2. /\ req[r] \in ReqRow /\ SpinOK(r) /\ req[r].pc = "draw"
    BY DEF IInv, TypeOK, RequestsOK, Draw
  <2>3. p \in PrizeIds /\ prizes[p] \in Prize /\ now \in Nat
    BY DEF Drawable, Offered, Active, IInv, TypeOK
  <2>4. /\ new \in ReqRow /\ new.pc = "commit" /\ new.user = req[r].user
        /\ new.config = None /\ new.wait = req[r].wait /\ new.at = now
        /\ new.drawn \in Prize /\ new.prize \in PrizeIds
        /\ req[r].user \in Users
    BY <2>2, <2>3 DEF ReqRow, SpinOK
  <2>5. req' = [req EXCEPT ![r] = new]
    BY <2>1 DEF IInv, TypeOK
  <2>6. Local
    BY <1>2 DEF Draw
  <2> HIDE DEF new
  <2>7. req'[r] = new
    BY <2>5 DEF IInv, TypeOK
  <2>8. SaveOK(r)'
    BY <2>4, <2>7 DEF SaveOK
  <2>9. SpinOK(r)'
    BY <2>2, <2>4, <2>6, <2>7 DEF SpinOK, NextEligible, Local, tables
  <2> QED
    BY <2>4, <2>5, <2>6, <2>8, <2>9, LocalStep DEF Local, IInv, TypeOK
<1> QED
  BY <1>1, <1>2

\* The spin and what it pays are written together.
LEMMA CommitSpinStep ==
  ASSUME IInv, NEW r \in Reqs, CommitSpin(r)
  PROVE  IInv'
<1>1. CASE Throw(r)
  BY <1>1, ThrowStep
<1>2. CASE ~Throw(r)
  <2> DEFINE u == req[r].user
             paid == Posting(req[r].drawn)
             spin == [at |-> req[r].at, prize |-> req[r].prize,
                      reward |-> paid, wait |-> req[r].wait]
  <2>1. /\ prizes[req[r].prize] # None
        /\ spins' = [spins EXCEPT ![u] = Append(@, spin)]
        /\ postings' = [postings EXCEPT ![u] = Append(@, paid)]
        /\ cooldown' = IF req[r].made THEN req[r].wait ELSE cooldown
        /\ End(r)
        /\ UNCHANGED <<now, users, prizes, fresh, distorted>>
    BY <1>2 DEF CommitSpin, Recorded, User
  <2>2. req[r] \in ReqRow /\ SpinOK(r) /\ req[r].pc = "commit"
    BY DEF IInv, TypeOK, RequestsOK, CommitSpin
  <2>3. /\ u \in Users
        /\ spin \in Spin
        /\ paid \in [type : {"points", "multiplier"}, value : Nat]
        /\ spin.prize = req[r].prize /\ spin.reward = paid
        /\ spin.at = req[r].at /\ spin.wait = req[r].wait
        /\ NextEligible(u, spin.wait) <= spin.at
        /\ lock[LockKey[u]] = r
        /\ cooldown' \in Nat \cup {None}
    BY <2>1, <2>2 DEF SpinOK, ReqRow, Spin, Posting, Prize, IInv, TypeOK
  <2> HIDE DEF spin, paid, u
  <2>4. /\ spins' \in [Users -> Seq(Spin)]
        /\ spins'[u] = Append(spins[u], spin)
        /\ spins[u] \in Seq(Spin)
        /\ \A v \in Users \ {u} : spins'[v] = spins[v]
        /\ postings' \in [Users ->
                            Seq([type : {"points", "multiplier"}, value : Nat])]
        /\ postings'[u] = Append(postings[u], paid)
        /\ postings[u] \in Seq([type : {"points", "multiplier"}, value : Nat])
        /\ \A v \in Users \ {u} : postings'[v] = postings[v]
    BY <2>1, <2>3 DEF IInv, TypeOK
  <2>5. /\ Len(spins'[u]) = Len(spins[u]) + 1
        /\ DOMAIN spins'[u] = 1 .. Len(spins[u]) + 1
        /\ DOMAIN spins[u] = 1 .. Len(spins[u])
        /\ Len(spins[u]) \in Nat
        /\ spins'[u][Len(spins[u]) + 1] = spin
        /\ \A i \in 1 .. Len(spins[u]) :
             spins'[u][i] = spins[u][i] /\ spins[u][i] \in Spin
    BY <2>4
  <2>6. TypeOK'
    <3>1. req' \in [Reqs -> ReqRow] /\ lock' \in [LockKeys -> Reqs \cup {None}]
      BY <2>1, EndEffect
    <3>2. ASSUME NEW v \in Users, NEW i \in DOMAIN spins'[v],
                 spins'[v][i].prize # None
          PROVE  prizes'[spins'[v][i].prize] # None
      <4>1. CASE v # u
        BY <4>1, <3>2, <2>1, <2>4 DEF IInv, TypeOK
      <4>2. CASE v = u /\ i # Len(spins[u]) + 1
        <5>1. i \in DOMAIN spins[u] /\ spins'[v][i] = spins[u][i]
          BY <4>2, <2>5
        <5> QED
          BY <5>1, <3>2, <2>1, <2>3 DEF IInv, TypeOK
      <4>3. CASE v = u /\ i = Len(spins[u]) + 1
        BY <4>3, <2>1, <2>3, <2>5
      <4> QED
        BY <4>1, <4>2, <4>3
    <3> QED
      BY <3>1, <3>2, <2>1, <2>3, <2>4 DEF IInv, TypeOK
  <2>7. RequestsOK' /\ SavesAlone'
    <3>1. ASSUME NEW q \in Reqs \ {r}, req[q].pc \in {"draw", "commit"}
          PROVE  SameLast(req[q].user)
      <4>1. /\ req[q].user \in Users
            /\ lock[LockKey[req[q].user]] = q
        BY <3>1 DEF IInv, RequestsOK, SpinOK
      <4>2. req[q].user # u
        BY <4>1, <2>3
      <4> QED
        BY <4>1, <4>2, <2>4 DEF SameLast
    <3> QED
      BY <3>1, <2>1, EndKeepsRequests
  <2>8. CooldownKept'
    <3> SUFFICES ASSUME NEW v \in Users, NEW i \in DOMAIN spins'[v] \ {1}
                 PROVE  spins'[v][i].at
                          >= spins'[v][i - 1].at + spins'[v][i].wait
      BY DEF CooldownKept
    <3>1. CASE v # u
      BY <3>1, <2>4 DEF IInv, CooldownKept
    <3>2. CASE v = u /\ i # Len(spins[u]) + 1
      <4>1. i \in DOMAIN spins[u] \ {1} /\ i - 1 \in 1 .. Len(spins[u])
        BY <3>2, <2>5
      <4> QED
        BY <3>2, <4>1, <2>3, <2>5 DEF IInv, CooldownKept
    <3>3. CASE v = u /\ i = Len(spins[u]) + 1
      <4>1. /\ spins[u] # <<>> /\ i - 1 = Len(spins[u])
            /\ i - 1 \in 1 .. Len(spins[u])
        BY <3>3, <2>5
      <4>2. spins[u][i - 1].at + spin.wait <= spin.at
        BY <4>1, <2>3 DEF NextEligible
      <4>3. spin.at \in Nat /\ spin.wait \in Nat /\ spins[u][i - 1].at \in Nat
        BY <4>1, <2>3, <2>5 DEF Spin
      <4> QED
        BY <3>3, <4>1, <4>2, <4>3, <2>5
    <3> QED
      BY <3>1, <3>2, <3>3
  <2>9. EverySpinPaid'
    <3>1. \A v \in Users \ {u} :
            postings'[v] = [i \in DOMAIN spins'[v] |-> spins'[v][i].reward]
      BY <2>4 DEF IInv, EverySpinPaid
    <3>2. postings[u] = [i \in DOMAIN spins[u] |-> spins[u][i].reward]
      BY <2>3 DEF IInv, EverySpinPaid
    <3>3. Len(postings[u]) = Len(spins[u])
      BY <3>2, <2>4, <2>5
    <3>4. postings'[u] = [i \in DOMAIN spins'[u] |-> spins'[u][i].reward]
      <4>1. DOMAIN postings'[u] = DOMAIN spins'[u]
        BY <3>3, <2>4, <2>5
      <4>2. \A i \in DOMAIN spins'[u] : postings'[u][i] = spins'[u][i].reward
        BY <3>2, <3>3, <2>3, <2>4, <2>5
      <4>3. postings'[u] = [i \in DOMAIN postings'[u] |-> postings'[u][i]]
        BY <2>4
      <4> QED
        BY <4>1, <4>2, <4>3
    <3> QED
      BY <3>1, <3>4 DEF EverySpinPaid
  <2>10. WheelAddsUp'
    BY <2>1 DEF IInv, WheelAddsUp, Offered, Active, Share
  <2>11. SharesOK'
    BY <2>1, EndEffect, SharesStay DEF Idle
  <2> QED
    BY <2>6, <2>7, <2>8, <2>9, <2>10, <2>11 DEF IInv
<1> QED
  BY <1>1, <1>2

-----------------------------------------------------------------------------
(* The steps of a save. *)

\* The rows of a dto are a sequence of named prizes.
LEMMA ConfigRows ==
  ASSUME NEW config \in Config
  PROVE  /\ Len(config.prizes) \in Nat
         /\ DOMAIN config.prizes = 1 .. Len(config.prizes)
         /\ \A i \in DOMAIN config.prizes :
              /\ config.prizes[i].id \in PrizeIds
              /\ config.prizes[i].row \in Prize
              /\ config.prizes[i].checked \in Nat
              /\ config.prizes[i].row.weight <= config.prizes[i].checked + 1
              /\ config.prizes[i].checked <= config.prizes[i].row.weight + 1
<1>1. config.prizes \in Seq(Entry)
  BY DEF Config
<1>2. \A e \in Entry :
        /\ e.id \in PrizeIds /\ e.row \in Prize /\ e.checked \in Nat
        /\ e.row.weight <= e.checked + 1 /\ e.checked <= e.row.weight + 1
  BY DEF Entry, Prize
<1> QED
  BY <1>1, <1>2

\* As many names as rows: no name is used twice.
LEMMA NamesDistinct ==
  ASSUME NEW config \in Config,
         ~(Cardinality(Named(config)) < Len(config.prizes))
  PROVE  Distinct(config.prizes)
<1> DEFINE rows == config.prizes
           n == Len(rows)
           f == [i \in 1 .. n |-> rows[i].id]
<1>1. n \in Nat /\ DOMAIN rows = 1 .. n
  BY DEF Config
<1>2. f \in Surjection(1 .. n, Named(config))
  BY <1>1 DEF Surjection, Named
<1>3. IsFiniteSet(1 .. n) /\ Cardinality(1 .. n) = n
  BY <1>1, FS_Interval
<1>4. /\ Cardinality(Named(config)) <= n
      /\ Cardinality(Named(config)) = n =>
           f \in Injection(1 .. n, Named(config))
      /\ Cardinality(Named(config)) \in Nat
  BY <1>2, <1>3, FS_Surjection, FS_CardinalityType
<1>5. f \in Injection(1 .. n, Named(config))
  BY <1>1, <1>4
<1>6. \A i, j \in 1 .. n : f[i] = f[j] => i = j
  BY <1>5 DEF Injection, IsInjective
<1> QED
  BY <1>1, <1>6 DEF Distinct

\* The row that is written for a name is one of the dto's of that name, and
\* the only one if names are distinct.
LEMMA LastRowIsRow ==
  ASSUME NEW config \in Config, NEW p \in Named(config)
  PROVE  /\ LastRow(config, p) \in Prize
         /\ \E i \in DOMAIN config.prizes :
              /\ config.prizes[i].id = p
              /\ LastRow(config, p) = config.prizes[i].row
         /\ Distinct(config.prizes) =>
              \A i \in DOMAIN config.prizes :
                config.prizes[i].id = p =>
                  LastRow(config, p) = config.prizes[i].row
<1> DEFINE rows == config.prizes
           I == {i \in DOMAIN rows : rows[i].id = p}
           IsLast(i) == /\ rows[i].id = p
                        /\ \A j \in DOMAIN rows : rows[j].id = p => j <= i
<1>1. /\ Len(rows) \in Nat /\ DOMAIN rows = 1 .. Len(rows)
      /\ \A i \in DOMAIN rows : rows[i].row \in Prize
  BY ConfigRows
<1>2. I \in SUBSET (1 .. Len(rows)) /\ I # {}
  BY <1>1 DEF Named
<1>3. \E i \in I : \A j \in I : j <= i
  BY <1>1, <1>2, LastIndex
<1>4. PICK last \in DOMAIN rows :
        IsLast(last) /\ LastRow(config, p) = rows[last].row
  BY <1>3 DEF LastRow
<1> QED
  BY <1>1, <1>4 DEF Distinct

\* The prizes a dto names have the shares that were checked, but for rounding,
\* or less if one was named twice.
LEMMA SavedShare ==
  ASSUME NEW config \in Config, NEW W \in [PrizeIds -> Prize \cup {None}],
         \A p \in Named(config) : W[p] = LastRow(config, p),
         NEW A, A = Active(W) \cap Named(config)
  PROVE  /\ Part(W, Named(config)) <= ActiveShare(config.prizes) + Cardinality(A)
         /\ Distinct(config.prizes) =>
              Part(W, Named(config))
                >= ActiveShare(config.prizes) - Cardinality(A)
<1> DEFINE rows == config.prizes
           D == DOMAIN rows
           f == [i \in D |-> IF rows[i].row.active THEN rows[i].checked ELSE 0]
           Of(i, p) == rows[i].id = p /\ W[p] = rows[i].row
           m == [p \in A |-> CHOOSE i \in D : Of(i, p)]
           c == [p \in A |-> f[m[p]]]
           L == {i \in D : \E p \in A : m[p] = i}
           g == Weights(W)
<1>1. /\ Len(rows) \in Nat /\ D = 1 .. Len(rows)
      /\ \A i \in D :
           /\ rows[i].row \in Prize /\ rows[i].checked \in Nat
           /\ rows[i].row.weight <= rows[i].checked + 1
           /\ rows[i].checked <= rows[i].row.weight + 1
  BY ConfigRows
<1>2. /\ Named(config) \in SUBSET PrizeIds /\ A \in SUBSET PrizeIds
      /\ A \in SUBSET Named(config)
  BY ConfigRows DEF Named, Active
<1>3. IsFiniteSet(D) /\ IsFiniteSet(A) /\ Cardinality(A) \in Nat
  <2>1. IsFiniteSet(D)
    <3>1. PICK n \in Nat : D = 1 .. n
      BY <1>1
    <3>2. IsFiniteSet(1 .. n)
      BY FS_Interval
    <3> QED
      BY <3>1, <3>2
  <2>2. IsFiniteSet(A)
    BY <1>2, WheelAssumption, FS_Subset
  <2> QED
    BY <2>1, <2>2, FS_CardinalityType
<1>4. \A i \in D : f[i] \in Nat
  BY <1>1
<1>5. \A p \in A : m[p] \in L /\ m[p] \in D /\ Of(m[p], p)
  <2> SUFFICES ASSUME NEW p \in A PROVE m[p] \in D /\ Of(m[p], p)
    OBVIOUS
  <2>1. \E i \in D : Of(i, p)
    BY <1>2, LastRowIsRow
  <2> QED
    BY <2>1
<1>6. \A p \in A : /\ c[p] \in Int /\ g[p] \in Int
                   /\ g[p] <= c[p] + 1 /\ c[p] <= g[p] + 1
  <2> SUFFICES ASSUME NEW p \in A
               PROVE  /\ c[p] \in Int /\ g[p] \in Int
                      /\ g[p] <= c[p] + 1 /\ c[p] <= g[p] + 1
    OBVIOUS
  <2>1. PICK i \in D : i = m[p] /\ Of(i, p)
    BY <1>5
  <2>2. W[p].active /\ p \in Active(W) /\ p \in PrizeIds
    BY DEF Active
  <2>3. g[p] = rows[i].row.weight
    BY <2>1, <2>2 DEF Weights
  <2>4. c[p] = rows[i].checked
    BY <2>1, <2>2
  <2>5. /\ rows[i].row.weight \in Nat /\ rows[i].checked \in Nat
        /\ rows[i].row.weight <= rows[i].checked + 1
        /\ rows[i].checked <= rows[i].row.weight + 1
    BY <1>1, <2>1 DEF Prize
  <2> HIDE DEF c, g
  <2> QED
    BY <2>3, <2>4, <2>5
<1>7. /\ SumFunctionOnSet(g, A) <= SumFunctionOnSet(c, A) + Cardinality(A)
      /\ SumFunctionOnSet(c, A) <= SumFunctionOnSet(g, A) + Cardinality(A)
  <2> HIDE DEF c, g
  <2>1. /\ SumFunctionOnSet(g, A) <= SumFunctionOnSet(c, A) + Cardinality(A) * 1
        /\ SumFunctionOnSet(c, A) <= SumFunctionOnSet(g, A) + Cardinality(A) * 1
    BY <1>3, <1>6, SumWithin
  <2> QED
    BY <1>3, <2>1
<1>8. SumFunctionOnSet(c, A) = SumFunctionOnSet(f, L)
  <2>1. /\ m \in [A -> L]
        /\ \A p \in A : c[p] \in Int /\ c[p] = f[m[p]]
        /\ \A p, q \in A : m[p] = m[q] => p = q
        /\ \A i \in L : \E p \in A : m[p] = i
    <3>1. m \in [A -> L]
      BY <1>5
    <3>2. \A p \in A : c[p] \in Int /\ c[p] = f[m[p]]
      BY <1>6
    <3>3. \A p, q \in A : m[p] = m[q] => p = q
      <4>1. \A p \in A : rows[m[p]].id = p
        BY <1>5
      <4> HIDE DEF m
      <4> QED
        BY <4>1
    <3>4. \A i \in L : \E p \in A : m[p] = i
      OBVIOUS
    <3> QED
      BY <3>1, <3>2, <3>3, <3>4
  <2> HIDE DEF c, f, m, L
  <2> QED
    BY <1>3, <2>1, SumReindexed
<1>9. /\ SumFunctionOnSet(f, L) <= SumFunctionOnSet(f, D)
      /\ SumFunctionOnSet(f, L) \in Nat /\ SumFunctionOnSet(f, D) \in Nat
  <2>1. L \in SUBSET D /\ IsFiniteSet(L) /\ \A i \in L : f[i] \in Nat
    BY <1>3, <1>4, FS_Subset
  <2> HIDE DEF f, L, D
  <2> QED
    BY <1>3, <1>4, <2>1, SumOfPart, SumOfNaturals
<1>10. Distinct(rows) => SumFunctionOnSet(f, D) = SumFunctionOnSet(f, L)
  <2> SUFFICES ASSUME Distinct(rows)
               PROVE  SumFunctionOnSet(f, D) = SumFunctionOnSet(f, L)
    OBVIOUS
  <2>1. ASSUME NEW i \in D \ L
        PROVE  f[i] = 0
    <3> SUFFICES ASSUME rows[i].row.active PROVE FALSE
      OBVIOUS
    <3> DEFINE p == rows[i].id
    <3>1. p \in Named(config) /\ W[p] = rows[i].row
      BY LastRowIsRow DEF Named
    <3>2. p \in A
      BY <1>1, <1>2, <3>1, WheelAssumption DEF Active
    <3>3. m[p] = i
      BY <1>5, <3>2 DEF Distinct
    <3> QED
      BY <3>2, <3>3
  <2>2. L \in SUBSET D /\ \A i \in D : f[i] \in Int
    BY <1>4
  <2> HIDE DEF f, L, D
  <2> QED
    BY <1>3, <2>1, <2>2, SumOfSupport
<1>11. Part(W, Named(config)) = SumFunctionOnSet(g, A)
  <2>1. \A p \in Named(config) \ A : g[p] = 0
    BY <1>2 DEF Weights
  <2>2. IsFiniteSet(Named(config)) /\ \A p \in Named(config) : g[p] \in Int
    BY <1>2, Parts
  <2> HIDE DEF g
  <2> QED
    BY <1>2, <2>1, <2>2, SumOfSupport DEF Part, g
<1>12. ActiveShare(rows) = SumFunctionOnSet(f, D)
  BY DEF ActiveShare, SumFunction
<1>13. Part(W, Named(config)) \in Nat
  BY <1>2, Parts
<1> HIDE DEF rows, f, L, D, c, g
<1> QED
  BY <1>3, <1>7, <1>8, <1>9, <1>10, <1>11, <1>12, <1>13 DEF rows

\* The shares of the dto add up; the save overlaps no other, or it shows.
LEMMA StartSaveStep ==
  ASSUME IInv, NEW r \in Reqs, NEW config \in Configs, StartSave(r, config)
  PROVE  IInv'
<1> DEFINE new == [req[r] EXCEPT !.pc = "ids", !.config = config,
                                 !.new = Named(config) \cap fresh]
<1>1. /\ req[r] \in ReqRow /\ req[r].pc = "idle"
      /\ ActiveShare(config.prizes) = BasisPoints
      /\ fresh' = fresh \ Named(config)
      /\ distorted' = distorted \cup
           (IF Saving # {} THEN {"overlap"} ELSE {}) \cup
           (IF Cardinality(Named(config)) < Len(config.prizes)
            THEN {"twice"} ELSE {})
      /\ UNCHANGED <<now, tables, lock>>
  BY DEF StartSave, IInv, TypeOK
<1>2. config \in Config /\ config # None
  BY WheelAssumption
<1>3. /\ new \in ReqRow /\ new.pc = "ids" /\ new.config = config
  BY <1>1, <1>2 DEF ReqRow, IInv, TypeOK
<1>4. req' = [req EXCEPT ![r] = new]
  BY DEF StartSave, IInv, TypeOK
<1> HIDE DEF new
<1>5. /\ req' \in [Reqs -> ReqRow] /\ req'[r] = new
      /\ \A q \in Reqs \ {r} : req'[q] = req[q]
  BY <1>3, <1>4 DEF IInv, TypeOK
<1>6. /\ distorted' \subseteq {"overlap", "twice"}
      /\ "overlap" \notin distorted' =>
           "overlap" \notin distorted /\ Saving = {}
      /\ "twice" \notin distorted' =>
           "twice" \notin distorted /\ Distinct(config.prizes)
  BY <1>1, <1>2, NamesDistinct DEF IInv, TypeOK
<1>7. TypeOK'
  BY <1>1, <1>5, <1>6 DEF IInv, TypeOK, tables
<1>8. SpinOK(r)' /\ SaveOK(r)'
  BY <1>1, <1>2, <1>3, <1>5, <1>6 DEF SpinOK, SaveOK, ActiveShare, Distinct
<1>9. ASSUME NEW q \in Reqs \ {r}
      PROVE  SpinOK(q)' /\ SaveOK(q)'
  <2>1. SpinOK(q) /\ SaveOK(q) /\ req'[q] = req[q]
    BY <1>5 DEF IInv, RequestsOK
  <2>2. SpinOK(q)'
    BY <1>1, <2>1 DEF SpinOK, NextEligible, tables
  <2>3. SaveOK(q)'
    BY <1>1, <1>6, <2>1 DEF SaveOK, ActiveShare, Distinct, Named, tables
  <2> QED
    BY <2>2, <2>3
<1>10. SavesAlone'
  BY <1>5, <1>6 DEF SavesAlone, Saving
<1>11. CooldownKept' /\ EverySpinPaid'
  BY <1>1 DEF IInv, CooldownKept, EverySpinPaid, tables
<1>12. WheelAddsUp'
  BY <1>1, <1>6 DEF IInv, WheelAddsUp, Offered, Active, Share, tables
<1>13. SharesOK'
  BY <1>1, <1>3, <1>5, SharesStay DEF tables
<1> QED
  BY <1>7, <1>8, <1>9, <1>10, <1>11, <1>12, <1>13 DEF IInv, RequestsOK

\* The prizes to delete are listed: with those it names, the save will touch
\* all there are.
LEMMA ReadIdsStep ==
  ASSUME IInv, NEW r \in Reqs, ReadIds(r)
  PROVE  IInv'
<1> DEFINE gone == {p \in PrizeIds : prizes[p] # None}
                     \ Named(req[r].config)
           new == [req[r] EXCEPT !.pc = "apply", !.drop = gone]
<1>1. /\ req[r] \in ReqRow /\ SaveOK(r) /\ req[r].pc = "ids" /\ Local
  BY DEF IInv, TypeOK, RequestsOK, ReadIds
<1>2. /\ new \in ReqRow /\ new.pc = "apply" /\ new.config = req[r].config
      /\ new.drop = gone
  BY <1>1 DEF ReqRow
<1>3. req' = [req EXCEPT ![r] = new]
  BY DEF ReadIds, IInv, TypeOK
<1> HIDE DEF new
<1>4. req'[r] = new
  BY <1>3, <1>2 DEF IInv, TypeOK
<1>5. SpinOK(r)' /\ SaveOK(r)'
  BY <1>1, <1>2, <1>4
     DEF SpinOK, SaveOK, ActiveShare, Distinct, Named, Local, tables
<1>6. SharesOK'
  <2> SUFFICES ASSUME NEW Q \in SUBSET (Applying')
               PROVE  Part(prizes, PrizeIds \ UNION {Touched(q)' : q \in Q})
                        <= (Cardinality(Reqs) - Cardinality(Q)) * MostShare
    BY <1>1 DEF SharesOK, Part, Weights, Active, MostShare, Local, tables
  <2> DEFINE S == PrizeIds \ UNION {Touched(q)' : q \in Q}
  <2>1. \A q \in Reqs \ {r} : req'[q] = req[q]
    BY <1>3 DEF IInv, TypeOK
  <2>2. CASE r \in Q
    <3>1. \A p \in S : prizes[p] = None
      BY <2>2, <1>2, <1>4 DEF Touched, Named
    <3>2. Part(prizes, S) = 0
      BY <3>1, Parts DEF IInv, TypeOK
    <3>3. Cardinality(Q) \in Nat /\ Cardinality(Q) <= Cardinality(Reqs)
      BY Counts, FS_Subset, FS_CardinalityType DEF Applying
    <3>4. 0 <= (Cardinality(Reqs) - Cardinality(Q)) * MostShare
      <4> DEFINE k == Cardinality(Reqs) - Cardinality(Q)
      <4>1. k \in Nat /\ MostShare \in Nat
        BY <3>3, Counts
      <4> HIDE DEF k
      <4>2. 0 <= k * MostShare
        BY <4>1
      <4> QED
        BY <4>2 DEF k
    <3> QED
      BY <3>2, <3>4
  <2>3. CASE r \notin Q
    <3>1. Q \in SUBSET Applying
      BY <2>1, <2>3 DEF Applying
    <3>2. \A q \in Q : Touched(q)' = Touched(q)
      BY <2>1, <2>3 DEF Applying, Touched, Named
    <3>3. {Touched(q)' : q \in Q} = {Touched(q) : q \in Q}
      BY <3>2
    <3> QED
      BY <3>1, <3>3 DEF IInv, SharesOK
  <2> QED
    BY <2>2, <2>3
<1> QED
  BY <1>1, <1>2, <1>3, <1>5, <1>6, LocalStep DEF Local, IInv, TypeOK

\* The save is written: the shares of the wheel are those of the dto, if the
\* prizes it deletes are all the others.
LEMMA ApplyConfigStep ==
  ASSUME IInv, NEW r \in Reqs, ApplyConfig(r)
  PROVE  IInv'
<1>1. CASE Throw(r)
  BY <1>1, ThrowStep
<1>2. CASE ~Throw(r)
  <2> DEFINE config == req[r].config
             drop == req[r].drop
  <2>1. /\ \A p \in Named(config) \ req[r].new : prizes[p] # None
        /\ prizes' = SavedWheel(r)
        /\ spins' = SpinsWithout(drop)
        /\ cooldown' = config.cooldown
        /\ End(r)
        /\ UNCHANGED <<now, users, postings, fresh, distorted>>
    BY <1>2 DEF ApplyConfig
  <2>2. req[r] \in ReqRow /\ SaveOK(r) /\ req[r].pc = "apply"
    BY DEF IInv, TypeOK, RequestsOK, ApplyConfig
  <2>3. /\ config \in Config /\ config # None
        /\ ActiveShare(config.prizes) = BasisPoints
        /\ drop \in SUBSET PrizeIds
    BY <2>2, WheelAssumption DEF SaveOK, ReqRow
  <2>4. /\ drop \cap Named(config) = {}
        /\ "twice" \notin distorted => Distinct(config.prizes)
        /\ "overlap" \notin distorted =>
             drop = {p \in PrizeIds : prizes[p] # None} \ Named(config)
    BY <2>2, <2>3 DEF SaveOK
  <2> HIDE DEF config, drop
  <2>5. /\ prizes' \in [PrizeIds -> Prize \cup {None}]
        /\ \A p \in PrizeIds :
             prizes'[p] = CASE p \in Named(config) -> LastRow(config, p)
                            [] p \in drop -> None
                            [] OTHER -> prizes[p]
    <3>1. prizes' = [p \in PrizeIds |->
                       CASE p \in Named(config) -> LastRow(config, p)
                         [] p \in drop -> None
                         [] OTHER -> prizes[p]]
      BY <2>1 DEF SavedWheel, config, drop
    <3>2. \A p \in Named(config) : LastRow(config, p) \in Prize
      BY <2>3, LastRowIsRow
    <3> QED
      BY <3>1, <3>2 DEF IInv, TypeOK
  <2>6. \A p \in PrizeIds :
          prizes[p] # None /\ p \notin drop => prizes'[p] # None
    <3>1. \A p \in Named(config) : LastRow(config, p) # None
      BY <2>3, LastRowIsRow, WheelAssumption
    <3> QED
      BY <2>5, <3>1
  <2>7. /\ spins' \in [Users -> Seq(Spin)]
        /\ \A u \in Users :
             /\ spins[u] \in Seq(Spin)
             /\ DOMAIN spins'[u] = DOMAIN spins[u]
             /\ Len(spins'[u]) = Len(spins[u])
             /\ \A i \in DOMAIN spins[u] :
                  /\ spins[u][i] \in Spin /\ spins'[u][i] \in Spin
                  /\ spins'[u][i].at = spins[u][i].at
                  /\ spins'[u][i].wait = spins[u][i].wait
                  /\ spins'[u][i].reward = spins[u][i].reward
                  /\ spins'[u][i].prize = IF spins[u][i].prize \in drop
                                          THEN None ELSE spins[u][i].prize
    <3> DEFINE Cleared(s) == [s EXCEPT !.prize = IF @ \in drop
                                                 THEN None ELSE @]
    <3>1. \A s \in Spin :
            /\ Cleared(s) \in Spin
            /\ Cleared(s).at = s.at /\ Cleared(s).wait = s.wait
            /\ Cleared(s).reward = s.reward
            /\ Cleared(s).prize = IF s.prize \in drop THEN None ELSE s.prize
      BY DEF Spin
    <3>2. spins' = [u \in Users |-> [i \in DOMAIN spins[u] |->
                                       Cleared(spins[u][i])]]
      BY <2>1 DEF SpinsWithout
    <3> HIDE DEF Cleared
    <3>3. ASSUME NEW u \in Users
          PROVE  /\ spins[u] \in Seq(Spin)
                 /\ spins'[u] \in Seq(Spin)
                 /\ DOMAIN spins'[u] = DOMAIN spins[u]
                 /\ Len(spins'[u]) = Len(spins[u])
                 /\ \A i \in DOMAIN spins[u] :
                      /\ spins[u][i] \in Spin
                      /\ spins'[u][i] = Cleared(spins[u][i])
      <4>1. spins[u] \in Seq(Spin)
        BY DEF IInv, TypeOK
      <4>2. spins'[u] = [i \in 1 .. Len(spins[u]) |-> Cleared(spins[u][i])]
        BY <3>2, <4>1
      <4>3. \A i \in 1 .. Len(spins[u]) :
              spins[u][i] \in Spin /\ Cleared(spins[u][i]) \in Spin
        BY <3>1, <4>1
      <4> QED
        BY <4>1, <4>2, <4>3
    <3>4. spins' \in [Users -> Seq(Spin)]
      BY <3>2, <3>3
    <3> QED
      BY <3>1, <3>3, <3>4
  <2>8. TypeOK'
    <3>1. req' \in [Reqs -> ReqRow] /\ lock' \in [LockKeys -> Reqs \cup {None}]
      BY <2>1, EndEffect
    <3>2. cooldown' \in Nat
      BY <2>1, <2>3 DEF Config
    <3>3. ASSUME NEW u \in Users, NEW i \in DOMAIN spins'[u],
                 spins'[u][i].prize # None
          PROVE  prizes'[spins'[u][i].prize] # None
      <4>1. /\ i \in DOMAIN spins[u] /\ spins[u][i].prize \notin drop
            /\ spins'[u][i].prize = spins[u][i].prize
            /\ spins[u][i] \in Spin
        BY <2>7, <3>3
      <4>2. prizes[spins[u][i].prize] # None /\ spins[u][i].prize \in PrizeIds
        BY <4>1, <3>3 DEF IInv, TypeOK, Spin
      <4> QED
        BY <4>1, <4>2, <2>6
    <3> QED
      BY <3>1, <3>2, <3>3, <2>1, <2>5, <2>7 DEF IInv, TypeOK
  <2>9. RequestsOK' /\ SavesAlone'
    <3>1. ASSUME NEW u \in Users
          PROVE  SameLast(u)
      <4>1. /\ spins[u] \in Seq(Spin) /\ spins'[u] \in Seq(Spin)
            /\ Len(spins'[u]) = Len(spins[u])
        BY <2>7
      <4>2. spins[u] # <<>> => Len(spins[u]) \in DOMAIN spins[u]
        BY <4>1
      <4> QED
        BY <4>1, <4>2, <2>7 DEF SameLast
    <3>2. \A q \in Reqs : req[q].pc \in {"draw", "commit"} =>
                            req[q].user \in Users
      BY DEF IInv, RequestsOK, SpinOK
    <3> QED
      BY <3>1, <3>2, <2>1, <2>3, EndKeepsRequests DEF config
  <2>10. CooldownKept'
    <3>1. \A u \in Users : \A i \in DOMAIN spins[u] \ {1} :
            i - 1 \in DOMAIN spins[u]
      BY <2>7
    <3> QED
      BY <3>1, <2>7 DEF IInv, CooldownKept
  <2>11. EverySpinPaid'
    <3> SUFFICES ASSUME NEW u \in Users
                 PROVE  postings[u] = [i \in DOMAIN spins'[u] |->
                                         spins'[u][i].reward]
      BY <2>1 DEF EverySpinPaid
    <3>1. postings[u] = [i \in DOMAIN spins[u] |-> spins[u][i].reward]
      BY DEF IInv, EverySpinPaid
    <3> QED
      BY <3>1, <2>7
  <2> DEFINE A == Active(prizes') \cap Named(config)
  <2>12. /\ Named(config) \in SUBSET PrizeIds
         /\ Part(prizes', Named(config)) \in Nat
         /\ Part(prizes', Named(config)) <= BasisPoints + Cardinality(A)
         /\ "twice" \notin distorted =>
              Part(prizes', Named(config)) >= BasisPoints - Cardinality(A)
    <3>1. Named(config) \in SUBSET PrizeIds
      BY <2>3, ConfigRows DEF Named
    <3>2. \A p \in Named(config) : prizes'[p] = LastRow(config, p)
      BY <2>4, <2>5, <3>1
    <3>3. Part(prizes', Named(config)) \in Nat
      BY <2>5, <3>1, Parts
    <3> QED
      BY <2>3, <2>4, <2>5, <3>1, <3>2, <3>3, SavedShare
  <2>13. WheelAddsUp'
    <3>1. /\ Active(prizes') \in SUBSET PrizeIds
          /\ A \in SUBSET PrizeIds /\ A \in SUBSET Active(prizes')
      BY DEF Active
    <3>2. /\ Cardinality(A) \in Nat /\ Cardinality(Active(prizes')) \in Nat
          /\ Cardinality(A) <= Cardinality(Active(prizes'))
      BY <3>1, Counts, FS_Subset
    <3>3. /\ Share(prizes') = Part(prizes', PrizeIds)
          /\ Part(prizes', PrizeIds) \in Nat
          /\ Part(prizes', PrizeIds) >= Part(prizes', Named(config))
          /\ Part(prizes', PrizeIds) = Part(prizes', Named(config))
               + Part(prizes', PrizeIds \ Named(config))
      BY <2>5, <2>12, Parts
    <3>4. "overlap" \notin distorted =>
            Part(prizes', PrizeIds \ Named(config)) = 0
      <4>1. "overlap" \notin distorted =>
              \A p \in PrizeIds \ Named(config) : prizes'[p] = None
        BY <2>4, <2>5
      <4> QED
        BY <4>1, <2>5, Parts
    <3> HIDE DEF A
    <3>5. /\ "twice" \notin distorted =>
               Share(prizes') >= BasisPoints - Cardinality(Active(prizes'))
          /\ "overlap" \notin distorted =>
               Share(prizes') <= BasisPoints + Cardinality(Active(prizes'))
      BY <2>12, <3>2, <3>3, <3>4, WheelAssumption
    <3> QED
      BY <2>1, <3>5 DEF WheelAddsUp, Offered, Share, Active
  <2>14. SharesOK'
    <3> SUFFICES ASSUME NEW Q \in SUBSET (Applying')
                 PROVE  Part(prizes', PrizeIds \ UNION {Touched(q)' : q \in Q})
                          <= (Cardinality(Reqs) - Cardinality(Q)) * MostShare
      BY DEF SharesOK, Part, Weights, Active, MostShare
    <3>1. /\ req'[r] = Idle /\ \A q \in Reqs \ {r} : req'[q] = req[q]
      BY <2>1, EndEffect
    <3>2. r \notin Q /\ Q \cup {r} \in SUBSET Applying
      BY <2>2, <3>1 DEF Applying, Idle
    <3>3. \A q \in Q : Touched(q)' = Touched(q)
      BY <3>1, <3>2 DEF Applying, Touched, Named
    <3>4. {Touched(q)' : q \in Q} = {Touched(q) : q \in Q}
      BY <3>3
    <3> DEFINE S == PrizeIds \ UNION {Touched(q) : q \in Q}
               Rest == PrizeIds \ UNION {Touched(q) : q \in Q \cup {r}}
    <3>5. Rest = (S \ Named(config)) \ drop
      BY DEF Touched, config, drop
    <3>6. S \in SUBSET PrizeIds /\ S \cap Named(config) \in SUBSET Named(config)
      OBVIOUS
    <3> HIDE DEF S, Rest
    <3>7. Part(prizes', S) = Part(prizes', S \cap Named(config))
                               + Part(prizes', S \ Named(config))
      <4>1. S \ (S \cap Named(config)) = S \ Named(config)
        OBVIOUS
      <4>2. Part(prizes', S) = Part(prizes', S \cap Named(config))
                                 + Part(prizes', S \ (S \cap Named(config)))
        BY <2>5, <3>6, Parts
      <4> QED
        BY <4>1, <4>2
    <3>8. Part(prizes', S \cap Named(config)) <= Part(prizes', Named(config))
      BY <2>5, <2>12, <3>6, Parts
    <3>9. Part(prizes', S \ Named(config)) = Part(prizes, Rest)
      <4> DEFINE T == S \ Named(config)
                 Gone == T \cap drop
      <4>1. T \in SUBSET PrizeIds /\ Gone \in SUBSET T /\ Rest = T \ Gone
        BY <3>5, <3>6
      <4>2. \A p \in Gone : prizes'[p] = None
        BY <2>5, <4>1
      <4>3. \A p \in Rest : prizes'[p] = prizes[p]
        BY <2>5, <3>5, <4>1
      <4>4. Part(prizes', Gone) = 0 /\ Part(prizes', Rest) \in Nat
            /\ Part(prizes', T) = Part(prizes', Gone) + Part(prizes', Rest)
        BY <2>5, <4>1, <4>2, Parts
      <4>5. Part(prizes', Rest) = Part(prizes, Rest)
        <5>1. \A p \in Rest : /\ Weights(prizes')[p] \in Int
                              /\ Weights(prizes')[p] = Weights(prizes)[p]
          <6>1. \A p \in PrizeIds : Weights(prizes')[p] \in Int
            BY <2>5, Parts
          <6>2. \A p \in Rest : Weights(prizes')[p] = Weights(prizes)[p]
            BY <4>1, <4>3 DEF Weights, Active
          <6> QED
            BY <4>1, <6>1, <6>2
        <5>2. IsFiniteSet(Rest)
          BY <2>5, <4>1, Parts
        <5> QED
          BY <5>1, <5>2, SumOfSame DEF Part
      <4> QED
        BY <4>4, <4>5
    <3>10. /\ Part(prizes, Rest)
                <= (Cardinality(Reqs) - Cardinality(Q \cup {r})) * MostShare
           /\ Cardinality(Q \cup {r}) = Cardinality(Q) + 1
           /\ Cardinality(Q) \in Nat
      <4>1. IsFiniteSet(Q)
        BY Counts, FS_Subset DEF Applying
      <4> QED
        BY <3>2, <4>1, FS_AddElement, FS_CardinalityType DEF IInv, SharesOK, Rest
    <3>11. Part(prizes', Named(config)) <= MostShare
      BY <2>12, Counts, WheelAssumption DEF MostShare
    <3>12. /\ Part(prizes', S \cap Named(config)) \in Nat
           /\ Part(prizes, Rest) \in Nat
      BY <2>5, <3>5, <3>6, Parts DEF IInv, TypeOK
    <3>13. (Cardinality(Reqs) - (Cardinality(Q) + 1)) * MostShare + MostShare
             = (Cardinality(Reqs) - Cardinality(Q)) * MostShare
      BY <3>10, Counts
    <3>14. (Cardinality(Reqs) - (Cardinality(Q) + 1)) * MostShare \in Int
      BY <3>10, Counts
    <3>15. Part(prizes', S)
             <= (Cardinality(Reqs) - Cardinality(Q)) * MostShare
      BY <2>12, <3>7, <3>8, <3>9, <3>10, <3>11, <3>12, <3>13, <3>14, Counts
    <3> QED
      BY <3>4, <3>15 DEF S
  <2> QED
    BY <2>8, <2>9, <2>10, <2>11, <2>13, <2>14 DEF IInv
<1> QED
  BY <1>1, <1>2

-----------------------------------------------------------------------------
(* What happens around the requests. *)

\* Nobody's request is touched.
LEMMA AroundStep ==
  ASSUME IInv,
         EnsureSettings \/ Tick \/ \E u \in Users : DeleteUser(u)
  PROVE  IInv'
<1>1. /\ UNCHANGED <<prizes, spins, postings, fresh, lock, req, distorted>>
      /\ users' \subseteq Users
      /\ cooldown' \in Nat \cup {None}
      /\ now' \in Nat /\ now' >= now
  BY WheelAssumption
     DEF EnsureSettings, Tick, DeleteUser, tables, IInv, TypeOK
<1>2. TypeOK'
  BY <1>1 DEF IInv, TypeOK
<1>3. ASSUME NEW r \in Reqs
      PROVE  SpinOK(r)' /\ SaveOK(r)'
  <2>1. SpinOK(r) /\ SaveOK(r)
    BY DEF IInv, RequestsOK
  <2>2. req[r].pc = "draw" =>
          NextEligible(req[r].user, req[r].wait) \in Int
    <3>1. req[r].pc = "draw" => req[r].user \in Users
      BY <2>1 DEF SpinOK
    <3>2. req[r].wait \in Nat
      BY DEF IInv, TypeOK, ReqRow
    <3>3. ASSUME NEW u \in Users, spins[u] # <<>>
          PROVE  spins[u][Len(spins[u])] \in Spin
      <4>1. spins[u] \in Seq(Spin)
        BY DEF IInv, TypeOK
      <4> QED
        BY <3>3, <4>1
    <3> QED
      BY <3>1, <3>2, <3>3 DEF NextEligible, Spin
  <2>3. SpinOK(r)'
    BY <1>1, <2>1, <2>2 DEF SpinOK, NextEligible, IInv, TypeOK
  <2>4. SaveOK(r)'
    BY <1>1, <2>1 DEF SaveOK, ActiveShare, Distinct, Named
  <2> QED
    BY <2>3, <2>4
<1>4. SavesAlone'
  BY <1>1 DEF IInv, SavesAlone, Saving
<1>5. CooldownKept' /\ EverySpinPaid' /\ WheelAddsUp'
  BY <1>1
     DEF IInv, CooldownKept, EverySpinPaid, WheelAddsUp, Offered, Active, Share
<1>6. SharesOK'
  BY <1>1, SharesStay
<1> QED
  BY <1>2, <1>3, <1>4, <1>5, <1>6 DEF IInv, RequestsOK

-----------------------------------------------------------------------------
(* The theorems. *)

\* Every step keeps the invariant.
LEMMA NextInvariant == IInv /\ [Next]_vars => IInv'
<1> SUFFICES ASSUME IInv, [Next]_vars PROVE IInv'
  OBVIOUS
<1>1. ASSUME NEW r \in Reqs, NEW u \in Users, StartSpin(r, u)
      PROVE  IInv'
  BY <1>1, StartSpinStep
<1>2. ASSUME NEW r \in Reqs, NEW config \in Configs, StartSave(r, config)
      PROVE  IInv'
  BY <1>2, StartSaveStep
<1>3. ASSUME NEW r \in Reqs, Waiting(r)
      PROVE  IInv'
  BY <1>3, AcquireStep, ReadCooldownStep, ApplyConfigStep DEF Waiting
<1>4. ASSUME NEW r \in Reqs, Step(r)
      PROVE  IInv'
  BY <1>4, DrawStep, CommitSpinStep, ReadIdsStep DEF Step
<1>5. ASSUME NEW r \in Reqs, Fail(r)
      PROVE  IInv'
  BY <1>5, ThrowStep DEF Fail
<1>6. CASE EnsureSettings \/ Tick \/ \E u \in Users : DeleteUser(u)
  BY <1>6, AroundStep
<1>7. CASE UNCHANGED vars
  <2>1. TypeOK' /\ CooldownKept' /\ EverySpinPaid' /\ WheelAddsUp'
    BY <1>7 DEF vars, tables, IInv, TypeOK, CooldownKept, EverySpinPaid,
                WheelAddsUp, Offered, Active, Share
  <2>2. RequestsOK' /\ SavesAlone'
    BY <1>7 DEF vars, tables, IInv, RequestsOK, SpinOK, SaveOK, NextEligible,
                ActiveShare, Distinct, Named, SavesAlone, Saving
  <2>3. SharesOK'
    BY <1>7, SharesStay DEF vars, tables
  <2> QED
    BY <2>1, <2>2, <2>3 DEF IInv
<1> QED
  BY <1>1, <1>2, <1>3, <1>4, <1>5, <1>6, <1>7 DEF Next

\* The invariant holds in every state that spins and saves reach.
THEOREM SpinWheelInvariant == Spec => []IInv
  BY InitInvariant, NextInvariant, PTL DEF Spec

\* The rows of the wheel, its spins and the requests keep their types, and a
\* spin never refers to a prize that saveConfig has deleted.
THEOREM SpinWheelTypeCorrect == Spec => []TypeOK
<1>1. IInv => TypeOK
  BY DEF IInv
<1> QED
  BY <1>1, SpinWheelInvariant, PTL

\* spin never records two spins of a customer that are closer than the
\* cooldown the second one read, however many requests are sent at once.
THEOREM CooldownAlwaysKept == Spec => []CooldownKept
<1>1. IInv => CooldownKept
  BY DEF IInv
<1> QED
  BY <1>1, SpinWheelInvariant, PTL

\* What the engine posts for spins is, one by one, what spin recorded.
THEOREM SpinsArePaid == Spec => []EverySpinPaid
<1>1. IInv => EverySpinPaid
  BY DEF IInv
<1> QED
  BY <1>1, SpinWheelInvariant, PTL

\* validateActiveProbabilitySum checks a dto as JavaScript rounds it, not the
\* table; still a wheel with active prizes is within one basis point for each
\* of them of the whole: from below while no save has named a prize twice,
\* from above while no saves have overlapped.
THEOREM WheelAlwaysAddsUp == Spec => []WheelAddsUp
<1>1. IInv => WheelAddsUp
  BY DEF IInv
<1> QED
  BY <1>1, SpinWheelInvariant, PTL

\* saveConfig deletes what it has read, not what is there: saves that overlap
\* leave each other's prizes.  However they do, and whatever they name, the
\* wheel is never worth more than as many wholes as there are requests at a
\* time, each with the rounding of all prizes.
THEOREM SharesAreBounded == Spec => []SharesBounded
<1>1. IInv => SharesBounded
  <2> SUFFICES ASSUME IInv PROVE SharesBounded
    OBVIOUS
  <2>1. {} \in SUBSET Applying /\ Cardinality({}) = 0
    BY FS_EmptySet
  <2>2. PrizeIds \ UNION {Touched(q) : q \in {}} = PrizeIds
    OBVIOUS
  <2>3. Part(prizes, PrizeIds \ UNION {Touched(q) : q \in {}})
          <= (Cardinality(Reqs) - Cardinality({})) * MostShare
    BY <2>1 DEF IInv, SharesOK
  <2>4. Part(prizes, PrizeIds) <= (Cardinality(Reqs) - 0) * MostShare
    BY <2>1, <2>2, <2>3
  <2>5. Share(prizes) = Part(prizes, PrizeIds)
    BY Parts DEF IInv, TypeOK
  <2> QED
    BY <2>4, <2>5, Counts DEF SharesBounded, MostShare
<1> QED
  BY <1>1, SpinWheelInvariant, PTL

-----------------------------------------------------------------------------
(***************************************************************************)
(* The promise.  A turn is the request that holds the lock of the customer *)
(* and has computed the cooldown; a step of that request is a step of the  *)
(* turn, every other one changes nothing of it.                            *)
(***************************************************************************)

\* A settings row that a spin has inserted is the only one: until the spin
\* commits there is none, and the cooldown in force is the default.
MadeOK ==
  /\ \A r \in Reqs : req[r].made =>
       /\ req[r].pc \in {"draw", "commit"}
       /\ cooldown = None
       /\ req[r].wait = DefaultCooldown
  /\ \A r, q \in Reqs : req[r].made /\ req[q].made => r = q

\* What a request does to the others' inserted rows.
LEMMA MadeKept ==
  ASSUME IInv, MadeOK, NEW r \in Reqs, \A q \in Reqs \ {r} : req'[q] = req[q],
         \/ /\ ~req'[r].made
            /\ cooldown' = cooldown \/ SettingsFree \/ req[r].made
         \/ /\ req'[r].made => req[r].made
            /\ req'[r].wait = req[r].wait
            /\ req'[r].pc \in {"draw", "commit"} /\ cooldown' = cooldown
  PROVE  MadeOK'
  BY DEF MadeOK, SettingsFree

\* Every step keeps it.
LEMMA MadeInvariant == IInv /\ MadeOK /\ [Next]_vars => MadeOK'
<1> SUFFICES ASSUME IInv, MadeOK, [Next]_vars PROVE MadeOK'
  OBVIOUS
<1>t. req \in [Reqs -> ReqRow]
  BY DEF IInv, TypeOK
<1>1. ASSUME NEW r \in Reqs, End(r), UNCHANGED cooldown \/ SettingsFree
                                     \/ req[r].made
      PROVE  MadeOK'
  BY <1>1, EndEffect, MadeKept DEF Idle
<1>2. ASSUME NEW r \in Reqs, Throw(r)
      PROVE  MadeOK'
  BY <1>2, <1>1 DEF Throw, tables
<1>3. ASSUME NEW r \in Reqs,
             \/ \E u \in Users : StartSpin(r, u)
             \/ \E config \in Configs : StartSave(r, config)
             \/ Acquire(r) \/ ReadIds(r)
      PROVE  MadeOK'
  <2>1. /\ req[r].pc \notin {"draw", "commit"}
        /\ req'[r].made => req[r].made
        /\ \A q \in Reqs \ {r} : req'[q] = req[q]
        /\ cooldown' = cooldown
    <3>1. CASE \E u \in Users : StartSpin(r, u)
      BY <3>1, <1>t DEF StartSpin, Local, tables, ReqRow
    <3>2. CASE \E config \in Configs : StartSave(r, config)
      BY <3>2, <1>t DEF StartSave, tables, ReqRow
    <3>3. CASE Acquire(r) \/ ReadIds(r)
      BY <3>3, <1>t DEF Acquire, ReadIds, Local, tables, ReqRow
    <3> QED
      BY <1>3, <3>1, <3>2, <3>3
  <2>2. ~req[r].made
    BY <2>1 DEF MadeOK
  <2> QED
    BY <2>1, <2>2, MadeKept
<1>4. ASSUME NEW r \in Reqs, ReadCooldown(r), ~Throw(r)
      PROVE  MadeOK'
  <2>1. /\ req'[r].pc = "draw"
        /\ req'[r].made => cooldown = None
        /\ cooldown = None => req'[r].wait = DefaultCooldown
        /\ \A q \in Reqs \ {r} : req'[q] = req[q]
        /\ cooldown' = cooldown
        /\ cooldown = None => SettingsFree
    BY <1>4, <1>t DEF ReadCooldown, Local, tables, ReqRow
  <2> QED
    BY <2>1 DEF MadeOK, SettingsFree
<1>5. ASSUME NEW r \in Reqs, Draw(r), ~Throw(r)
      PROVE  MadeOK'
  <2>1. /\ req'[r].pc = "commit"
        /\ req'[r].made => req[r].made
        /\ req'[r].wait = req[r].wait
        /\ \A q \in Reqs \ {r} : req'[q] = req[q]
        /\ cooldown' = cooldown
    <3>1. PICK p \in Drawable :
            req' = [req EXCEPT ![r].pc = "commit", ![r].prize = p,
                               ![r].drawn = prizes[p], ![r].at = now]
      BY <1>5 DEF Draw
    <3>2. cooldown' = cooldown
      BY <1>5 DEF Draw, Local, tables
    <3>3. req'[r] = [req[r] EXCEPT !.pc = "commit", !.prize = p,
                                   !.drawn = prizes[p], !.at = now]
      BY <3>1, <1>t
    <3>4. /\ req'[r].pc = "commit" /\ req'[r].wait = req[r].wait
          /\ req'[r].made = req[r].made
      BY <3>3, <1>t DEF ReqRow
    <3> QED
      BY <3>1, <3>2, <3>4, <1>t
  <2> QED
    BY <2>1, MadeKept
<1>6. ASSUME NEW r \in Reqs, CommitSpin(r), ~Throw(r)
      PROVE  MadeOK'
  BY <1>6, <1>1 DEF CommitSpin
<1>7. ASSUME NEW r \in Reqs, ApplyConfig(r), ~Throw(r)
      PROVE  MadeOK'
  BY <1>7, <1>1 DEF ApplyConfig
<1>8. CASE EnsureSettings \/ Tick \/ (\E u \in Users : DeleteUser(u))
             \/ UNCHANGED vars
  BY <1>8 DEF EnsureSettings, Tick, DeleteUser, vars, tables, MadeOK,
              SettingsFree
<1> QED
  BY <1>2, <1>3, <1>4, <1>5, <1>6, <1>7, <1>8
     DEF Next, Waiting, Step, Fail

\* A request holds the lock of the customer it spins for: nobody else does.
LEMMA OneTurn ==
  ASSUME IInv, NEW r \in Reqs, NEW q \in Reqs, q # r,
         req[r].pc \in {"locked", "draw", "commit"},
         req[q].pc \in {"locked", "draw", "commit"}
  PROVE  req[q].user # req[r].user
  BY DEF IInv, RequestsOK, SpinOK

\* What a step leaves alone if it is not about a turn and not about what the
\* turns depend on.
LEMMA TurnsStay ==
  ASSUME NEW r \in Reqs, \A q \in Reqs \ {r} : req'[q] = req[q],
         req[r].pc \notin {"draw", "commit"},
         req'[r].pc \notin {"draw", "commit"}
  PROVE  Begun' = Begun /\ Drawn' = Drawn
<1>1. \A u \in Users, pc \in {"draw", "commit"} :
        /\ SpinsAt(u, pc)' = SpinsAt(u, pc)
        /\ \A q \in SpinsAt(u, pc) : req'[q] = req[q]
  BY DEF SpinsAt
<1> QED
  BY <1>1 DEF Begun, Drawn

\* The tables as a customer sees them, when a step leaves them alone.
LEMMA ViewStays ==
  ASSUME UNCHANGED <<now, tables>>
  PROVE  UNCHANGED <<now, users, CooldownInForce, Wheel, Taken, postings>>
  BY DEF tables, CooldownInForce, Wheel, Taken

\* How the turns change when those of one customer do.
LEMMA OneCustomer ==
  ASSUME NEW u \in Users, NEW waits, NEW turns,
         Begun'[u] = waits, Drawn'[u] = turns,
         \A v \in Users \ {u} : Begun'[v] = Begun[v] /\ Drawn'[v] = Drawn[v]
  PROVE  /\ Begun' = [Begun EXCEPT ![u] = waits]
         /\ Drawn' = [Drawn EXCEPT ![u] = turns]
<1>1. /\ Begun = [v \in Users |-> Begun[v]]
      /\ Begun' = [v \in Users |-> Begun'[v]]
  BY DEF Begun
<1>2. /\ Drawn = [v \in Users |-> Drawn[v]]
      /\ Drawn' = [v \in Users |-> Drawn'[v]]
  BY DEF Drawn
<1>3. Begun' = [Begun EXCEPT ![u] = waits]
  <2>1. Begun' = [v \in Users |-> IF v = u THEN waits ELSE Begun[v]]
    BY <1>1
  <2> QED
    BY <1>1, <2>1
<1>4. Drawn' = [Drawn EXCEPT ![u] = turns]
  <2>1. Drawn' = [v \in Users |-> IF v = u THEN turns ELSE Drawn[v]]
    BY <1>2
  <2> QED
    BY <1>2, <2>1
<1> QED
  BY <1>3, <1>4

\* The turn that r is taking for u: nothing before it draws.
WaitOf(row) == IF row.pc = "draw" THEN {row.wait} ELSE {}
TurnOf(row) ==
  IF row.pc = "commit"
  THEN {[at |-> row.at, wait |-> row.wait, reward |-> Posting(row.drawn)]}
  ELSE {}

\* A request that holds the lock of u makes up the turn of u.
LEMMA TurnOfRequest ==
  ASSUME IInv, NEW r \in Reqs, NEW u \in Users, u = req[r].user,
         req[r].pc \in {"locked", "draw", "commit"}
  PROVE  Begun[u] = WaitOf(req[r]) /\ Drawn[u] = TurnOf(req[r])
<1>1. \A q \in Reqs \ {r} :
        req[q].pc \in {"draw", "commit"} => req[q].user # u
  BY OneTurn
<1>2. SpinsAt(u, "draw") = IF req[r].pc = "draw" THEN {r} ELSE {}
  BY <1>1 DEF SpinsAt
<1>3. SpinsAt(u, "commit") = IF req[r].pc = "commit" THEN {r} ELSE {}
  BY <1>1 DEF SpinsAt
<1> QED
  BY <1>2, <1>3 DEF Begun, Drawn, WaitOf, TurnOf

\* So it does after a step of its own; the turns of others are as they were.
LEMMA TurnAfterStep ==
  ASSUME IInv, NEW r \in Reqs, NEW u \in Users, u = req[r].user,
         req[r].pc \in {"locked", "draw", "commit"},
         \A q \in Reqs \ {r} : req'[q] = req[q],
         req'[r].user = u \/ req'[r].pc = "idle"
  PROVE  /\ Begun' = [Begun EXCEPT ![u] = WaitOf(req'[r])]
         /\ Drawn' = [Drawn EXCEPT ![u] = TurnOf(req'[r])]
<1>1. \A q \in Reqs \ {r} :
        req[q].pc \in {"draw", "commit"} => req[q].user # u
  BY OneTurn
<1>2. SpinsAt(u, "draw")' = IF req'[r].pc = "draw" THEN {r} ELSE {}
  BY <1>1 DEF SpinsAt
<1>3. SpinsAt(u, "commit")' = IF req'[r].pc = "commit" THEN {r} ELSE {}
  BY <1>1 DEF SpinsAt
<1>4. Begun'[u] = WaitOf(req'[r]) /\ Drawn'[u] = TurnOf(req'[r])
  BY <1>2, <1>3 DEF Begun, Drawn, WaitOf, TurnOf
<1>5. ASSUME NEW v \in Users \ {u}
      PROVE  Begun'[v] = Begun[v] /\ Drawn'[v] = Drawn[v]
  <2>1. ASSUME NEW pc \in {"draw", "commit"}
        PROVE  /\ SpinsAt(v, pc)' = SpinsAt(v, pc)
               /\ \A q \in SpinsAt(v, pc) : req'[q] = req[q]
    <3>1. r \notin SpinsAt(v, pc) /\ r \notin SpinsAt(v, pc)'
      BY DEF SpinsAt
    <3>2. \A q \in Reqs : q # r => req'[q] = req[q]
      OBVIOUS
    <3> QED
      BY <3>1, <3>2 DEF SpinsAt
  <2> QED
    BY <2>1 DEF Begun, Drawn
<1> QED
  BY <1>4, <1>5, OneCustomer

\* A request that breaks off ends its turn, if it has one.
LEMMA ThrowAbandons ==
  ASSUME IInv, NEW r \in Reqs, Throw(r)
  PROVE  [Promise!Next]_(Promise!vars)
<1>1. /\ UNCHANGED <<now, users, CooldownInForce, Wheel, Taken, postings>>
      /\ req'[r] = Idle
      /\ \A q \in Reqs \ {r} : req'[q] = req[q]
  BY EndEffect, ViewStays DEF Throw
<1>2. CASE req[r].pc \notin {"draw", "commit"}
  <2>1. Begun' = Begun /\ Drawn' = Drawn
    BY <1>1, <1>2, TurnsStay DEF Idle
  <2> QED
    BY <1>1, <2>1 DEF Promise!vars
<1>3. CASE req[r].pc \in {"draw", "commit"}
  <2>1. PICK u \in Users : u = req[r].user
    BY <1>3 DEF IInv, RequestsOK, SpinOK
  <2>2. WaitOf(req'[r]) = {} /\ TurnOf(req'[r]) = {}
    BY <1>1 DEF WaitOf, TurnOf, Idle
  <2>3. /\ Begun' = [Begun EXCEPT ![u] = {}]
        /\ Drawn' = [Drawn EXCEPT ![u] = {}]
    <3>1. req'[r].pc = "idle"
      BY <1>1 DEF Idle
    <3> QED
      BY <1>1, <1>3, <2>1, <2>2, <3>1, TurnAfterStep
  <2> QED
    BY <1>1, <2>3 DEF Promise!Next, Promise!Abandon
<1> QED
  BY <1>2, <1>3

\* A customer whose cooldown is over begins a turn.
LEMMA ReadBegins ==
  ASSUME IInv, NEW r \in Reqs, ReadCooldown(r)
  PROVE  [Promise!Next]_(Promise!vars)
<1>1. CASE Throw(r)
  BY <1>1, ThrowAbandons
<1>2. CASE ~Throw(r)
  <2>1. /\ req[r] \in ReqRow /\ SpinOK(r) /\ req[r].pc = "locked"
    BY DEF IInv, TypeOK, RequestsOK, ReadCooldown
  <2>2. PICK u \in Users : u = req[r].user
    BY <2>1 DEF SpinOK
  <2>3. /\ ~(NextEligible(u, CooldownInForce) > now)
        /\ req' = [req EXCEPT ![r].pc = "draw", ![r].wait = CooldownInForce,
                              ![r].made = cooldown = None]
        /\ Local
    BY <1>2, <2>2 DEF ReadCooldown, User, CooldownInForce
  <2>4. /\ req'[r].pc = "draw" /\ req'[r].wait = CooldownInForce
        /\ req'[r].user = u
        /\ \A q \in Reqs \ {r} : req'[q] = req[q]
    BY <2>1, <2>2, <2>3 DEF IInv, TypeOK, ReqRow
  <2>5. UNCHANGED <<now, users, CooldownInForce, Wheel, Taken, postings>>
    BY <2>3, ViewStays DEF Local
  <2>6. Begun[u] = {} /\ Drawn[u] = {}
    BY <2>1, <2>2, TurnOfRequest DEF WaitOf, TurnOf
  <2>7. /\ Begun' = [Begun EXCEPT ![u] = {CooldownInForce}]
        /\ Drawn' = [Drawn EXCEPT ![u] = {}]
    BY <2>1, <2>2, <2>4, TurnAfterStep DEF WaitOf, TurnOf
  <2>8. Drawn' = Drawn
    BY <2>6, <2>7 DEF Drawn
  <2>9. Promise!Rested(u, CooldownInForce)
    <3>1. spins[u] \in Seq(Spin) /\ now \in Nat
      BY DEF IInv, TypeOK
    <3>2. Len(Taken[u]) = Len(spins[u]) /\ (Taken[u] # <<>> => spins[u] # <<>>)
      BY <3>1 DEF Taken
    <3>3. CASE spins[u] # <<>>
      <4>1. /\ Len(spins[u]) \in DOMAIN spins[u]
            /\ spins[u][Len(spins[u])] \in Spin
        BY <3>1, <3>3
      <4>2. Taken[u][Len(spins[u])].at = spins[u][Len(spins[u])].at
        BY <4>1 DEF Taken
      <4>3. CooldownInForce \in Nat
        BY WheelAssumption DEF IInv, TypeOK, CooldownInForce
      <4>4. spins[u][Len(spins[u])].at + CooldownInForce <= now
        BY <2>3, <3>1, <3>3, <4>1, <4>3 DEF NextEligible, Spin
      <4> QED
        BY <3>2, <4>2, <4>4 DEF Promise!Rested
    <3> QED
      BY <3>2, <3>3 DEF Promise!Rested
  <2> QED
    BY <2>5, <2>6, <2>7, <2>8, <2>9 DEF Promise!Next, Promise!Begin
<1> QED
  BY <1>1, <1>2

\* The draw of a turn is of something on the wheel.
LEMMA DrawDraws ==
  ASSUME IInv, NEW r \in Reqs, Draw(r)
  PROVE  [Promise!Next]_(Promise!vars)
<1>1. CASE Throw(r)
  BY <1>1, ThrowAbandons
<1>2. CASE ~Throw(r)
  <2>1. /\ req[r] \in ReqRow /\ SpinOK(r) /\ req[r].pc = "draw"
    BY DEF IInv, TypeOK, RequestsOK, Draw
  <2>2. PICK u \in Users : u = req[r].user
    BY <2>1 DEF SpinOK
  <2>3. PICK p \in Drawable :
          req' = [req EXCEPT ![r].pc = "commit", ![r].prize = p,
                             ![r].drawn = prizes[p], ![r].at = now]
    BY <1>2 DEF Draw
  <2>4. /\ req'[r].pc = "commit" /\ req'[r].wait = req[r].wait
        /\ req'[r].user = u /\ req'[r].at = now
        /\ req'[r].drawn = prizes[p]
        /\ \A q \in Reqs \ {r} : req'[q] = req[q]
    BY <2>1, <2>2, <2>3 DEF IInv, TypeOK, ReqRow
  <2>5. UNCHANGED <<now, users, CooldownInForce, Wheel, Taken, postings>>
    BY <1>2, ViewStays DEF Draw, Local
  <2>6. Posting(prizes[p]) \in Wheel
    BY DEF Drawable, Offered, Active, Wheel
  <2>7. Begun[u] = {req[r].wait}
    BY <2>1, <2>2, TurnOfRequest DEF WaitOf
  <2>8. /\ Begun' = [Begun EXCEPT ![u] = {}]
        /\ Drawn' = [Drawn EXCEPT ![u] =
                       {[at |-> now, wait |-> req[r].wait,
                         reward |-> Posting(prizes[p])]}]
    BY <2>1, <2>2, <2>4, TurnAfterStep DEF WaitOf, TurnOf
  <2>9. Promise!Draw(u)
    BY <2>5, <2>6, <2>7, <2>8 DEF Promise!Draw
  <2> QED
    BY <2>9 DEF Promise!Next
<1> QED
  BY <1>1, <1>2

\* The commit takes the turn: it is recorded and paid.
LEMMA CommitTakes ==
  ASSUME IInv, IInv', MadeOK, NEW r \in Reqs, CommitSpin(r)
  PROVE  [Promise!Next]_(Promise!vars)
<1>1. CASE Throw(r)
  BY <1>1, ThrowAbandons
<1>2. CASE ~Throw(r)
  <2>1. /\ req[r] \in ReqRow /\ SpinOK(r) /\ req[r].pc = "commit"
    BY DEF IInv, TypeOK, RequestsOK, CommitSpin
  <2>2. PICK u \in Users : u = req[r].user
    BY <2>1 DEF SpinOK
  <2> DEFINE paid == Posting(req[r].drawn)
             spin == [at |-> req[r].at, prize |-> req[r].prize,
                      reward |-> paid, wait |-> req[r].wait]
             turn == [at |-> req[r].at, wait |-> req[r].wait, reward |-> paid]
  <2>3. /\ u \in users /\ Payable(req[r].drawn)
        /\ spins' = [spins EXCEPT ![u] = Append(@, spin)]
        /\ postings' = [postings EXCEPT ![u] = Append(@, paid)]
        /\ cooldown' = IF req[r].made THEN req[r].wait ELSE cooldown
        /\ End(r)
        /\ UNCHANGED <<now, users, prizes, fresh, distorted>>
    BY <1>2, <2>2 DEF CommitSpin, Recorded, User
  <2>4. req'[r] = Idle /\ \A q \in Reqs \ {r} : req'[q] = req[q]
    BY <2>3, EndEffect
  <2>5. Promise!Payable(paid)
    BY <2>3 DEF Payable, Posting, Promise!Payable
  <2>6. /\ Begun[u] = {} /\ Drawn[u] = {turn}
    BY <2>1, <2>2, TurnOfRequest DEF WaitOf, TurnOf
  <2>7. /\ Begun' = [Begun EXCEPT ![u] = {}]
        /\ Drawn' = [Drawn EXCEPT ![u] = {}]
    <3>1. req'[r].pc = "idle"
      BY <2>4 DEF Idle
    <3>2. WaitOf(req'[r]) = {} /\ TurnOf(req'[r]) = {}
      BY <3>1 DEF WaitOf, TurnOf
    <3> QED
      BY <2>1, <2>2, <2>4, <3>1, <3>2, TurnAfterStep
  <2>8. Begun' = Begun
    BY <2>6, <2>7 DEF Begun
  <2>9. CooldownInForce' = CooldownInForce /\ Wheel' = Wheel
    <3>1. CASE req[r].made
      <4>1. cooldown = None /\ cooldown' = DefaultCooldown
        BY <2>3, <3>1 DEF MadeOK
      <4>2. None # DefaultCooldown
        BY WheelAssumption
      <4> QED
        BY <2>3, <4>1, <4>2 DEF CooldownInForce, Wheel
    <3>2. CASE ~req[r].made
      BY <2>3, <3>2 DEF CooldownInForce, Wheel
    <3> QED
      BY <3>1, <3>2
  <2>10. Taken' = [Taken EXCEPT ![u] = Append(@, turn)]
    <3> HIDE DEF paid
    <3>1. /\ spin.at = turn.at /\ spin.wait = turn.wait
          /\ spin.reward = turn.reward
      OBVIOUS
    <3> DEFINE n == Len(spins[u])
    <3>2. /\ spins[u] \in Seq(Spin) /\ spins'[u] = Append(spins[u], spin)
          /\ \A v \in Users \ {u} : spins'[v] = spins[v]
      BY <2>3 DEF IInv, TypeOK
    <3>3. /\ n \in Nat /\ DOMAIN spins[u] = 1 .. n
          /\ DOMAIN spins'[u] = 1 .. n + 1
          /\ spins'[u][n + 1] = spin
          /\ \A i \in 1 .. n : spins'[u][i] = spins[u][i]
      BY <3>2
    <3> HIDE DEF spin, turn, n
    <3>4. Taken'[u] = Append(Taken[u], turn)
      <4> DEFINE View(x) == [at |-> x.at, wait |-> x.wait, reward |-> x.reward]
      <4>1. /\ Taken[u] = [i \in 1 .. n |-> View(spins[u][i])]
            /\ Taken'[u] = [i \in 1 .. n + 1 |-> View(spins'[u][i])]
        BY <3>3 DEF Taken
      <4>2. View(spin) = turn
        BY DEF spin, turn
      <4> HIDE DEF View
      <4>3. /\ Taken'[u] = [i \in 1 .. n + 1 |-> Taken'[u][i]]
            /\ \A i \in 1 .. n : Taken'[u][i] = Taken[u][i]
            /\ Taken'[u][n + 1] = turn
        BY <3>3, <4>1, <4>2
      <4>4. Len(Taken[u]) = n
        BY <3>3, <4>1
      <4> QED
        BY <3>3, <4>1, <4>3, <4>4
    <3>5. \A v \in Users \ {u} : Taken'[v] = Taken[v]
      BY <3>2 DEF Taken
    <3>6. /\ Taken = [v \in Users |-> Taken[v]]
          /\ Taken' = [v \in Users |-> Taken'[v]]
      BY DEF Taken
    <3>7. Taken' = [v \in Users |-> IF v = u THEN Append(Taken[u], turn)
                                             ELSE Taken[v]]
      BY <3>4, <3>5, <3>6
    <3> QED
      BY <3>6, <3>7
  <2>11. turn.reward = paid
    OBVIOUS
  <2> HIDE DEF turn, paid, spin
  <2>12. Promise!Take(u)
    BY <2>3, <2>5, <2>6, <2>7, <2>8, <2>9, <2>10, <2>11 DEF Promise!Take
  <2> QED
    BY <2>12 DEF Promise!Next
<1> QED
  BY <1>1, <1>2

\* A save changes the wheel and the cooldown, and no turn.
LEMMA ApplyConfigures ==
  ASSUME IInv, IInv', NEW r \in Reqs, ApplyConfig(r)
  PROVE  [Promise!Next]_(Promise!vars)
<1>1. CASE Throw(r)
  BY <1>1, ThrowAbandons
<1>2. CASE ~Throw(r)
  <2>1. /\ req[r] \in ReqRow /\ SaveOK(r) /\ req[r].pc = "apply"
        /\ req[r].config # None
    BY DEF IInv, TypeOK, RequestsOK, ApplyConfig, SaveOK
  <2>2. /\ spins' = SpinsWithout(req[r].drop)
        /\ cooldown' = req[r].config.cooldown
        /\ End(r)
        /\ UNCHANGED <<now, users, postings, fresh, distorted>>
    BY <1>2 DEF ApplyConfig
  <2>3. req'[r].pc = "idle" /\ \A q \in Reqs \ {r} : req'[q] = req[q]
    BY <2>2, EndEffect DEF Idle
  <2>4. Begun' = Begun /\ Drawn' = Drawn
    BY <2>1, <2>3, TurnsStay
  <2>5. CooldownInForce' \in Nat
    BY WheelAssumption DEF IInv, TypeOK, CooldownInForce
  <2>6. Wheel' \subseteq Promise!Reward
    BY DEF IInv, TypeOK, Wheel, Posting, Prize, Promise!Reward
  <2>7. Taken' = Taken
    <3>1. ASSUME NEW u \in Users
          PROVE  /\ DOMAIN spins'[u] = DOMAIN spins[u]
                 /\ \A i \in DOMAIN spins[u] :
                      /\ spins'[u][i].at = spins[u][i].at
                      /\ spins'[u][i].wait = spins[u][i].wait
                      /\ spins'[u][i].reward = spins[u][i].reward
      <4>1. spins'[u] = [i \in DOMAIN spins[u] |->
              [spins[u][i] EXCEPT !.prize = IF @ \in req[r].drop
                                            THEN None ELSE @]]
        BY <2>2 DEF SpinsWithout
      <4>2. \A i \in DOMAIN spins[u] : spins[u][i] \in Spin
        <5>1. spins[u] \in Seq(Spin)
          BY DEF IInv, TypeOK
        <5> QED
          BY <5>1
      <4> QED
        BY <4>1, <4>2 DEF Spin
    <3> QED
      BY <3>1 DEF Taken
  <2>8. Promise!Configure
    BY <2>2, <2>4, <2>5, <2>6, <2>7 DEF Promise!Configure
  <2> QED
    BY <2>8 DEF Promise!Next
<1> QED
  BY <1>1, <1>2

\* What no turn sees: requests that arrive, wait or read ids.
LEMMA UnseenSteps ==
  ASSUME IInv, NEW r \in Reqs,
         \/ \E u \in Users : StartSpin(r, u)
         \/ \E config \in Configs : StartSave(r, config)
         \/ Acquire(r) \/ ReadIds(r)
  PROVE  [Promise!Next]_(Promise!vars)
<1>1. req \in [Reqs -> ReqRow] /\ UNCHANGED <<now, tables>>
  BY DEF IInv, TypeOK, StartSpin, StartSave, Acquire, ReadIds, Local
<1>2. /\ req[r].pc \notin {"draw", "commit"}
      /\ req'[r].pc \notin {"draw", "commit"}
      /\ \A q \in Reqs \ {r} : req'[q] = req[q]
  <2>1. CASE \E u \in Users : StartSpin(r, u)
    BY <2>1, <1>1 DEF StartSpin, ReqRow
  <2>2. CASE \E config \in Configs : StartSave(r, config)
    <3>1. PICK config \in Configs : StartSave(r, config)
      BY <2>2
    <3> DEFINE new == [req[r] EXCEPT !.pc = "ids", !.config = config,
                                     !.new = Named(config) \cap fresh]
    <3>2. req[r].pc = "idle" /\ req' = [req EXCEPT ![r] = new]
      BY <1>1, <3>1 DEF StartSave
    <3>3. new.pc = "ids"
      BY <1>1 DEF ReqRow
    <3> HIDE DEF new
    <3> QED
      BY <1>1, <3>2, <3>3
  <2>3. CASE Acquire(r) \/ ReadIds(r)
    BY <2>3, <1>1 DEF Acquire, ReadIds, ReqRow
  <2> QED
    BY <2>1, <2>2, <2>3
<1>3. Begun' = Begun /\ Drawn' = Drawn
  BY <1>2, TurnsStay
<1> QED
  BY <1>1, <1>3, ViewStays DEF Promise!vars

\* What happens around the requests.
LEMMA AroundTurns ==
  ASSUME IInv, EnsureSettings \/ Tick \/ \E u \in Users : DeleteUser(u)
  PROVE  [Promise!Next]_(Promise!vars)
<1>1. Begun' = Begun /\ Drawn' = Drawn
  BY DEF EnsureSettings, Tick, DeleteUser, Begun, Drawn, SpinsAt
<1>2. CASE EnsureSettings
  <2>1. CooldownInForce' = CooldownInForce
    <3>1. cooldown = None /\ cooldown' = DefaultCooldown
      BY <1>2 DEF EnsureSettings
    <3>2. DefaultCooldown # None
      BY WheelAssumption
    <3> QED
      BY <3>1, <3>2 DEF CooldownInForce
  <2>2. UNCHANGED <<now, users, Wheel, Taken, postings>>
    BY <1>2 DEF EnsureSettings, Wheel, Taken
  <2> QED
    BY <1>1, <2>1, <2>2 DEF Promise!vars
<1>3. CASE Tick
  <2>1. UNCHANGED <<users, CooldownInForce, Wheel, Taken, postings>>
    BY <1>3 DEF Tick, tables, CooldownInForce, Wheel, Taken
  <2> QED
    BY <1>1, <1>3, <2>1 DEF Tick, Promise!Next, Promise!Tick
<1>4. ASSUME NEW u \in Users, DeleteUser(u)
      PROVE  [Promise!Next]_(Promise!vars)
  <2>1. UNCHANGED <<now, CooldownInForce, Wheel, Taken, postings>>
    BY <1>4 DEF DeleteUser, CooldownInForce, Wheel, Taken
  <2>2. Taken[u] = <<>>
    BY <1>4 DEF DeleteUser, Taken
  <2>3. u \in users /\ users' = users \ {u}
    BY <1>4 DEF DeleteUser
  <2>4. Promise!Close(u)
    BY <1>1, <2>1, <2>2, <2>3 DEF Promise!Close
  <2> QED
    BY <2>4 DEF Promise!Next
<1> QED
  BY <1>2, <1>3, <1>4

\* Every step is a step of a turn or changes nothing a customer sees.
LEMMA StepKeepsPromise ==
  IInv /\ IInv' /\ MadeOK /\ [Next]_vars => [Promise!Next]_(Promise!vars)
<1> SUFFICES ASSUME IInv, IInv', MadeOK, [Next]_vars
             PROVE  [Promise!Next]_(Promise!vars)
  OBVIOUS
<1>1. ASSUME NEW r \in Reqs,
             \/ \E u \in Users : StartSpin(r, u)
             \/ \E config \in Configs : StartSave(r, config)
             \/ Waiting(r) \/ Step(r) \/ Fail(r)
      PROVE  [Promise!Next]_(Promise!vars)
  BY <1>1, UnseenSteps, ReadBegins, ApplyConfigures, DrawDraws, CommitTakes,
     ThrowAbandons DEF Waiting, Step, Fail
<1>2. CASE EnsureSettings \/ Tick \/ \E u \in Users : DeleteUser(u)
  BY <1>2, AroundTurns
<1>3. CASE UNCHANGED vars
  <2>1. Begun' = Begun /\ Drawn' = Drawn
    <3>1. req' = req
      BY <1>3 DEF vars
    <3>2. \A u, pc : SpinsAt(u, pc)' = SpinsAt(u, pc)
      BY <3>1 DEF SpinsAt
    <3> QED
      BY <3>1, <3>2 DEF Begun, Drawn
  <2>2. UNCHANGED <<now, users, CooldownInForce, Wheel, Taken, postings>>
    BY <1>3, ViewStays DEF vars, tables
  <2> QED
    BY <2>1, <2>2 DEF Promise!vars
<1> QED
  BY <1>1, <1>2, <1>3 DEF Next

\* spin, saveConfig and the posting of what was won implement SpinTurns, for
\* any number of requests: their locks, their reads before the lock and the
\* order of their statements cannot be told from turns taken one at a time.
THEOREM TurnsPromised == Spec => ImplementsTurns
<1>1. Init => Promise!Init /\ MadeOK
  <2> SUFFICES ASSUME Init PROVE Promise!Init /\ MadeOK
    OBVIOUS
  <2>1. MadeOK
    BY DEF Init, Idle, MadeOK
  <2>2. TypeOK
    BY InitInvariant DEF IInv
  <2>3. CooldownInForce \in Nat
    BY <2>2, WheelAssumption DEF TypeOK, CooldownInForce
  <2>4. Wheel \subseteq Promise!Reward
    BY <2>2 DEF TypeOK, Wheel, Posting, Prize, Promise!Reward
  <2>5. /\ Begun = [u \in Users |-> {}]
        /\ Drawn = [u \in Users |-> {}]
    <3>1. \A u \in Users, pc \in {"draw", "commit"} : SpinsAt(u, pc) = {}
      BY DEF Init, Idle, SpinsAt
    <3> QED
      BY <3>1 DEF Begun, Drawn
  <2>6. Taken = [u \in Users |-> <<>>]
    BY DEF Init, Taken
  <2> QED
    BY <2>1, <2>3, <2>4, <2>5, <2>6 DEF Init, Promise!Init
<1>2. IInv /\ MadeOK /\ [Next]_vars => MadeOK'
  BY MadeInvariant
<1>3. IInv /\ IInv' /\ MadeOK /\ [Next]_vars => [Promise!Next]_(Promise!vars)
  BY StepKeepsPromise
<1> QED
  BY <1>1, <1>2, <1>3, SpinWheelInvariant, PTL DEF Spec, ImplementsTurns,
     Promise!Spec
=============================================================================
