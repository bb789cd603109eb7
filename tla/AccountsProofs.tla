--------------------------- MODULE AccountsProofs ---------------------------
(***************************************************************************)
(* Proofs about Accounts, for any number of accounts, phones, roles,       *)
(* stores and requests.                                                    *)
(*                                                                         *)
(* What a request found at one statement and relies on at a later one must *)
(* still hold there, although the account may have been changed, deleted   *)
(* or reached by other requests in between: RequestOK says what that is,   *)
(* PairsOK how two requests about one account exclude each other, DobOK    *)
(* how many confirmations of a date of birth may still be written.         *)
(***************************************************************************)
EXTENDS Accounts, FiniteSetTheorems, TLAPS

\* What request r relies on, if its account is still there.
RequestOK(r) ==
  LET u == req[r].id
  IN  /\ req[r].pc \in {"bonus", "mark", "assign", "assigned", "confirm",
                        "swear"} => u \in Users
      /\ req[r].pc \in {"register", "create", "verify"} =>
           req[r].phone \in Phones
      /\ Exists(u) =>
           /\ At(r, "bonus") => bonus[u] = 0 /\ due[u] = 1
           /\ At(r, "mark") => u \in proven
           /\ At(r, "assigned") => user[u].role = Cashier \/ u \in demoted

RequestsOK == \A r \in Reqs : RequestOK(r)

\* Two requests are never about to post the bonus of one account.
PairsOK ==
  \A r, q \in Reqs :
     r # q /\ req[r].id = req[q].id => ~(At(r, "bonus") /\ At(q, "bonus"))

\* Requests about to write the date of birth of an account.
Swearing(u) == {r \in Reqs : At(r, "swear") /\ req[r].id = u}

\* A date is not confirmed until a user or an administrator does it, and once
\* it is, no request joins those that are about to.
DobOK(u) ==
  /\ user[u].dobOk => /\ user[u].dob # "registration"
                      /\ sworn[u] + Cardinality(Swearing(u)) <= Cardinality(Reqs)
  /\ ~user[u].dobOk => sworn[u] = 0

DobsOK == \A u \in Users : Exists(u) => DobOK(u)

\* Nothing is remembered of an account that is gone.
Forgotten == \A u \in Users : ~Exists(u) => due[u] = 0 /\ sworn[u] = 0

\* The inductive invariant.
IInv ==
  /\ TypeOK
  /\ RequestsOK
  /\ PairsOK
  /\ Forgotten
  /\ SignupBonusOnce
  /\ VerifiedPhoneProven
  /\ DobsOK
  /\ OnlyCashiersHaveStores

-----------------------------------------------------------------------------
(* Requests that start, break off or move on. *)

\* A slot with no request has its type.
LEMMA IdleType == Idle \in ReqRow
  BY DEF Idle, ReqRow

\* The invariant holds at the start.
LEMMA InitInvariant == Init => IInv
<1> SUFFICES ASSUME Init PROVE IInv
  OBVIOUS
<1> USE AccountsAssumption, IdleType DEF Init, Exists
<1>1. TypeOK
  BY DEF TypeOK
<1>2. RequestsOK /\ PairsOK
  BY DEF RequestsOK, RequestOK, PairsOK, At, Idle
<1>3. Forgotten /\ SignupBonusOnce /\ VerifiedPhoneProven
  BY DEF Forgotten, SignupBonusOnce, VerifiedPhoneProven, LoggedIn
<1>4. DobsOK /\ OnlyCashiersHaveStores
  BY DEF DobsOK, OnlyCashiersHaveStores
<1> QED
  BY <1>1, <1>2, <1>3, <1>4 DEF IInv

\* Nothing is confirmed, and no request comes to be about to.
LEMMA DobsKept ==
  ASSUME IInv,
         \A v \in Users :
           Exists(v)' => /\ Exists(v)
                         /\ user'[v].dobOk = user[v].dobOk
                         /\ user'[v].dob \in {user[v].dob, "admin"}
                         /\ sworn'[v] = sworn[v],
         \A q \in Reqs : req'[q].pc = "swear" => req'[q] = req[q]
  PROVE  DobsOK'
<1> SUFFICES ASSUME NEW v \in Users, Exists(v)' PROVE DobOK(v)'
  BY DEF DobsOK
<1>1. DobOK(v)
  BY DEF IInv, DobsOK
<1>2. Swearing(v)' \subseteq Swearing(v) /\ IsFiniteSet(Swearing(v))
  BY AccountsAssumption, FS_Subset DEF Swearing, At
<1>3. /\ Cardinality(Swearing(v)') <= Cardinality(Swearing(v))
      /\ Cardinality(Swearing(v)') \in Nat /\ Cardinality(Swearing(v)) \in Nat
  BY <1>2, FS_Subset, FS_CardinalityType
<1>4. sworn[v] \in Nat /\ Cardinality(Reqs) \in Nat
  BY AccountsAssumption, FS_CardinalityType DEF IInv, TypeOK
<1>5. CASE user[v].dobOk
  <2>1. /\ user'[v].dobOk /\ user'[v].dob # "registration"
        /\ sworn'[v] = sworn[v]
        /\ sworn[v] + Cardinality(Swearing(v)) <= Cardinality(Reqs)
    BY <1>1, <1>5 DEF DobOK
  <2>2. sworn'[v] + Cardinality(Swearing(v)') <= Cardinality(Reqs)
    BY <2>1, <1>3, <1>4
  <2> QED
    BY <2>1, <2>2 DEF DobOK
<1>6. CASE ~user[v].dobOk
  BY <1>1, <1>6 DEF DobOK
<1> QED
  BY <1>5, <1>6

\* A request that breaks off takes its bonus with it, and nothing else.
LEMMA ThrowStep ==
  ASSUME IInv, NEW r \in Reqs, Throw(r)
  PROVE  IInv'
<1> USE AccountsAssumption, IdleType
    DEF IInv, Throw, Done, rows, Exists, At
<1>1. /\ req' \in [Reqs -> ReqRow] /\ req'[r] = Idle
      /\ \A q \in Reqs \ {r} : req'[q] = req[q]
  BY DEF TypeOK
<1>2. At(r, "bonus") => req[r].id \in Users
  BY DEF RequestsOK, RequestOK
<1>3. /\ due' \in [Users -> {0, 1}]
      /\ \A u \in Users :
           \/ due'[u] = due[u]
           \/ At(r, "bonus") /\ u = req[r].id /\ due'[u] = 0
  BY <1>2 DEF TypeOK
<1>4. TypeOK'
  BY <1>1, <1>3 DEF TypeOK
<1>5. \A q \in Reqs \ {r} :
        At(q, "bonus") =>
          req[q].id \in Users /\ due'[req[q].id] = due[req[q].id]
  BY <1>3 DEF RequestsOK, RequestOK, PairsOK
<1>6. RequestsOK'
  BY <1>1, <1>5 DEF RequestsOK, RequestOK, Idle
<1>7. PairsOK'
  BY <1>1 DEF PairsOK, Idle
<1>8. Forgotten'
  BY <1>3 DEF Forgotten
<1>9. SignupBonusOnce'
  <2> SUFFICES ASSUME NEW u \in Users, Exists(u)
               PROVE  \/ bonus[u] = due'[u]
                      \/ /\ bonus[u] = 0
                         /\ \E q \in Reqs :
                              req'[q].pc = "bonus" /\ req'[q].id = u
    BY DEF SignupBonusOnce
  <2>1. CASE At(r, "bonus") /\ u = req[r].id
    BY <2>1, <1>2 DEF RequestsOK, RequestOK, TypeOK
  <2>2. CASE ~(At(r, "bonus") /\ u = req[r].id)
    BY <2>2, <1>1, <1>3 DEF SignupBonusOnce
  <2> QED
    BY <2>1, <2>2
<1>10. VerifiedPhoneProven' /\ OnlyCashiersHaveStores'
  BY DEF VerifiedPhoneProven, OnlyCashiersHaveStores, LoggedIn
<1>11. DobsOK'
  BY <1>1, DobsKept DEF Idle
<1> QED
  BY <1>4, <1>6, <1>7, <1>8, <1>9, <1>10, <1>11

\* A request that only moves on keeps the invariant, if it may rely on what
\* it relies on then, and if it does not become due to pay or to write.
LEMMA LocalStep ==
  ASSUME IInv, NEW r \in Reqs, NEW row \in ReqRow,
         req' = [req EXCEPT ![r] = row], Reading,
         RequestOK(r)', row.pc \notin {"bonus", "swear"}, ~At(r, "bonus")
  PROVE  IInv'
<1> USE AccountsAssumption DEF IInv, Reading, rows, history, Exists, At
<1>1. /\ req' \in [Reqs -> ReqRow] /\ req'[r] = row
      /\ \A q \in Reqs \ {r} : req'[q] = req[q]
  BY DEF TypeOK
<1>2. TypeOK'
  BY <1>1 DEF TypeOK
<1>3. RequestsOK'
  BY <1>1 DEF RequestsOK, RequestOK
<1>4. PairsOK'
  BY <1>1 DEF PairsOK
<1>5. Forgotten' /\ VerifiedPhoneProven' /\ OnlyCashiersHaveStores'
  BY DEF Forgotten, VerifiedPhoneProven, OnlyCashiersHaveStores, LoggedIn
<1>6. SignupBonusOnce'
  BY <1>1 DEF SignupBonusOnce
<1>7. DobsOK'
  <2>1. \A q \in Reqs : req'[q].pc = "swear" => req'[q] = req[q]
    BY <1>1
  <2> QED
    BY <2>1, DobsKept
<1> QED
  BY <1>2, <1>3, <1>4, <1>5, <1>6, <1>7

\* Requests that arrive rely on nothing yet.
LEMMA ArriveStep ==
  ASSUME IInv, NEW r \in Reqs, NEW id \in Users \cup {None},
         NEW phone \in Phones \cup {None},
         \/ \E pc \in {"register", "verify"} :
              phone \in Phones /\ Arrive(r, pc, id, phone)
         \/ \E pc \in {"assign", "confirm"} :
              id \in Users /\ Arrive(r, pc, id, phone)
  PROVE  IInv'
<1>1. PICK pc \in {"register", "verify", "assign", "confirm"} :
        /\ Arrive(r, pc, id, phone)
        /\ IF pc \in {"register", "verify"} THEN phone \in Phones
                                            ELSE id \in Users
  OBVIOUS
<1> DEFINE row == [pc |-> pc, id |-> id, phone |-> phone]
<1>2. row \in ReqRow /\ row.pc \notin {"bonus", "swear"}
  BY DEF ReqRow
<1>3. req' = [req EXCEPT ![r] = row] /\ Reading /\ ~At(r, "bonus")
  BY <1>1 DEF Arrive, At
<1>4. req'[r] = row
  BY <1>3 DEF IInv, TypeOK
<1>5. RequestOK(r)'
  BY <1>1, <1>4 DEF RequestOK, At
<1> QED
  BY <1>2, <1>3, <1>5, LocalStep

\* A lookup that succeeds keeps what the request knows.
LEMMA CheckStep ==
  ASSUME IInv, NEW r \in Reqs, FindPhone(r) \/ FindCashier(r)
  PROVE  IInv'
<1> USE DEF At
<1>r. req[r] \in ReqRow /\ RequestOK(r)
  BY DEF IInv, TypeOK, RequestsOK
<1>1. CASE Throw(r)
  BY <1>1, ThrowStep
<1>2. CASE FindPhone(r) /\ ~Throw(r)
  <2> DEFINE row == [req[r] EXCEPT !.pc = "create"]
  <2>1. req' = [req EXCEPT ![r] = row] /\ Reading /\ At(r, "register")
    BY <1>2 DEF FindPhone, Check, Goto, IInv, TypeOK
  <2>2. row \in ReqRow /\ row.pc = "create" /\ row.phone = req[r].phone
    BY <1>r DEF ReqRow
  <2>3. req'[r] = row
    BY <2>1 DEF IInv, TypeOK
  <2>4. RequestOK(r)'
    BY <1>r, <2>1, <2>2, <2>3 DEF RequestOK
  <2> QED
    BY <2>1, <2>2, <2>4, LocalStep
<1>3. CASE FindCashier(r) /\ ~Throw(r)
  <2> DEFINE row == [req[r] EXCEPT !.pc = "assigned"]
  <2>1. /\ req' = [req EXCEPT ![r] = row] /\ Reading /\ At(r, "assign")
        /\ user[req[r].id].role = Cashier
    BY <1>3 DEF FindCashier, Check, Goto, IsCashier, IInv, TypeOK
  <2>2. row \in ReqRow /\ row.pc = "assigned" /\ row.id = req[r].id
    BY <1>r DEF ReqRow
  <2>3. req'[r] = row
    BY <2>1 DEF IInv, TypeOK
  <2>4. RequestOK(r)'
    BY <1>r, <2>1, <2>2, <2>3 DEF RequestOK, Reading, rows
  <2> QED
    BY <2>1, <2>2, <2>4, LocalStep
<1> QED
  BY <1>1, <1>2, <1>3

-----------------------------------------------------------------------------
(* Registration and verification. *)

\* Creating an account: no request refers to its id, and nothing is left of
\* a former one.
LEMMA CreateStep ==
  ASSUME IInv, NEW r \in Reqs, CreateAccount(r)
  PROVE  IInv'
<1> USE AccountsAssumption DEF IInv, Exists, At
<1>1. CASE Throw(r)
  BY <1>1, ThrowStep
<1>2. CASE ~Throw(r)
  <2>1. PICK u \in Users :
          /\ Unused(u)
          /\ user' = [user EXCEPT ![u] = Registered(r)]
          /\ due' = [due EXCEPT ![u] = 1]
          /\ req' = [req EXCEPT ![r].pc = "bonus", ![r].id = u]
    BY <1>2 DEF CreateAccount
  <2>2. /\ req[r].pc = "create" /\ ~Taken(req[r].phone)
        /\ UNCHANGED <<store, bonus, proven, sworn, demoted>>
    BY <1>2 DEF CreateAccount
  <2>3. req[r].phone \in Phones
    BY <2>2 DEF RequestsOK, RequestOK
  <2>4. /\ Registered(r) \in Account
        /\ Registered(r).phone = req[r].phone
        /\ Registered(r).verified = FALSE
        /\ Registered(r).dobOk = FALSE
    BY <2>3 DEF Registered, Account
  <2>5. /\ user' \in [Users -> Account \cup {None}]
        /\ user[u] = None /\ user'[u] = Registered(r)
        /\ \A v \in Users \ {u} : user'[v] = user[v]
    BY <2>1, <2>4 DEF Unused, TypeOK
  <2>6. /\ req' \in [Reqs -> ReqRow]
        /\ req'[r].pc = "bonus" /\ req'[r].id = u
        /\ \A q \in Reqs \ {r} : req'[q] = req[q]
    <3> DEFINE row == [req[r] EXCEPT !.pc = "bonus", !.id = u]
    <3>1. row \in ReqRow /\ row.pc = "bonus" /\ row.id = u
      <4>1. req[r] \in ReqRow
        BY DEF TypeOK
      <4> HIDE DEF IInv
      <4> QED
        BY <4>1 DEF ReqRow
    <3>2. req' = [req EXCEPT ![r] = row]
      BY <2>1 DEF TypeOK
    <3> HIDE DEF row
    <3> QED
      BY <3>1, <3>2 DEF TypeOK
  <2>7. /\ due' \in [Users -> {0, 1}] /\ due'[u] = 1
        /\ \A v \in Users \ {u} : due'[v] = due[v]
    BY <2>1 DEF TypeOK
  <2>8. bonus[u] = 0 /\ sworn[u] = 0 /\ store[u] = None
    BY <2>5 DEF TypeOK, Forgotten
  <2>9. \A q \in Reqs : req[q].id # u
    BY <2>1 DEF Unused
  <2> HIDE DEF IInv
  <2>10. TypeOK'
    <3>1. \A v \in Users \ {u} : Exists(v) => user[v].phone # req[r].phone
      BY <2>2 DEF Taken
    <3>2. ASSUME NEW v \in Users, NEW w \in Users, Exists(v)', Exists(w)',
                 user'[v].phone = user'[w].phone
          PROVE  v = w
      <4>1. CASE v = u \/ w = u
        BY <3>1, <3>2, <4>1, <2>4, <2>5
      <4>2. CASE v # u /\ w # u
        BY <3>2, <4>2, <2>5 DEF TypeOK, IInv
      <4> QED
        BY <4>1, <4>2
    <3>3. \A v \in Users : ~Exists(v)' => store'[v] = None /\ bonus'[v] = 0
      BY <2>2, <2>5, <2>8 DEF TypeOK, IInv
    <3> QED
      BY <3>2, <3>3, <2>2, <2>5, <2>6, <2>7 DEF TypeOK, IInv
  <2>11. RequestsOK'
    <3>1. RequestOK(r)'
      BY <2>2, <2>6, <2>7, <2>8 DEF RequestOK
    <3>2. ASSUME NEW q \in Reqs \ {r}
          PROVE  RequestOK(q)'
      <4>1. RequestOK(q) /\ req'[q] = req[q] /\ req[q].id # u
        BY <2>6, <2>9 DEF RequestsOK, IInv
      <4>2. req[q].id \in Users \cup {None}
        BY DEF TypeOK, ReqRow, IInv
      <4> QED
        BY <4>1, <4>2, <2>2, <2>5, <2>7 DEF RequestOK
    <3> QED
      BY <3>1, <3>2 DEF RequestsOK
  <2>12. PairsOK'
    <3>1. \A q \in Reqs \ {r} :
            req'[q].id # u /\ req[q].id \in Users \cup {None}
      BY <2>6, <2>9 DEF TypeOK, ReqRow, IInv
    <3> QED
      BY <3>1, <2>2, <2>5, <2>6 DEF PairsOK, IInv
  <2>13. Forgotten'
    BY <2>2, <2>4, <2>5, <2>7 DEF Forgotten, IInv
  <2>14. SignupBonusOnce'
    BY <2>2, <2>5, <2>6, <2>7, <2>8 DEF SignupBonusOnce, IInv
  <2>15. VerifiedPhoneProven'
    BY <2>2, <2>4, <2>5 DEF VerifiedPhoneProven, LoggedIn, IInv
  <2>16. DobsOK'
    <3>1. \A v \in Users : Swearing(v)' = Swearing(v)
      BY <2>2, <2>6 DEF Swearing
    <3>2. ASSUME NEW v \in Users, Exists(v)'
          PROVE  DobOK(v)'
      <4>1. CASE v = u
        BY <4>1, <2>2, <2>4, <2>5, <2>8 DEF DobOK
      <4>2. CASE v # u
        <5>1. DobOK(v) /\ user'[v] = user[v] /\ sworn' = sworn
          BY <3>2, <4>2, <2>2, <2>5 DEF DobsOK, IInv
        <5> QED
          BY <5>1, <3>1 DEF DobOK
      <4> QED
        BY <4>1, <4>2
    <3> QED
      BY <3>2 DEF DobsOK
  <2>17. OnlyCashiersHaveStores'
    BY <2>2, <2>5, <2>8 DEF OnlyCashiersHaveStores, IInv
  <2> QED
    BY <2>10, <2>11, <2>12, <2>13, <2>14, <2>15, <2>16, <2>17 DEF IInv
<1> QED
  BY <1>1, <1>2

\* An account made by an administrator: verified, confirmed, and no bonus.
LEMMA AdminCreateStep ==
  ASSUME IInv, NEW p \in Phones, NEW role \in Roles,
         CreateUserByAdmin(p, role)
  PROVE  IInv'
<1> USE AccountsAssumption DEF Exists, At
<1>1. PICK u \in Users :
        /\ Unused(u)
        /\ user' = [user EXCEPT ![u] = Vouched(p, role)]
        /\ proven' = proven \cup {u}
  BY DEF CreateUserByAdmin
<1>2. ~Taken(p) /\ UNCHANGED <<store, bonus, req, due, sworn, demoted>>
  BY DEF CreateUserByAdmin
<1>3. /\ Vouched(p, role) \in Account
      /\ Vouched(p, role).phone = p
      /\ Vouched(p, role).dobOk = TRUE /\ Vouched(p, role).dob = "admin"
  BY DEF Vouched, Account
<1>4. /\ user' \in [Users -> Account \cup {None}]
      /\ user[u] = None /\ user'[u] = Vouched(p, role)
      /\ \A v \in Users \ {u} : user'[v] = user[v]
  BY <1>1, <1>3 DEF Unused, TypeOK, IInv
<1>5. sworn' \in [Users -> Nat] /\ sworn[u] = 0
  BY <1>2, <1>4 DEF TypeOK, Forgotten, IInv
<1>6. bonus[u] = 0 /\ due[u] = 0 /\ store[u] = None
  BY <1>4 DEF TypeOK, Forgotten, IInv
<1>7. \A q \in Reqs : req[q].id # u /\ req[q].id \in Users \cup {None}
  BY <1>1 DEF Unused, TypeOK, ReqRow, IInv
<1>8. TypeOK'
  <2>1. \A v \in Users \ {u} : Exists(v) => user[v].phone # p
    BY <1>2 DEF Taken
  <2>2. ASSUME NEW v \in Users, NEW w \in Users, Exists(v)', Exists(w)',
               user'[v].phone = user'[w].phone
        PROVE  v = w
    <3>1. CASE v = u \/ w = u
      <4>1. user'[u].phone = p
        BY <1>3, <1>4
      <4>2. \A x \in Users \ {u} : Exists(x)' => user'[x].phone # p
        BY <2>1, <1>4
      <4> QED
        BY <2>2, <3>1, <4>1, <4>2
    <3>2. CASE v # u /\ w # u
      BY <2>2, <3>2, <1>4 DEF TypeOK, IInv
    <3> QED
      BY <3>1, <3>2
  <2>3. \A v \in Users : ~Exists(v)' => store'[v] = None /\ bonus'[v] = 0
    BY <1>2, <1>4, <1>6 DEF TypeOK, IInv
  <2>4. proven' \cup demoted' \subseteq Users
    BY <1>1, <1>2 DEF TypeOK, IInv
  <2> QED
    BY <2>2, <2>3, <2>4, <1>2, <1>4, <1>5 DEF TypeOK, IInv
<1>9. RequestsOK'
  <2> SUFFICES ASSUME NEW q \in Reqs
               PROVE  RequestOK(q)'
    BY DEF RequestsOK
  <2>1. RequestOK(q) /\ req'[q] = req[q]
    BY <1>2 DEF RequestsOK, IInv
  <2> QED
    BY <2>1, <1>1, <1>2, <1>4, <1>7 DEF RequestOK
<1>10. PairsOK'
  BY <1>2, <1>4, <1>7 DEF PairsOK, IInv
<1>11. Forgotten'
  BY <1>2, <1>3, <1>4, <1>5 DEF Forgotten, IInv
<1>12. SignupBonusOnce'
  BY <1>2, <1>4, <1>6 DEF SignupBonusOnce, IInv
<1>13. VerifiedPhoneProven'
  BY <1>1, <1>4 DEF VerifiedPhoneProven, LoggedIn, IInv
<1>14. DobsOK'
  <2>1. \A v \in Users : Swearing(v)' = Swearing(v)
    BY <1>2 DEF Swearing
  <2>2. Swearing(u) = {} /\ Cardinality(Swearing(u)) = 0
    BY <1>7, FS_EmptySet DEF Swearing
  <2>3. Cardinality(Reqs) >= 0
    BY AccountsAssumption, FS_CardinalityType
  <2>4. ASSUME NEW v \in Users, Exists(v)'
        PROVE  DobOK(v)'
    <3>1. CASE v = u
      <4>1. /\ user'[v].dobOk = TRUE /\ user'[v].dob = "admin"
            /\ sworn'[v] = 0 /\ Cardinality(Swearing(v)') = 0
        BY <3>1, <2>1, <2>2, <1>2, <1>3, <1>4, <1>5
      <4> QED
        BY <4>1, <2>3 DEF DobOK
    <3>2. CASE v # u
      <4>1. DobOK(v) /\ user'[v] = user[v] /\ sworn' = sworn
        BY <2>4, <3>2, <1>2, <1>4 DEF DobsOK, IInv
      <4> QED
        BY <4>1, <2>1 DEF DobOK
    <3> QED
      BY <3>1, <3>2
  <2> QED
    BY <2>4 DEF DobsOK
<1>15. OnlyCashiersHaveStores'
  BY <1>2, <1>4, <1>6 DEF OnlyCashiersHaveStores, IInv
<1> QED
  BY <1>8, <1>9, <1>10, <1>11, <1>12, <1>13, <1>14, <1>15 DEF IInv

\* A request that is over frees its slot and touches no other.  The others
\* exclude each other as before.
LEMMA DoneStep ==
  ASSUME IInv, NEW r \in Reqs, Done(r)
  PROVE  /\ req' \in [Reqs -> ReqRow] /\ req'[r] = Idle
         /\ \A q \in Reqs \ {r} : req'[q] = req[q]
         /\ RequestOK(r)'
         /\ PairsOK'
         /\ \A q \in Reqs : req'[q].pc = "swear" => req'[q] = req[q]
<1>1. /\ req' \in [Reqs -> ReqRow] /\ req'[r] = Idle
      /\ \A q \in Reqs \ {r} : req'[q] = req[q]
  BY IdleType DEF IInv, TypeOK, Done
<1>2. RequestOK(r)'
  BY <1>1, AccountsAssumption DEF RequestOK, Idle, Exists, At
<1>3. PairsOK'
  BY <1>1 DEF PairsOK, IInv, Idle, At
<1>4. \A q \in Reqs : req'[q].pc = "swear" => req'[q] = req[q]
  BY <1>1 DEF Idle
<1> QED
  BY <1>1, <1>2, <1>3, <1>4

\* The bonus is posted for the first time.
LEMMA PostStep ==
  ASSUME IInv, NEW r \in Reqs, PostBonus(r)
  PROVE  IInv'
<1> USE DEF At
<1>1. CASE Throw(r)
  BY <1>1, ThrowStep
<1>2. CASE ~Throw(r)
  <2> DEFINE u == req[r].id
  <2>1. /\ req[r].pc = "bonus" /\ Exists(u) /\ Done(r)
        /\ bonus' = [bonus EXCEPT ![u] = @ + 1]
        /\ UNCHANGED <<user, store, history>>
    BY <1>2 DEF PostBonus
  <2>2. u \in Users /\ bonus[u] = 0 /\ due[u] = 1
    BY <2>1 DEF RequestsOK, RequestOK, IInv
  <2>3. /\ bonus' \in [Users -> Nat] /\ bonus'[u] = 1
        /\ \A v \in Users \ {u} : bonus'[v] = bonus[v]
    BY <2>1, <2>2 DEF TypeOK, IInv
  <2> HIDE DEF u
  <2>4. TypeOK'
    BY <2>1, <2>2, <2>3, DoneStep DEF TypeOK, IInv, Exists, history
  <2>5. RequestsOK'
    <3> SUFFICES ASSUME NEW q \in Reqs \ {r}
                 PROVE  RequestOK(q)'
      BY <2>1, DoneStep DEF RequestsOK
    <3>1. RequestOK(q) /\ req'[q] = req[q]
      BY <2>1, DoneStep DEF RequestsOK, IInv
    <3>2. req[q].pc = "bonus" => req[q].id \in Users /\ req[q].id # u
      BY <2>1, <3>1 DEF PairsOK, RequestOK, IInv, u
    <3> QED
      BY <3>1, <3>2, <2>1, <2>3 DEF RequestOK, Exists, history
  <2>6. PairsOK'
    BY <2>1, DoneStep DEF Exists, history
  <2>7. Forgotten' /\ VerifiedPhoneProven' /\ OnlyCashiersHaveStores'
    BY <2>1 DEF Forgotten, VerifiedPhoneProven, OnlyCashiersHaveStores,
                LoggedIn, IInv, Exists, history
  <2>9. DobsOK'
    BY <2>1, DoneStep, DobsKept DEF Exists, history
  <2>8. SignupBonusOnce'
    <3> SUFFICES ASSUME NEW v \in Users \ {u}, Exists(v)
                 PROVE  \/ bonus[v] = due[v]
                        \/ /\ bonus[v] = 0
                           /\ \E q \in Reqs :
                                req'[q].pc = "bonus" /\ req'[q].id = v
      BY <2>1, <2>2, <2>3 DEF SignupBonusOnce, Exists, history
    <3>1. \A q \in Reqs : req[q].id = v => req'[q] = req[q]
      BY <2>1, DoneStep DEF u
    <3> QED
      BY <3>1 DEF SignupBonusOnce, IInv
  <2> QED
    BY <2>4, <2>5, <2>6, <2>7, <2>8, <2>9 DEF IInv
<1> QED
  BY <1>1, <1>2

\* The account of the phone is proven, and the request remembers its id.
LEMMA ReadVerifiedStep ==
  ASSUME IInv, NEW r \in Reqs, ReadVerified(r)
  PROVE  IInv'
<1> USE AccountsAssumption DEF At, Exists, rows
<1>1. CASE Throw(r)
  BY <1>1, ThrowStep
<1>2. CASE ~Throw(r)
  <2>1. PICK u \in Users :
          /\ proven' = proven \cup {u}
          /\ req' = [req EXCEPT ![r].pc = "mark", ![r].id = u]
          /\ UNCHANGED <<rows, due, sworn, demoted>>
          /\ req[r].pc = "verify"
    BY <1>2 DEF ReadVerified
  <2> DEFINE row == [req[r] EXCEPT !.pc = "mark", !.id = u]
  <2>2. row \in ReqRow /\ row.pc = "mark" /\ row.id = u
    <3>1. req[r] \in ReqRow
      BY DEF TypeOK, IInv
    <3> QED
      BY <3>1 DEF ReqRow
  <2>3. req' = [req EXCEPT ![r] = row]
    BY <2>1 DEF TypeOK, IInv
  <2> HIDE DEF row
  <2>4. /\ req' \in [Reqs -> ReqRow] /\ req'[r] = row
        /\ \A q \in Reqs \ {r} : req'[q] = req[q]
    BY <2>2, <2>3 DEF TypeOK, IInv
  <2>5. TypeOK'
    BY <2>1, <2>4 DEF TypeOK, IInv
  <2>6. RequestsOK'
    BY <2>1, <2>2, <2>4 DEF RequestsOK, RequestOK, IInv
  <2>7. PairsOK'
    BY <2>1, <2>2, <2>4 DEF PairsOK, IInv
  <2>8. Forgotten' /\ VerifiedPhoneProven' /\ OnlyCashiersHaveStores'
    BY <2>1 DEF Forgotten, VerifiedPhoneProven, OnlyCashiersHaveStores,
                LoggedIn, IInv
  <2>10. DobsOK'
    BY <2>1, <2>2, <2>4, DobsKept
  <2>9. SignupBonusOnce'
    BY <2>1, <2>4 DEF SignupBonusOnce, IInv
  <2> QED
    BY <2>5, <2>6, <2>7, <2>8, <2>9, <2>10 DEF IInv
<1> QED
  BY <1>1, <1>2

-----------------------------------------------------------------------------
(* Changes of rows. *)

\* What holds when rows of accounts change, and no account comes or goes.
\* Only one request may end.
LEMMA RowsStep ==
  ASSUME IInv, user' \in [Users -> Account \cup {None}],
         \A u \in Users : Exists(u)' <=> Exists(u),
         UNCHANGED <<bonus, due>>,
         \/ req' = req
         \/ \E r \in Reqs : ~At(r, "bonus") /\ Done(r)
  PROVE  /\ req' \in [Reqs -> ReqRow]
         /\ \A q \in Reqs : req'[q] \in {req[q], Idle}
         /\ \A q \in Reqs : req'[q].id \in Users \cup {None}
         /\ \A q \in Reqs : req'[q].pc = "swear" => req'[q] = req[q]
         /\ PairsOK'
         /\ SignupBonusOnce'
<1> USE DEF At
<1>1. /\ req' \in [Reqs -> ReqRow]
      /\ \A q \in Reqs : req'[q] \in {req[q], Idle}
      /\ \A q \in Reqs : req[q].pc = "bonus" => req'[q] = req[q]
      /\ \A q \in Reqs : req'[q].pc = "swear" => req'[q] = req[q]
      /\ PairsOK'
  <2>1. CASE req' = req
    BY <2>1 DEF PairsOK, IInv, TypeOK
  <2>2. CASE \E r \in Reqs : ~At(r, "bonus") /\ Done(r)
    BY <2>2, DoneStep
  <2> QED
    BY <2>1, <2>2
<1>2. \A q \in Reqs : req'[q].id \in Users \cup {None}
  BY <1>1 DEF ReqRow
<1>3. SignupBonusOnce'
  BY <1>1 DEF SignupBonusOnce, IInv
<1> QED
  BY <1>1, <1>2, <1>3

\* A row is replaced: accounts neither come nor go.
LEMMA RowChange ==
  ASSUME IInv, NEW u \in Users, Exists(u), NEW row \in Account,
         user' = [user EXCEPT ![u] = row]
  PROVE  /\ user' \in [Users -> Account \cup {None}]
         /\ user'[u] = row
         /\ \A v \in Users \ {u} : user'[v] = user[v]
         /\ \A v \in Users : Exists(v)' <=> Exists(v)
  BY AccountsAssumption DEF IInv, TypeOK, Exists

\* The account is verified by the id that was read with its phone.
LEMMA MarkStep ==
  ASSUME IInv, NEW r \in Reqs, MarkVerified(r)
  PROVE  IInv'
<1> USE AccountsAssumption DEF At
<1>1. CASE Throw(r)
  BY <1>1, ThrowStep
<1>2. CASE ~Throw(r)
  <2> DEFINE u == req[r].id
  <2>1. /\ req[r].pc = "mark" /\ Exists(u) /\ Done(r)
        /\ user' = [user EXCEPT ![u].verified = TRUE]
        /\ UNCHANGED <<store, bonus, history>>
    BY <1>2 DEF MarkVerified
  <2>2. u \in Users /\ u \in proven
    BY <2>1 DEF RequestsOK, RequestOK, IInv
  <2> HIDE DEF u
  <2> DEFINE row == [user[u] EXCEPT !.verified = TRUE]
  <2>r. /\ row \in Account
        /\ row.phone = user[u].phone /\ row.role = user[u].role
        /\ row.dobOk = user[u].dobOk /\ row.dob = user[u].dob
    <3>1. user[u] \in Account
      BY <2>1, <2>2 DEF TypeOK, IInv, Exists
    <3> QED
      BY <3>1 DEF Account
  <2>3. user' = [user EXCEPT ![u] = row]
    BY <2>1, <2>2 DEF TypeOK, IInv
  <2> HIDE DEF row
  <2>4. /\ user' \in [Users -> Account \cup {None}]
        /\ \A v \in Users \ {u} : user'[v] = user[v]
        /\ \A v \in Users :
             /\ Exists(v)' <=> Exists(v)
             /\ user'[v].phone = user[v].phone
             /\ user'[v].role = user[v].role
             /\ user'[v].dobOk = user[v].dobOk
             /\ user'[v].dob = user[v].dob
    <3> HIDE DEF IInv
    <3> QED
      BY <2>1, <2>2, <2>3, <2>r, RowChange
  <2>5. /\ req' \in [Reqs -> ReqRow]
        /\ \A q \in Reqs : req'[q] \in {req[q], Idle}
        /\ \A q \in Reqs : req'[q].id \in Users \cup {None}
        /\ \A q \in Reqs : req'[q].pc = "swear" => req'[q] = req[q]
        /\ PairsOK' /\ SignupBonusOnce'
    BY <2>1, <2>4, RowsStep DEF history
  <2>6. TypeOK'
    BY <2>1, <2>4, <2>5 DEF TypeOK, IInv, history
  <2>7. RequestsOK'
    <3> SUFFICES ASSUME NEW q \in Reqs, req'[q] = req[q]
                 PROVE  RequestOK(q)'
      BY <2>1, DoneStep DEF RequestsOK
    <3>1. RequestOK(q) /\ (Exists(req[q].id)' => Exists(req[q].id)
                                              /\ req[q].id \in Users)
      BY <2>4, <2>5 DEF RequestsOK, IInv, Exists
    <3> QED
      BY <3>1, <2>1, <2>4 DEF RequestOK, history
  <2>8. Forgotten' /\ OnlyCashiersHaveStores'
    BY <2>1, <2>4 DEF Forgotten, OnlyCashiersHaveStores, IInv, history
  <2>9. DobsOK'
    BY <2>1, <2>4, <2>5, DobsKept DEF history
  <2>10. VerifiedPhoneProven'
    BY <2>1, <2>2, <2>4 DEF VerifiedPhoneProven, LoggedIn, Exists, IInv, history
  <2> QED
    BY <2>5, <2>6, <2>7, <2>8, <2>9, <2>10 DEF IInv
<1> QED
  BY <1>1, <1>2

\* Phones stay unique when an account keeps its own or gets a free one.
LEMMA PhoneChange ==
  ASSUME IInv, NEW u \in Users, \A v \in Users : Exists(v)' <=> Exists(v),
         \A v \in Users \ {u} : user'[v] = user[v],
         user'[u].phone = user[u].phone \/ ~Taken(user'[u].phone)
  PROVE  \A v, w \in Users :
           Exists(v)' /\ Exists(w)' /\ user'[v].phone = user'[w].phone => v = w
<1>1. \A v, w \in Users :
        Exists(v) /\ Exists(w) /\ user[v].phone = user[w].phone => v = w
  BY DEF IInv, TypeOK
<1> SUFFICES ASSUME NEW v \in Users, NEW w \in Users, Exists(v)', Exists(w)',
                    user'[v].phone = user'[w].phone
             PROVE  v = w
  OBVIOUS
<1>2. Exists(v) /\ Exists(w)
  OBVIOUS
<1>3. CASE user'[u].phone = user[u].phone
  <2>1. user'[v].phone = user[v].phone /\ user'[w].phone = user[w].phone
    BY <1>3
  <2> QED
    BY <1>1, <1>2, <2>1
<1>4. CASE ~Taken(user'[u].phone)
  <2>1. \A x \in Users : Exists(x) => user[x].phone # user'[u].phone
    BY <1>4 DEF Taken
  <2> QED
    BY <1>1, <1>2, <2>1
<1> QED
  BY <1>3, <1>4

\* A user takes a phone that is free.
LEMMA ChangePhoneStep ==
  ASSUME IInv, NEW u \in Users, NEW p \in Phones, ChangePhone(u, p)
  PROVE  IInv'
<1> USE DEF At
<1> DEFINE row == [user[u] EXCEPT !.phone = p]
<1>1. /\ Exists(u) /\ ~Taken(p)
      /\ UNCHANGED <<store, bonus, req, history>>
  BY DEF ChangePhone, LoggedIn
<1>2. /\ row \in Account /\ row.phone = p
      /\ row.role = user[u].role /\ row.verified = user[u].verified
      /\ row.dobOk = user[u].dobOk /\ row.dob = user[u].dob
  <2>1. user[u] \in Account
    BY <1>1 DEF TypeOK, IInv, Exists
  <2> QED
    BY <2>1 DEF Account
<1>3. user' = [user EXCEPT ![u] = row]
  BY DEF ChangePhone, TypeOK, IInv
<1> HIDE DEF row
<1>4. /\ user' \in [Users -> Account \cup {None}]
      /\ user'[u] = row /\ \A v \in Users \ {u} : user'[v] = user[v]
      /\ \A v \in Users : Exists(v)' <=> Exists(v)
  BY <1>1, <1>2, <1>3, RowChange
<1>5. \A v \in Users : /\ user'[v].role = user[v].role
                       /\ user'[v].verified = user[v].verified
                       /\ user'[v].dobOk = user[v].dobOk
                       /\ user'[v].dob = user[v].dob
  BY <1>2, <1>4
<1>6. PairsOK' /\ SignupBonusOnce'
      /\ \A q \in Reqs : req[q].id \in Users \cup {None}
  BY <1>1, <1>4, RowsStep DEF history, IInv, TypeOK, ReqRow
<1>7. TypeOK'
  <2>1. user'[u].phone = p
    BY <1>2, <1>4
  <2> QED
    BY <1>1, <1>4, <2>1, PhoneChange DEF TypeOK, IInv, history
<1>8. RequestsOK'
  <2> SUFFICES ASSUME NEW q \in Reqs PROVE RequestOK(q)'
    BY DEF RequestsOK
  <2>1. /\ RequestOK(q) /\ req'[q] = req[q]
        /\ Exists(req[q].id)' => Exists(req[q].id) /\ req[q].id \in Users
    BY <1>1, <1>4, <1>6 DEF RequestsOK, IInv, Exists
  <2> QED
    BY <2>1, <1>1, <1>5 DEF RequestOK, history
<1>9. Forgotten' /\ OnlyCashiersHaveStores' /\ DobsOK'
  <2>1. DobsOK'
    BY <1>1, <1>4, <1>5, DobsKept DEF history
  <2> QED
    BY <2>1, <1>1, <1>4, <1>5
       DEF Forgotten, OnlyCashiersHaveStores, IInv, history
<1>10. VerifiedPhoneProven'
  BY <1>1, <1>4, <1>5 DEF VerifiedPhoneProven, LoggedIn, IInv, history
<1> QED
  BY <1>6, <1>7, <1>8, <1>9, <1>10 DEF IInv

\* An administrator gives an account another phone or role.
LEMMA UpdateStep ==
  ASSUME IInv, NEW u \in Users, NEW c \in Changes, UpdateUserByAdmin(u, c)
  PROVE  IInv'
<1> USE DEF At
<1> DEFINE row == Updated(user[u], c)
<1>1. /\ Exists(u) /\ UNCHANGED <<store, bonus, req, due, sworn>>
      /\ c.phone \in {None, user[u].phone} \/ ~Taken(c.phone)
      /\ proven' = IF c.phone = None THEN proven ELSE proven \cup {u}
      /\ demoted' = IF user[u].role = Cashier /\ user'[u].role # Cashier
                    THEN demoted \cup {u} ELSE demoted
  BY DEF UpdateUserByAdmin
<1>2. /\ row \in Account
      /\ row.phone = IF c.phone = None THEN user[u].phone ELSE c.phone
      /\ row.verified = user[u].verified /\ row.dobOk = user[u].dobOk
      /\ row.dob \in {user[u].dob, "admin"}
  <2>1. user[u] \in Account
    BY <1>1 DEF TypeOK, IInv, Exists
  <2>2. c \in Change
    BY AccountsAssumption
  <2> QED
    BY <2>1, <2>2 DEF Account, Change, Updated
<1>3. user' = [user EXCEPT ![u] = row]
  BY DEF UpdateUserByAdmin, TypeOK, IInv
<1> HIDE DEF row
<1>4. /\ user' \in [Users -> Account \cup {None}]
      /\ user'[u] = row /\ \A v \in Users \ {u} : user'[v] = user[v]
      /\ \A v \in Users : Exists(v)' <=> Exists(v)
  BY <1>1, <1>2, <1>3, RowChange
<1>5. \A v \in Users : /\ user'[v].verified = user[v].verified
                       /\ user'[v].dobOk = user[v].dobOk
                       /\ user'[v].dob \in {user[v].dob, "admin"}
  BY <1>2, <1>4
<1>6. /\ proven \subseteq proven' /\ proven' \subseteq Users
      /\ demoted \subseteq demoted' /\ demoted' \subseteq Users
      /\ \A v \in Users : user[v].role = Cashier =>
           user'[v].role = Cashier \/ v \in demoted'
  BY <1>1, <1>4 DEF TypeOK, IInv
<1>7. PairsOK' /\ SignupBonusOnce'
      /\ \A q \in Reqs : req[q].id \in Users \cup {None}
  BY <1>1, <1>4, RowsStep DEF IInv, TypeOK, ReqRow
<1>8. TypeOK'
  <2>1. user'[u].phone = user[u].phone \/ ~Taken(user'[u].phone)
    BY <1>1, <1>2, <1>4
  <2>2. \A v, w \in Users :
          Exists(v)' /\ Exists(w)' /\ user'[v].phone = user'[w].phone => v = w
    BY <1>4, <2>1, PhoneChange
  <2>3. proven' \cup demoted' \subseteq Users
    BY <1>1, <1>6 DEF TypeOK, IInv
  <2> QED
    BY <1>1, <1>4, <2>2, <2>3 DEF TypeOK, IInv
<1>9. RequestsOK'
  <2> SUFFICES ASSUME NEW q \in Reqs PROVE RequestOK(q)'
    BY DEF RequestsOK
  <2>1. /\ RequestOK(q) /\ req'[q] = req[q]
        /\ Exists(req[q].id)' => Exists(req[q].id) /\ req[q].id \in Users
    BY <1>1, <1>4, <1>7 DEF RequestsOK, IInv, Exists
  <2> QED
    BY <2>1, <1>1, <1>5, <1>6 DEF RequestOK
<1>10. Forgotten' /\ DobsOK'
  <2>1. DobsOK'
    BY <1>1, <1>4, <1>5, DobsKept
  <2> QED
    BY <2>1, <1>1, <1>4, <1>5 DEF Forgotten, IInv
<1>11. VerifiedPhoneProven'
  BY <1>4, <1>5, <1>6 DEF VerifiedPhoneProven, LoggedIn, IInv
<1>12. OnlyCashiersHaveStores'
  BY <1>1, <1>6 DEF OnlyCashiersHaveStores, IInv
<1> QED
  BY <1>7, <1>8, <1>9, <1>10, <1>11, <1>12 DEF IInv

\* An account goes, and all that belongs to it.
LEMMA DeleteStep ==
  ASSUME IInv, NEW u \in Users, DeleteUser(u)
  PROVE  IInv'
<1> USE AccountsAssumption DEF At
<1>1. /\ user' \in [Users -> Account \cup {None}] /\ user'[u] = None
      /\ \A v \in Users \ {u} : user'[v] = user[v]
  BY DEF DeleteUser, TypeOK, IInv
<1>2. /\ store' \in [Users -> Stores \cup {None}] /\ store'[u] = None
      /\ \A v \in Users \ {u} : store'[v] = store[v]
  BY DEF DeleteUser, TypeOK, IInv
<1>3. /\ bonus' \in [Users -> Nat] /\ bonus'[u] = 0
      /\ \A v \in Users \ {u} : bonus'[v] = bonus[v]
  BY DEF DeleteUser, TypeOK, IInv
<1>4. /\ due' \in [Users -> {0, 1}] /\ due'[u] = 0
      /\ \A v \in Users \ {u} : due'[v] = due[v]
  BY DEF DeleteUser, TypeOK, IInv
<1>5. /\ sworn' \in [Users -> Nat] /\ sworn'[u] = 0
      /\ \A v \in Users \ {u} : sworn'[v] = sworn[v]
  BY DEF DeleteUser, TypeOK, IInv
<1>6. /\ proven' = proven \ {u}
      /\ demoted' = demoted \ {u} /\ req' = req
  BY DEF DeleteUser
<1>7. /\ ~Exists(u)' /\ ~Exists(None)'
      /\ \A v \in Users \ {u} : Exists(v)' <=> Exists(v)
  BY <1>1 DEF Exists
<1>8. \A q \in Reqs : req[q].id \in Users \cup {None}
  BY DEF IInv, TypeOK, ReqRow
<1>9. TypeOK'
  <2>1. \A v, w \in Users :
          Exists(v)' /\ Exists(w)' /\ user'[v].phone = user'[w].phone => v = w
    BY <1>1, <1>7 DEF TypeOK, IInv
  <2>2. \A v \in Users : ~Exists(v)' => store'[v] = None /\ bonus'[v] = 0
    BY <1>2, <1>3, <1>7 DEF TypeOK, IInv
  <2>3. /\ req' \in [Reqs -> ReqRow]
        /\ proven' \cup demoted' \subseteq Users
    BY <1>6 DEF TypeOK, IInv
  <2> QED
    BY <1>1, <1>2, <1>3, <1>4, <1>5, <2>1, <2>2, <2>3 DEF TypeOK
<1>10. RequestsOK'
  <2> SUFFICES ASSUME NEW q \in Reqs PROVE RequestOK(q)'
    BY DEF RequestsOK
  <2>1. RequestOK(q) /\ req'[q] = req[q]
    BY <1>6 DEF RequestsOK, IInv
  <2>2. CASE req[q].id \in {u, None}
    BY <2>1, <2>2, <1>7 DEF RequestOK
  <2>3. CASE req[q].id \in Users \ {u}
    BY <2>1, <2>3, <1>1, <1>3, <1>4, <1>6, <1>7 DEF RequestOK
  <2> QED
    BY <1>8, <2>2, <2>3
<1>11. PairsOK'
  BY <1>6, <1>7, <1>8 DEF PairsOK, IInv
<1>12. Forgotten'
  BY <1>4, <1>5, <1>7 DEF Forgotten, IInv
<1>13. SignupBonusOnce'
  BY <1>3, <1>4, <1>6, <1>7 DEF SignupBonusOnce, IInv
<1>14. VerifiedPhoneProven'
  BY <1>1, <1>6, <1>7 DEF VerifiedPhoneProven, LoggedIn, IInv
<1>15. DobsOK'
  BY <1>1, <1>5, <1>6, <1>7, DobsKept
<1>16. OnlyCashiersHaveStores'
  BY <1>1, <1>2, <1>6 DEF OnlyCashiersHaveStores, IInv
<1> QED
  BY <1>9, <1>10, <1>11, <1>12, <1>13, <1>14, <1>15, <1>16 DEF IInv

\* A store is written for an account that was a cashier's when it was looked
\* for.
LEMMA AssignStep ==
  ASSUME IInv, NEW r \in Reqs, NEW s \in Stores, AssignStore(r, s)
  PROVE  IInv'
<1> USE DEF At
<1>1. CASE Throw(r)
  BY <1>1, ThrowStep
<1>2. CASE ~Throw(r)
  <2> DEFINE u == req[r].id
  <2>1. /\ req[r].pc = "assigned" /\ Exists(u) /\ Done(r)
        /\ store' = [store EXCEPT ![u] = s]
        /\ UNCHANGED <<user, bonus, history>>
    BY <1>2 DEF AssignStore
  <2>2. u \in Users /\ (user[u].role = Cashier \/ u \in demoted)
    BY <2>1 DEF RequestsOK, RequestOK, IInv
  <2> HIDE DEF u
  <2>3. /\ store' \in [Users -> Stores \cup {None}]
        /\ \A v \in Users \ {u} : store'[v] = store[v]
    BY <2>1, <2>2 DEF TypeOK, IInv
  <2>4. \A v \in Users : Exists(v)' <=> Exists(v)
    BY <2>1 DEF Exists
  <2>5. /\ req' \in [Reqs -> ReqRow]
        /\ \A q \in Reqs : req'[q] \in {req[q], Idle}
        /\ PairsOK' /\ SignupBonusOnce'
        /\ \A q \in Reqs : req'[q].pc = "swear" => req'[q] = req[q]
    BY <2>1, <2>4, RowsStep DEF history, IInv, TypeOK
  <2>6. TypeOK'
    BY <2>1, <2>3, <2>4, <2>5 DEF TypeOK, IInv, history
  <2>7. RequestsOK'
    <3> SUFFICES ASSUME NEW q \in Reqs, req'[q] = req[q]
                 PROVE  RequestOK(q)'
      BY <2>1, DoneStep DEF RequestsOK
    <3> QED
      BY <2>1 DEF RequestsOK, RequestOK, IInv, Exists, history
  <2>8. Forgotten' /\ VerifiedPhoneProven' /\ DobsOK'
    <3>1. DobsOK'
      BY <2>1, <2>4, <2>5, DobsKept DEF history
    <3> QED
      BY <3>1, <2>1 DEF Forgotten, VerifiedPhoneProven, LoggedIn, Exists,
                        IInv, history
  <2>9. OnlyCashiersHaveStores'
    BY <2>1, <2>2, <2>3 DEF OnlyCashiersHaveStores, IInv, history
  <2> QED
    BY <2>5, <2>6, <2>7, <2>8, <2>9 DEF IInv
<1> QED
  BY <1>1, <1>2

\* A deleted store is nobody's.
LEMMA DeleteStoreStep ==
  ASSUME IInv, NEW s \in Stores, DeleteStore(s)
  PROVE  IInv'
<1> USE DEF IInv, DeleteStore, history, Exists, At
<1>1. TypeOK'
  BY DEF TypeOK
<1>2. RequestsOK' /\ PairsOK'
  BY DEF RequestsOK, RequestOK, PairsOK
<1>3. Forgotten' /\ SignupBonusOnce' /\ VerifiedPhoneProven'
  BY DEF Forgotten, SignupBonusOnce, VerifiedPhoneProven, LoggedIn
<1>4. OnlyCashiersHaveStores'
  BY DEF OnlyCashiersHaveStores, TypeOK
<1>5. DobsOK'
  BY DobsKept
<1> QED
  BY <1>1, <1>2, <1>3, <1>4, <1>5

-----------------------------------------------------------------------------
(* The date of birth. *)

\* A date that is not confirmed may be written: no confirmation was yet.
LEMMA ReadDobStep ==
  ASSUME IInv, NEW r \in Reqs, ReadDob(r)
  PROVE  IInv'
<1> USE AccountsAssumption DEF At
<1>1. CASE Throw(r)
  BY <1>1, ThrowStep
<1>2. CASE ~Throw(r)
  <2> DEFINE u == req[r].id
             row == [req[r] EXCEPT !.pc = "swear"]
  <2>1. req[r].pc = "confirm" /\ Exists(u) /\ ~user[u].dobOk /\ Reading
    BY <1>2 DEF ReadDob, Check, Open
  <2>2. req' = [req EXCEPT ![r] = row]
    BY <1>2 DEF ReadDob, Check, Goto, TypeOK, IInv
  <2>3. u \in Users
    BY <2>1 DEF RequestsOK, RequestOK, IInv
  <2>4. row \in ReqRow /\ row.pc = "swear" /\ row.id = u
    <3>1. req[r] \in ReqRow
      BY DEF TypeOK, IInv
    <3> QED
      BY <3>1 DEF ReqRow
  <2> HIDE DEF u, row
  <2>5. /\ req' \in [Reqs -> ReqRow] /\ req'[r] = row
        /\ \A q \in Reqs \ {r} : req'[q] = req[q]
    BY <2>2, <2>4 DEF TypeOK, IInv
  <2>6. UNCHANGED <<user, store, bonus, proven, due, sworn, demoted>>
    BY <2>1 DEF Reading, rows, history
  <2>7. TypeOK'
    BY <2>5, <2>6 DEF TypeOK, IInv, Exists
  <2>8. RequestsOK'
    <3>1. RequestOK(r)'
      BY <2>3, <2>4, <2>5 DEF RequestOK
    <3>2. ASSUME NEW q \in Reqs \ {r} PROVE RequestOK(q)'
      BY <2>5, <2>6 DEF RequestsOK, RequestOK, IInv, Exists
    <3> QED
      BY <3>1, <3>2 DEF RequestsOK
  <2>9. PairsOK'
    BY <2>4, <2>5 DEF PairsOK, IInv
  <2>10. Forgotten' /\ VerifiedPhoneProven' /\ OnlyCashiersHaveStores'
    BY <2>6 DEF Forgotten, VerifiedPhoneProven, OnlyCashiersHaveStores,
                LoggedIn, Exists, IInv
  <2>11. SignupBonusOnce'
    <3>1. \A q \in Reqs : req[q].pc = "bonus" => req'[q] = req[q]
      BY <2>1, <2>5
    <3> QED
      BY <2>6, <3>1 DEF SignupBonusOnce, Exists, IInv
  <2>12. DobsOK'
    <3> SUFFICES ASSUME NEW v \in Users, Exists(v) PROVE DobOK(v)'
      BY <2>6 DEF DobsOK, Exists
    <3>1. DobOK(v)
      BY DEF DobsOK, IInv
    <3>2. CASE v = u
      BY <3>1, <3>2, <2>1, <2>6 DEF DobOK
    <3>3. CASE v # u
      <4>1. Swearing(v)' = Swearing(v)
        BY <3>3, <2>4, <2>5, <2>1 DEF Swearing
      <4> QED
        BY <3>1, <4>1, <2>6 DEF DobOK
    <3> QED
      BY <3>2, <3>3
  <2> QED
    BY <2>7, <2>8, <2>9, <2>10, <2>11, <2>12 DEF IInv
<1> QED
  BY <1>1, <1>2

\* A date that is written counts as one more confirmation, and one request
\* fewer is about to write it.
LEMMA LastWord ==
  ASSUME IInv, NEW u \in Users, Exists(u), NEW r \in Swearing(u), Done(r),
         user'[u].dobOk = TRUE, user'[u].dob = "confirmation",
         sworn'[u] = sworn[u] + 1
  PROVE  DobOK(u)'
<1>1. DobOK(u) /\ sworn[u] \in Nat /\ r \in Reqs
  BY DEF IInv, DobsOK, TypeOK, Swearing
<1>2. Swearing(u)' = Swearing(u) \ {r}
  <2>1. /\ req'[r] = Idle
        /\ \A q \in Reqs \ {r} : req'[q] = req[q]
    BY <1>1, DoneStep
  <2> QED
    BY <2>1 DEF Swearing, At, Idle
<1>3. /\ IsFiniteSet(Swearing(u))
      /\ Cardinality(Swearing(u)) <= Cardinality(Reqs)
      /\ Cardinality(Swearing(u)) \in Nat /\ Cardinality(Reqs) \in Nat
  BY AccountsAssumption, FS_Subset, FS_CardinalityType DEF Swearing
<1>4. Cardinality(Swearing(u)') = Cardinality(Swearing(u)) - 1
  BY <1>2, <1>3, FS_RemoveElement
<1>5. sworn[u] + Cardinality(Swearing(u)) <= Cardinality(Reqs)
  BY <1>1, <1>3 DEF DobOK
<1>6. sworn'[u] + Cardinality(Swearing(u)') <= Cardinality(Reqs)
  BY <1>1, <1>3, <1>4, <1>5
<1> QED
  BY <1>6 DEF DobOK

\* The date is written, confirmed before or not.
LEMMA WriteDobStep ==
  ASSUME IInv, NEW r \in Reqs, WriteDob(r)
  PROVE  IInv'
<1> USE AccountsAssumption DEF At
<1>1. CASE Throw(r)
  BY <1>1, ThrowStep
<1>2. CASE ~Throw(r)
  <2> DEFINE u == req[r].id
             row == [user[u] EXCEPT !.dob = "confirmation", !.dobOk = TRUE]
  <2>1. /\ req[r].pc = "swear" /\ Exists(u) /\ Done(r)
        /\ sworn' = [sworn EXCEPT ![u] = @ + 1]
        /\ UNCHANGED <<store, bonus, proven, due, demoted>>
    BY <1>2 DEF WriteDob
  <2>2. u \in Users
    BY <2>1 DEF RequestsOK, RequestOK, IInv
  <2>3. /\ row \in Account /\ row.phone = user[u].phone
        /\ row.role = user[u].role /\ row.verified = user[u].verified
        /\ row.dobOk = TRUE /\ row.dob = "confirmation"
    <3>1. user[u] \in Account
      BY <2>1, <2>2 DEF TypeOK, IInv, Exists
    <3> QED
      BY <3>1 DEF Account
  <2>4. user' = [user EXCEPT ![u] = row]
    BY <1>2, <2>2 DEF WriteDob, TypeOK, IInv
  <2>5. /\ sworn' \in [Users -> Nat] /\ sworn'[u] = sworn[u] + 1
        /\ \A v \in Users \ {u} : sworn'[v] = sworn[v]
    BY <2>1, <2>2 DEF TypeOK, IInv
  <2>6. r \in Swearing(u)
    BY <2>1 DEF Swearing
  <2> HIDE DEF u, row
  <2>7. /\ user' \in [Users -> Account \cup {None}]
        /\ user'[u] = row /\ \A v \in Users \ {u} : user'[v] = user[v]
        /\ \A v \in Users : Exists(v)' <=> Exists(v)
    BY <2>1, <2>2, <2>3, <2>4, RowChange
  <2>8. \A v \in Users : /\ user'[v].phone = user[v].phone
                         /\ user'[v].role = user[v].role
                         /\ user'[v].verified = user[v].verified
    BY <2>3, <2>7
  <2>9. /\ req' \in [Reqs -> ReqRow]
        /\ \A q \in Reqs : req'[q] \in {req[q], Idle}
        /\ \A q \in Reqs : req'[q].id \in Users \cup {None}
        /\ PairsOK' /\ SignupBonusOnce'
    BY <2>1, <2>7, RowsStep
  <2>10. TypeOK'
    BY <2>1, <2>5, <2>7, <2>8, <2>9 DEF TypeOK, IInv
  <2>11. RequestsOK'
    <3> SUFFICES ASSUME NEW q \in Reqs \ {r}, req'[q] = req[q]
                 PROVE  RequestOK(q)'
      BY <2>1, DoneStep DEF RequestsOK
    <3>1. RequestOK(q) /\ (Exists(req[q].id)' => Exists(req[q].id)
                                              /\ req[q].id \in Users)
      BY <2>7, <2>9 DEF RequestsOK, IInv, Exists
    <3> QED
      BY <3>1, <2>1, <2>8 DEF RequestOK
  <2>12. Forgotten'
    BY <2>1, <2>5, <2>7 DEF Forgotten, IInv
  <2>13. VerifiedPhoneProven' /\ OnlyCashiersHaveStores'
    BY <2>1, <2>7, <2>8
       DEF VerifiedPhoneProven, OnlyCashiersHaveStores, LoggedIn, IInv
  <2>14. DobsOK'
    <3> SUFFICES ASSUME NEW v \in Users, Exists(v) PROVE DobOK(v)'
      BY <2>7 DEF DobsOK
    <3>1. DobOK(v)
      BY DEF DobsOK, IInv
    <3>2. CASE v = u
      BY <3>2, <2>1, <2>2, <2>3, <2>5, <2>6, <2>7, LastWord
    <3>3. CASE v # u
      <4>1. \A q \in Reqs \ {r} : req'[q] = req[q]
        BY <2>1, DoneStep
      <4>2. req'[r] = Idle
        BY <2>1, DoneStep
      <4>3. Swearing(v)' = Swearing(v)
        BY <3>3, <4>1, <4>2 DEF Swearing, Idle, u
      <4> QED
        BY <3>1, <3>3, <4>3, <2>5, <2>7 DEF DobOK
    <3> QED
      BY <3>2, <3>3
  <2> QED
    BY <2>9, <2>10, <2>11, <2>12, <2>13, <2>14 DEF IInv
<1> QED
  BY <1>1, <1>2

-----------------------------------------------------------------------------
(* The theorems. *)

\* Every step of a request keeps the invariant.
LEMMA RequestStep ==
  ASSUME IInv, NEW r \in Reqs, Step(r) \/ Die(r)
  PROVE  IInv'
<1>1. CASE FindPhone(r) \/ FindCashier(r)
  BY <1>1, CheckStep
<1>2. CASE CreateAccount(r)
  BY <1>2, CreateStep
<1>3. CASE PostBonus(r)
  BY <1>3, PostStep
<1>4. CASE ReadVerified(r)
  BY <1>4, ReadVerifiedStep
<1>5. CASE MarkVerified(r)
  BY <1>5, MarkStep
<1>6. CASE \E s \in Stores : AssignStore(r, s)
  BY <1>6, AssignStep
<1>7. CASE ReadDob(r)
  BY <1>7, ReadDobStep
<1>8. CASE WriteDob(r)
  BY <1>8, WriteDobStep
<1>9. CASE Die(r)
  BY <1>9, ThrowStep DEF Die
<1> QED
  BY <1>1, <1>2, <1>3, <1>4, <1>5, <1>6, <1>7, <1>8, <1>9 DEF Step

\* Every step keeps the invariant.
LEMMA NextInvariant == IInv /\ [Next]_vars => IInv'
<1> SUFFICES ASSUME IInv, [Next]_vars PROVE IInv'
  OBVIOUS
<1>1. ASSUME NEW r \in Reqs, NEW p \in Phones,
             StartRegister(r, p) \/ StartVerify(r, p)
      PROVE  IInv'
  <2>1. \E pc \in {"register", "verify"} :
          p \in Phones /\ Arrive(r, pc, None, p)
    BY <1>1 DEF StartRegister, StartVerify
  <2> QED
    BY <2>1, ArriveStep
<1>2. ASSUME NEW r \in Reqs, NEW u \in Users,
             StartAssign(r, u) \/ StartConfirm(r, u)
      PROVE  IInv'
  <2>1. \E pc \in {"assign", "confirm"} : u \in Users /\ Arrive(r, pc, u, None)
    BY <1>2 DEF StartAssign, StartConfirm
  <2> QED
    BY <2>1, ArriveStep
<1>3. ASSUME NEW r \in Reqs, Step(r) \/ Die(r)
      PROVE  IInv'
  BY <1>3, RequestStep
<1>4. CASE \E p \in Phones, role \in Roles : CreateUserByAdmin(p, role)
  BY <1>4, AdminCreateStep
<1>5. CASE \E u \in Users, p \in Phones : ChangePhone(u, p)
  BY <1>5, ChangePhoneStep
<1>6. CASE \E u \in Users, c \in Changes : UpdateUserByAdmin(u, c)
  BY <1>6, UpdateStep
<1>7. CASE \E u \in Users : DeleteUser(u)
  BY <1>7, DeleteStep
<1>8. CASE \E s \in Stores : DeleteStore(s)
  BY <1>8, DeleteStoreStep
<1>9. CASE UNCHANGED vars
  <2> USE <1>9 DEF vars, IInv, Exists, At
  <2>1. TypeOK' /\ RequestsOK' /\ PairsOK' /\ Forgotten'
    BY DEF TypeOK, RequestsOK, RequestOK, PairsOK, Forgotten
  <2>2. SignupBonusOnce' /\ VerifiedPhoneProven' /\ OnlyCashiersHaveStores'
    BY DEF SignupBonusOnce, VerifiedPhoneProven, OnlyCashiersHaveStores,
           LoggedIn
  <2>3. DobsOK'
    BY DobsKept
  <2> QED
    BY <2>1, <2>2, <2>3
<1> QED
  BY <1>1, <1>2, <1>3, <1>4, <1>5, <1>6, <1>7, <1>8, <1>9 DEF Next

\* The invariant holds in every state the handlers reach.
THEOREM AccountsInvariant == Spec => []IInv
  BY InitInvariant, NextInvariant, PTL DEF Spec

\* Rows and requests have their types and phones stay unique, whatever
\* handlers of auth.service and users.service overlap.
THEOREM AccountsTypeCorrect == Spec => []TypeOK
<1>1. IInv => TypeOK
  BY DEF IInv
<1> QED
  BY <1>1, AccountsInvariant, PTL

\* register pays the signup bonus of every account at most once, and exactly
\* once unless it breaks off.
THEOREM BonusPaidOnce == Spec => []SignupBonusOnce
<1>1. IInv => SignupBonusOnce
  BY DEF IInv
<1> QED
  BY <1>1, AccountsInvariant, PTL

\* Only accounts whose phone was proven can log in: verifyOtp marks the
\* account it found by the phone, not one that has the phone later.
THEOREM ProvenBeforeLogin == Spec => []VerifiedPhoneProven
<1>1. IInv => VerifiedPhoneProven
  BY DEF IInv
<1> QED
  BY <1>1, AccountsInvariant, PTL

\* confirmDob writes the date of a user at most as often as requests overlap,
\* however they do and whatever administrators change: each that writes had
\* found the date not confirmed, which no request finds after the first wrote.
THEOREM ConfirmationsAreBounded == Spec => []ConfirmationsBounded
<1>1. IInv => ConfirmationsBounded
  <2> SUFFICES ASSUME IInv, NEW u \in Users, Exists(u)
               PROVE  /\ sworn[u] <= Cardinality(Reqs)
                      /\ user[u].dobOk => user[u].dob # "registration"
                      /\ sworn[u] > 0 => user[u].dobOk
    BY DEF ConfirmationsBounded
  <2>1. DobOK(u) /\ sworn[u] \in Nat
    BY DEF IInv, DobsOK, TypeOK
  <2>2. IsFiniteSet(Swearing(u))
    BY AccountsAssumption, FS_Subset DEF Swearing
  <2>3. Cardinality(Swearing(u)) \in Nat /\ Cardinality(Reqs) \in Nat
    BY <2>2, AccountsAssumption, FS_CardinalityType
  <2>4. CASE user[u].dobOk
    BY <2>1, <2>3, <2>4 DEF DobOK
  <2>5. CASE ~user[u].dobOk
    BY <2>1, <2>3, <2>5 DEF DobOK
  <2> QED
    BY <2>4, <2>5
<1> QED
  BY <1>1, AccountsInvariant, PTL

\* assignStore gives stores to cashiers only, though the role may change
\* between its check and its write.
THEOREM StoresOfCashiers == Spec => []OnlyCashiersHaveStores
<1>1. IInv => OnlyCashiersHaveStores
  BY DEF IInv
<1> QED
  BY <1>1, AccountsInvariant, PTL
=============================================================================
