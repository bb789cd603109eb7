------------------------------ MODULE Accounts ------------------------------
(***************************************************************************)
(* Accounts: registration, the verification of a phone, changes of the     *)
(* phone, the role, the birthday and the store of a cashier, and deletion, *)
(* by the user and by administrators (auth.service, users.service).        *)
(*                                                                         *)
(* No handler here uses a transaction: every statement is a step, and what *)
(* was read at one step may be stale at the next.  Where all that a lookup *)
(* does is to throw earlier what the write after it throws as well (the id *)
(* is gone, the phone is taken: phones are unique), the two are one step,  *)
(* and a handler that does nothing else needs no slot for its request; the *)
(* lookup of register stays for the sake of its race.                      *)
(*                                                                         *)
(* The codes that prove a phone are modelled in OneTimePasswords: here one *)
(* may be shown for any phone.  Names and passwords are left out, and of a *)
(* date of birth it is kept who gave it and how often it was confirmed.    *)
(* An access token is taken to be there for exactly the verified accounts, *)
(* as login asks (one that outlives its account only reaches handlers that *)
(* throw).                                                                 *)
(***************************************************************************)
EXTENDS Naturals, FiniteSets

CONSTANTS Users,              \* ids of accounts
          Phones,             \* phone numbers
          Roles,              \* UserRole
          Customer, Cashier,  \* two of the roles
          Stores,             \* ids of stores
          Changes,            \* what administrators ask for
          Reqs,               \* slots for requests in flight
          None                \* null

\* UpdateUserByAdminDto: fields may be absent, and a date be sent.
Change == [phone : Phones \cup {None}, role : Roles \cup {None},
           dob : BOOLEAN]

\* One row of users.  Of the date of birth: where it comes from.
Account == [phone : Phones, verified : BOOLEAN, role : Roles,
            dob : {"registration", "confirmation", "admin"}, dobOk : BOOLEAN]

ASSUME AccountsAssumption ==
  /\ {Customer, Cashier} \subseteq Roles /\ Customer # Cashier
  /\ Changes \subseteq Change
  /\ IsFiniteSet(Reqs)
  /\ None \notin Users \cup Phones \cup Roles \cup Stores \cup Reqs
  /\ None \notin Account

VARIABLES user,     \* the rows of users
          store,    \* the rows of store_cashiers
          bonus,    \* how many signup bonuses were posted
          req,      \* the requests in flight
          proven,   \* history: accounts whose phone was proven to be theirs
          due,      \* history: how many signup bonuses there should be
          sworn,    \* history: how often a user confirmed the date of birth
          demoted   \* history: users who were cashiers

history == <<proven, due, sworn, demoted>>
rows == <<user, store, bonus>>
vars == <<user, store, bonus, req, proven, due, sworn, demoted>>

Idle == [pc |-> "idle", id |-> None, phone |-> None]

Init ==
  /\ user = [u \in Users |-> None]
  /\ store = [u \in Users |-> None]
  /\ bonus = [u \in Users |-> 0]
  /\ req = [r \in Reqs |-> Idle]
  /\ proven = {}
  /\ due = [u \in Users |-> 0]
  /\ sworn = [u \in Users |-> 0]
  /\ demoted = {}

-----------------------------------------------------------------------------
(* Requests and rows. *)

At(r, pc) == req[r].pc = pc
Goto(r, pc) == req' = [req EXCEPT ![r].pc = pc]
Done(r) == req' = [req EXCEPT ![r] = Idle]
Reading == UNCHANGED <<rows, history>>

Exists(u) == u # None /\ user[u] # None
Taken(p) == \E u \in Users : Exists(u) /\ user[u].phone = p

\* login: only a verified account gets a token.
LoggedIn(u) == Exists(u) /\ user[u].verified

\* Ids are never used twice; one that nothing refers to stands for a new one.
Unused(u) == ~Exists(u) /\ \A r \in Reqs : req[r].id # u

\* The handler throws, or the process dies: what it did stays done, and what
\* it had still to do is not done any more.
Throw(r) ==
  /\ Done(r)
  /\ due' = IF At(r, "bonus") THEN [due EXCEPT ![req[r].id] = 0] ELSE due
  /\ UNCHANGED <<rows, proven, sworn, demoted>>

Die(r) == ~At(r, "idle") /\ Throw(r)

\* A lookup that goes on to the next statement, or throws.
Check(r, here, ok, next) ==
  /\ At(r, here)
  /\ IF ok THEN Goto(r, next) /\ Reading ELSE Throw(r)

Arrive(r, pc, id, phone) ==
  /\ At(r, "idle")
  /\ req' = [req EXCEPT ![r] = [pc |-> pc, id |-> id, phone |-> phone]]
  /\ Reading

-----------------------------------------------------------------------------
(* register and createUserByAdmin. *)

StartRegister(r, p) == Arrive(r, "register", None, p)

FindPhone(r) == Check(r, "register", ~Taken(req[r].phone), "create")

Registered(r) ==
  [phone |-> req[r].phone, verified |-> FALSE, role |-> Customer,
   dob |-> "registration", dobOk |-> FALSE]

\* Mutant: the row is created or, when the phone is there by now, updated.
CreateOrUpdateAccount(r) ==
  /\ At(r, "create")
  /\ \E u \in Users :
       /\ IF Taken(req[r].phone)
          THEN Exists(u) /\ user[u].phone = req[r].phone /\ user' = user
          ELSE Unused(u) /\ user' = [user EXCEPT ![u] = Registered(r)]
       /\ due' = [due EXCEPT ![u] = 1]
       /\ req' = [req EXCEPT ![r].pc = "bonus", ![r].id = u]
       /\ UNCHANGED <<store, bonus, proven, sworn, demoted>>

\* The account of a registration: phones are unique.  Its bonus is due.
CreateAccount(r) ==
  /\ At(r, "create")
  /\ IF Taken(req[r].phone) THEN Throw(r)
     ELSE \E u \in Users :
            /\ Unused(u)
            /\ user' = [user EXCEPT ![u] = Registered(r)]
            /\ due' = [due EXCEPT ![u] = 1]
            /\ req' = [req EXCEPT ![r].pc = "bonus", ![r].id = u]
            /\ UNCHANGED <<store, bonus, proven, sworn, demoted>>

\* awardSignupBonus, in a transaction of its own: the user must be there.
PostBonus(r) ==
  /\ At(r, "bonus")
  /\ LET u == req[r].id
     IN  IF Exists(u)
         THEN /\ bonus' = [bonus EXCEPT ![u] = @ + 1]
              /\ Done(r)
              /\ UNCHANGED <<user, store, history>>
         ELSE Throw(r)

\* The account an administrator creates: verified, its date of birth taken as
\* confirmed, and no bonus.
Vouched(phone, role) ==
  [phone |-> phone, verified |-> TRUE, role |-> role,
   dob |-> "admin", dobOk |-> TRUE]

CreateUserByAdmin(p, role) ==
  /\ ~Taken(p)
  /\ \E u \in Users :
       /\ Unused(u)
       /\ user' = [user EXCEPT ![u] = Vouched(p, role)]
       /\ proven' = proven \cup {u}
  /\ UNCHANGED <<store, bonus, req, due, sworn, demoted>>

-----------------------------------------------------------------------------
(* verifyOtp, once the code was found to be right. *)

StartVerify(r, p) == Arrive(r, "verify", None, p)

\* REGISTER: the account is found by its phone,
ReadVerified(r) ==
  /\ At(r, "verify")
  /\ IF Taken(req[r].phone)
     THEN \E u \in Users :
            /\ Exists(u) /\ user[u].phone = req[r].phone
            /\ proven' = proven \cup {u}
            /\ req' = [req EXCEPT ![r].pc = "mark", ![r].id = u]
            /\ UNCHANGED <<rows, due, sworn, demoted>>
     ELSE Throw(r)

\* Mutant: the account is updated by its phone.
MarkByPhone(r) ==
  /\ At(r, "mark")
  /\ IF Taken(req[r].phone)
     THEN /\ user' = [u \in Users |->
                        IF Exists(u) /\ user[u].phone = req[r].phone
                        THEN [user[u] EXCEPT !.verified = TRUE] ELSE user[u]]
          /\ Done(r)
          /\ UNCHANGED <<store, bonus, history>>
     ELSE Throw(r)

\* and updated by its id.  (Its code is deleted then.)
MarkVerified(r) ==
  /\ At(r, "mark")
  /\ IF Exists(req[r].id)
     THEN /\ user' = [user EXCEPT ![req[r].id].verified = TRUE]
          /\ Done(r)
          /\ UNCHANGED <<store, bonus, history>>
     ELSE Throw(r)

-----------------------------------------------------------------------------
(* changePhone, updateUserByAdmin, deleteAccount and deleteUserByAdmin. *)

\* verifyOtp gives the user who shows a code for a phone a token for it, and
\* the user and the phone are taken from the token, however late it comes.
ChangePhone(u, p) ==
  /\ LoggedIn(u)
  /\ ~Taken(p)
  /\ user' = [user EXCEPT ![u].phone = p]
  /\ UNCHANGED <<store, bonus, req, history>>

\* A row with the fields that were sent.  A date of birth is replaced whether
\* it is confirmed or not, and stays confirmed or not.
Updated(row, c) ==
  LET given(field, old) == IF field = None THEN old ELSE field
  IN  [row EXCEPT !.phone = given(c.phone, @), !.role = given(c.role, @),
                  !.dob = IF c.dob THEN "admin" ELSE @]

\* A phone that is not the user's own must be free.
UpdateUserByAdmin(u, c) ==
  /\ Exists(u)
  /\ c.phone \in {None, user[u].phone} \/ ~Taken(c.phone)
  /\ user' = [user EXCEPT ![u] = Updated(@, c)]
  /\ proven' = IF c.phone = None THEN proven ELSE proven \cup {u}
  /\ demoted' = IF user[u].role = Cashier /\ user'[u].role # Cashier
                THEN demoted \cup {u} ELSE demoted
  /\ UNCHANGED <<store, bonus, req, due, sworn>>

\* Mutant: what refers to the user stays.
DeleteUserOnly(u) ==
  /\ Exists(u)
  /\ user' = [user EXCEPT ![u] = None]
  /\ UNCHANGED <<store, bonus, req, history>>

\* The store of a cashier and the postings go with the user, by cascade, and
\* here what the history says of it.  (A user who has spun the wheel cannot
\* be deleted: the statement throws.)
DeleteUser(u) ==
  /\ Exists(u)
  /\ user' = [user EXCEPT ![u] = None]
  /\ store' = [store EXCEPT ![u] = None]
  /\ bonus' = [bonus EXCEPT ![u] = 0]
  /\ proven' = proven \ {u}
  /\ due' = [due EXCEPT ![u] = 0]
  /\ sworn' = [sworn EXCEPT ![u] = 0]
  /\ demoted' = demoted \ {u}
  /\ UNCHANGED req

-----------------------------------------------------------------------------
(* assignStore. *)

StartAssign(r, u) == Arrive(r, "assign", u, None)

\* Mutant: anybody can be assigned.
AnybodyIsCashier(u) == Exists(u)

IsCashier(u) == Exists(u) /\ user[u].role = Cashier

FindCashier(r) == Check(r, "assign", IsCashier(req[r].id), "assigned")

\* The store is looked for, and the row is written when it and the user are
\* still there.
AssignStore(r, s) ==
  /\ At(r, "assigned")
  /\ IF Exists(req[r].id)
     THEN /\ store' = [store EXCEPT ![req[r].id] = s]
          /\ Done(r)
          /\ UNCHANGED <<user, bonus, history>>
     ELSE Throw(r)

\* A store is deleted, and with it, by cascade, who works there.
DeleteStore(s) ==
  /\ store' = [u \in Users |-> IF store[u] = s THEN None ELSE store[u]]
  /\ UNCHANGED <<user, bonus, req, history>>

-----------------------------------------------------------------------------
(* confirmDob. *)

StartConfirm(r, u) ==
  /\ LoggedIn(u)
  /\ Arrive(r, "confirm", u, None)

\* Mutant: a date that is confirmed is confirmed again.
OpenToAll(u) == TRUE

\* A confirmed date is only reported.
Open(u) == ~user[u].dobOk

ReadDob(r) ==
  Check(r, "confirm", Exists(req[r].id) /\ Open(req[r].id), "swear")

\* The update names the id only: it does not ask again.
WriteDob(r) ==
  /\ At(r, "swear")
  /\ LET u == req[r].id
     IN  IF Exists(u)
         THEN /\ user' = [user EXCEPT ![u].dob = "confirmation",
                                      ![u].dobOk = TRUE]
              /\ sworn' = [sworn EXCEPT ![u] = @ + 1]
              /\ Done(r)
              /\ UNCHANGED <<store, bonus, proven, due, demoted>>
         ELSE Throw(r)

-----------------------------------------------------------------------------
Step(r) ==
  \/ FindPhone(r) \/ CreateAccount(r) \/ PostBonus(r)
  \/ ReadVerified(r) \/ MarkVerified(r)
  \/ FindCashier(r) \/ (\E s \in Stores : AssignStore(r, s))
  \/ ReadDob(r) \/ WriteDob(r)

Next ==
  \/ \E r \in Reqs :
        \/ \E p \in Phones : StartRegister(r, p)
        \/ \E p \in Phones : StartVerify(r, p)
        \/ \E u \in Users : StartAssign(r, u)
        \/ \E u \in Users : StartConfirm(r, u)
        \/ Step(r)
        \/ Die(r)
  \/ \E p \in Phones, role \in Roles : CreateUserByAdmin(p, role)
  \/ \E u \in Users, p \in Phones : ChangePhone(u, p)
  \/ \E u \in Users, c \in Changes : UpdateUserByAdmin(u, c)
  \/ \E u \in Users : DeleteUser(u)
  \/ \E s \in Stores : DeleteStore(s)

Spec == Init /\ [][Next]_vars

-----------------------------------------------------------------------------
(* Properties. *)

ReqRow ==
  [pc : {"idle", "register", "create", "bonus", "verify", "mark", "assign",
         "assigned", "confirm", "swear"},
   id : Users \cup {None}, phone : Phones \cup {None}]

\* Rows and requests have their types, no two accounts have the same phone,
\* and what belongs to an account goes with it.
TypeOK ==
  /\ user \in [Users -> Account \cup {None}]
  /\ \A u, v \in Users :
       Exists(u) /\ Exists(v) /\ user[u].phone = user[v].phone => u = v
  /\ store \in [Users -> Stores \cup {None}]
  /\ bonus \in [Users -> Nat]
  /\ \A u \in Users : ~Exists(u) => store[u] = None /\ bonus[u] = 0
  /\ req \in [Reqs -> ReqRow]
  /\ due \in [Users -> {0, 1}]
  /\ sworn \in [Users -> Nat]
  /\ proven \cup demoted \subseteq Users

\* Every account that registered gets its signup bonus exactly once, however
\* many registrations with its phone there are, unless its registration broke
\* off before; accounts made by administrators get none.
SignupBonusOnce ==
  \A u \in Users :
     \/ ~Exists(u)
     \/ bonus[u] = due[u]
     \/ bonus[u] = 0 /\ \E r \in Reqs : At(r, "bonus") /\ req[r].id = u

\* Every account that can log in has a phone that was proven for it, or given
\* to it by an administrator, whatever changes, deletions and registrations
\* happen while a code is being verified.
VerifiedPhoneProven == \A u \in Users : LoggedIn(u) => u \in proven

\* However confirmDob overlaps itself and administrators change the date in
\* between: a user confirms it at most as often as requests overlap, for none
\* that starts after a confirmation writes a date again; a date that counts as
\* confirmed was given by that confirmation or by an administrator, and never
\* is the one of the registration; and one confirmed by the user stays so.
ConfirmationsBounded ==
  \A u \in Users :
     Exists(u) =>
       /\ sworn[u] <= Cardinality(Reqs)
       /\ user[u].dobOk => user[u].dob # "registration"
       /\ sworn[u] > 0 => user[u].dobOk

\* "Allows the authenticated user to confirm or update their date of birth
\* once" (users.controller.ts).
ConfirmedOnce == \A u \in Users : Exists(u) => sworn[u] <= 1

\* Only cashiers, and users who were cashiers once, have a store to work in.
OnlyCashiersHaveStores ==
  \A u \in Users : store[u] # None => user[u].role = Cashier \/ u \in demoted
=============================================================================
