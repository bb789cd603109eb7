----------------------------- MODULE MCAccounts -----------------------------
(***************************************************************************)
(* A small instance of Accounts: two accounts, two phones, two requests in *)
(* flight.  An administrator changes one field at a time.                  *)
(***************************************************************************)
EXTENDS Accounts, TLC

MCChanges ==
  {[phone |-> p, role |-> None, dob |-> FALSE] : p \in Phones}
  \cup {[phone |-> None, role |-> role, dob |-> FALSE] : role \in Roles}
  \cup {[phone |-> None, role |-> None, dob |-> TRUE]}

\* Who gave a date of birth, once it is not that of the registration, is read
\* by no step and told apart by no property.
View ==
  <<[u \in Users |->
       IF Exists(u) THEN [user[u] EXCEPT !.dob = @ = "registration"] ELSE None],
    store, bonus, req, history>>

Symmetry ==
  Permutations(Users) \cup Permutations(Phones) \cup Permutations(Reqs)
=============================================================================
