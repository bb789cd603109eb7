---------------------------- MODULE PointsLedger ----------------------------
(***************************************************************************)
(* What the points engine promises, with nothing of how it does it: every  *)
(* customer has a balance and a statement of postings, and the balance     *)
(* moves only by a posting that follows from the balance before it.  The   *)
(* comment above the engine's entry points says as much: "every points     *)
(* action shares one consistent path for validation, locking, ledger       *)
(* creation, balance updates, and level resolution".                       *)
(*                                                                         *)
(* PointsEngine implements this module: concurrent requests, each reading, *)
(* computing and writing in steps of its own, post as if one at a time.    *)
(***************************************************************************)
EXTENDS Integers, Sequences

CONSTANT Users

VARIABLES open,         \* the customers that have an account
          balance,      \* what each customer can spend
          statement     \* each customer's postings [points, after]

vars == <<open, balance, statement>>

Init ==
  /\ open = Users
  /\ balance = [u \in Users |-> 0]
  /\ statement = [u \in Users |-> <<>>]

\* The points that may be posted when a balance moves by moved.  A debit of
\* a fraction is stored rounded up to a hundredth, but so is the balance
\* after it: the customer then keeps one hundredth of what was taken.
Postable(moved) == {moved} \cup (IF moved <= 0 THEN {moved - 1} ELSE {})

\* A posting is one atomic step and never overdraws.
Post(u) ==
  /\ u \in open
  /\ balance'[u] \in Nat
  /\ balance' = [balance EXCEPT ![u] = balance'[u]]
  /\ \E points \in Postable(balance'[u] - balance[u]) :
        statement' = [statement EXCEPT ![u] =
                        Append(@, [points |-> points, after |-> balance'[u]])]
  /\ UNCHANGED open

\* Deleting an account takes its statement with it, for good.
Close(u) ==
  /\ u \in open
  /\ open' = open \ {u}
  /\ statement' = [statement EXCEPT ![u] = <<>>]
  /\ UNCHANGED balance

Next == \E u \in Users : Post(u) \/ Close(u)

Spec == Init /\ [][Next]_vars
=============================================================================
