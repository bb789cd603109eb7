---------------------------- MODULE OrderRewards ----------------------------
(***************************************************************************)
(* What customers may count on for the points of an order, with nothing of *)
(* the requests, the statements or the columns behind it.  An order has an *)
(* owner and an amount spent on goods.  Finishing it, selling it at the    *)
(* counter or claiming it when it is finished makes points due to its      *)
(* owner; what is due is posted, once per order, or forgone.               *)
(*                                                                         *)
(* Orders implements this module for every order that requests handle one  *)
(* at a time; nothing is promised of an order they contend for.            *)
(***************************************************************************)
EXTENDS Integers, Sequences

CONSTANTS Ids,        \* ids of orders
          Customers,  \* accounts at the start
          Guest,      \* the account shared by those who have none
          None        \* no owner, nobody

VARIABLES accounts,   \* customers that have an account
          book,       \* each order: Entry
          dues,       \* the points due for each order: Due
          paid,       \* the points posted for it, per customer
          forgone     \* orders whose points were lost, or were none

vars == <<accounts, book, dues, paid, forgone>>

Entry == [stage : {"unused", "open", "finished", "removed", "contended"},
          owner : Customers \cup {Guest, None}, goods : Int]

Due == [to : Customers \cup {None}, amount : Nat]

Blank(stage) == [stage |-> stage, owner |-> None, goods |-> 0]
Nothing == [to |-> None, amount |-> 0]
Nobody == [u \in Customers |-> <<>>]

Init ==
  /\ accounts = Customers
  /\ book = [o \in Ids |-> Blank("unused")]
  /\ dues = [o \in Ids |-> Nothing]
  /\ paid = [o \in Ids |-> Nobody]
  /\ forgone = {}

\* What the owner gets for o, if it has an account and not been paid.
Owed(o, entry) ==
  IF /\ entry.stage = "finished"
     /\ entry.owner \in accounts
     /\ entry.goods > 0
     /\ paid[o] = Nobody
  THEN [to |-> entry.owner, amount |-> entry.goods]
  ELSE Nothing

\* The entry of o changes, and due is what its owner has to get.  Nothing is
\* due before: what was due has been settled.
Change(o, due) ==
  /\ book' = [book EXCEPT ![o] = book'[o]]
  /\ book'[o] \in Entry
  /\ dues[o] = Nothing
  /\ dues' = [dues EXCEPT ![o] = due]
  /\ UNCHANGED <<accounts, paid, forgone>>

\* An order is placed, open, or sold at the counter, finished.
Enter(o) ==
  /\ book[o].stage = "unused"
  /\ book'[o].stage \in {"open", "finished"}
  /\ book'[o].owner \in accounts \cup {Guest}
  /\ Change(o, Owed(o, book'[o]))

\* Only the guest's orders can be claimed, and only the owner changes.
Claim(o) ==
  /\ book[o].stage \in {"open", "finished"}
  /\ book[o].owner = Guest
  /\ book'[o].owner \in accounts
  /\ book'[o] = [book[o] EXCEPT !.owner = book'[o].owner]
  /\ Change(o, Owed(o, book'[o]))

\* The order is finished, for the first time or again.
Finish(o) ==
  /\ book[o].stage \in {"open", "finished"}
  /\ book'[o].stage = "finished"
  /\ book'[o].owner = book[o].owner
  /\ Change(o, Owed(o, book'[o]))

\* It is edited, cancelled or opened again: that earns nothing.
Revise(o) ==
  /\ book[o].stage \in {"open", "finished"}
  /\ book'[o].stage \in {"open", book[o].stage}
  /\ book'[o].owner = book[o].owner
  /\ Change(o, Nothing)

\* What is due is posted: once, to whom it was due.
Post(o) ==
  /\ dues[o] # Nothing
  /\ paid[o] = Nobody
  /\ paid' = [paid EXCEPT ![o][dues[o].to] = Append(@, dues[o].amount)]
  /\ dues' = [dues EXCEPT ![o] = Nothing]
  /\ UNCHANGED <<accounts, book, forgone>>

\* What is due is lost: it is never made up for.
Forgo(o) ==
  /\ book[o].stage # "unused"
  /\ forgone' = forgone \cup {o}
  /\ dues' = [dues EXCEPT ![o] = Nothing]
  /\ UNCHANGED <<accounts, book, paid>>

\* The order is deleted.  The points posted for it stay; what is due is
\* posted all the same if it was settled to whom.
Remove(o) ==
  /\ book[o].stage \in {"open", "finished"}
  /\ book' = [book EXCEPT ![o] = Blank("removed")]
  /\ \E due \in {dues[o], Nothing} : dues' = [dues EXCEPT ![o] = due]
  /\ UNCHANGED <<accounts, paid, forgone>>

\* An account goes with its points, those due and those posted; its orders
\* stay, without an owner.
Close(u) ==
  /\ u \in accounts
  /\ accounts' = accounts \ {u}
  /\ book' = [o \in Ids |-> IF book[o].owner = u
                            THEN [book[o] EXCEPT !.owner = None] ELSE book[o]]
  /\ dues' = [o \in Ids |-> IF dues[o].to = u THEN Nothing ELSE dues[o]]
  /\ paid' = [o \in Ids |-> [paid[o] EXCEPT ![u] = <<>>]]
  /\ UNCHANGED forgone

\* Two requests handle the order at once: no more is said of it.
Contend(o) ==
  /\ book' = [book EXCEPT ![o] = Blank("contended")]
  /\ dues' = [dues EXCEPT ![o] = Nothing]
  /\ paid' = [paid EXCEPT ![o] = Nobody]
  /\ UNCHANGED <<accounts, forgone>>

Next ==
  \/ \E o \in Ids : \/ Enter(o) \/ Claim(o) \/ Finish(o) \/ Revise(o)
                    \/ Post(o) \/ Forgo(o) \/ Remove(o) \/ Contend(o)
  \/ \E u \in Customers : Close(u)

Spec == Init /\ [][Next]_vars
=============================================================================
