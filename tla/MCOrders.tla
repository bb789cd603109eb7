------------------------------ MODULE MCOrders ------------------------------
(***************************************************************************)
(* A small instance of Orders: two requests in flight about one order.     *)
(***************************************************************************)
EXTENDS Orders, TLC

CONSTANTS c1, c2, k1, s1, i1, i2, r1, r2, o1

NothingSent == [status |-> None, store |-> None, type |-> None,
                address |-> None, total |-> None,
                items |-> [i \in MenuItems |-> None]]

Status(s) == [NothingSent EXCEPT !.status = s]

\* Finish with a total of one's own; start, or reopen, with one quantity and
\* the note of the other item changed; deliver it; have it fetched, done.
MCEdits ==
  {[Status("FINISHED") EXCEPT !.total = 3],
   [Status("IN_PROGRESS") EXCEPT !.items = (i1 :> 2) @@ (i2 :> 0)],
   [NothingSent EXCEPT !.type = "DELIVERY", !.address = TRUE],
   [Status("FINISHED") EXCEPT !.type = "PICKUP"]}

MCPurchases ==
  {[store |-> s1, type |-> "DELIVERY", basket |-> (i1 :> 1) @@ (i2 :> 1)]}

Symmetry == Permutations(Customers) \cup Permutations(Reqs)
=============================================================================
