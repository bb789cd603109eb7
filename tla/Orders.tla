------------------------------- MODULE Orders -------------------------------
(***************************************************************************)
(* The life of an order (orders.service.ts): placed by a customer or a     *)
(* guest, recorded at the counter, edited, cancelled, claimed, finished    *)
(* and rewarded with points.                                               *)
(*                                                                         *)
(* Requests run concurrently, one database statement per step, each        *)
(* statement seeing what is committed (READ COMMITTED).  No handler locks  *)
(* the order it reads: what it checked may no longer hold when it writes,  *)
(* and a write touches only the columns the handler names.  A transaction  *)
(* is written as its reads followed by one step with all its writes, which *)
(* row locks make atomic; only a claim reads again after it has written,   *)
(* and holds the row of customer_order meanwhile.                          *)
(*                                                                         *)
(* customer_order has one row per order, written with it and deleted with  *)
(* it: it is the owner field of the order.                                 *)
(***************************************************************************)
EXTENDS Integers, Sequences, FiniteSets, Functions

CONSTANTS OrderIds,      \* ids of orders
          Customers,     \* accounts at the start
          Guest,         \* GUEST_USER_ID
          Cashiers,      \* accounts of cashiers
          Admin,         \* an administrator
          Stores,        \* ids of stores
          MenuItems,     \* ids of menu items
          Reqs,          \* slots for requests in flight
          Fee,           \* DELIVERY_FEE
          Prices,        \* prices a menu item may have
          Purchases,     \* what may be ordered: Purchase
          Amounts,       \* totals entered at the counter
          Edits,         \* what may be edited: Edit
          None           \* null, or a field that was not sent

Statuses == {"PENDING", "CONFIRMED", "IN_PROGRESS", "FINISHED", "CANCELLED"}

\* CUSTOMER_ORDER_TYPES, and the orders entered by a cashier.
OrderTypes == {"PICKUP", "DELIVERY"}

\* CreateOrderDto: the quantity of each item, 0 for one not ordered.
Purchase == [store : Stores, type : OrderTypes, basket : [MenuItems -> Nat]]

\* OrderUpdateDto, None for what was not sent.  An item may be sent with a
\* note alone: 0.  An address may be sent empty: FALSE.
Edit == [status : Statuses \cup {None}, store : Stores \cup {None},
         type : OrderTypes \cup {None}, address : BOOLEAN \cup {None},
         total : Nat \cup {None}, items : [MenuItems -> Nat \cup {None}]]

OrderLine == [quantity : Nat, price : Nat]

\* An order, its items and its customer_order row.  byHand is no column: it
\* tells a total that was typed in from one the code computed.  The columns
\* that are only ever displayed (note, phone, estimated time) are left out.
OrderRow == [status : Statuses, type : OrderTypes \cup {"IN_STORE"},
             store : Stores, address : BOOLEAN, fee : Nat, total : Nat,
             byHand : BOOLEAN, lines : [MenuItems -> OrderLine],
             owner : Customers \cup {Guest, None}]

\* createInStoreOrder: what a cashier enters.
Sale == [customer : Customers \cup {Guest}, total : Amounts]

ASSUME OrdersAssumption ==
  /\ IsFiniteSet(Customers) /\ IsFiniteSet(MenuItems) /\ IsFiniteSet(Reqs)
  /\ Guest \notin Customers
  /\ None \notin Customers \cup {Guest, Admin} \cup Cashiers \cup Stores
  /\ None \notin OrderIds \cup Nat \cup BOOLEAN \cup Statuses \cup OrderTypes
  /\ None \notin Purchase \cup Edit \cup OrderRow
  /\ Admin \notin Cashiers
  /\ Fee \in Nat
  /\ Prices \subseteq Nat
  /\ Purchases \subseteq Purchase
  /\ Amounts \subseteq Nat
  /\ Edits \subseteq Edit

VARIABLES customers,   \* rows of users that are customers
          unused,      \* order ids no row has had yet
          order,       \* orders, order_items and customer_order
          awards,      \* points_transactions that refer to each order:
                       \* the amounts posted to each customer
          req,         \* the requests in flight
          overlapped,  \* history: orders two requests handled at once
          forgone      \* history: orders whose award was lost or was nothing

tables == <<customers, unused, order, awards>>
history == <<overlapped, forgone>>
vars == <<customers, unused, order, awards, req, overlapped, forgone>>

Idle == [pc |-> "idle", kind |-> None, id |-> None, by |-> None,
         dto |-> None, store |-> None, lines |-> None, seen |-> None,
         to |-> None, amount |-> 0]

Init ==
  /\ customers = Customers
  /\ unused = OrderIds
  /\ order = [o \in OrderIds |-> None]
  /\ awards = [o \in OrderIds |-> [u \in Customers |-> <<>>]]
  /\ req = [r \in Reqs |-> Idle]
  /\ overlapped = {}
  /\ forgone = {}

-----------------------------------------------------------------------------
(* Requests. *)

At(r, kind, pc) == req[r].kind = kind /\ req[r].pc = pc

\* The order a request is about, as it is now.
Row(r) == order[req[r].id]
Exists(r) == Row(r) # None

\* The requests about o.
Handling(o) == {r \in Reqs : req[r].id = o}

Goto(r, pc) == req' = [req EXCEPT ![r].pc = pc]

\* The request is over.
Done(r) == req' = [req EXCEPT ![r] = Idle]

\* The order is committed: only awarding points for it is left.
ToAward(r, pc, to, amount) ==
  req' = [req EXCEPT ![r] = [Idle EXCEPT !.pc = pc, !.kind = "award",
                                         !.id = req[r].id, !.to = to,
                                         !.amount = amount]]

\* A step that changes no table.
Reading == UNCHANGED <<tables, history>>

\* The handler throws: nothing is written.
Throw(r) == Done(r) /\ Reading

\* A request about o arrives.
Arrive(r, kind, pc, o, by, dto) ==
  /\ req[r].pc = "idle"
  /\ req' = [req EXCEPT ![r].pc = pc, ![r].kind = kind, ![r].id = o,
                        ![r].by = by, ![r].dto = dto]
  /\ overlapped' = IF Handling(o) # {} THEN overlapped \cup {o}
                                       ELSE overlapped
  /\ UNCHANGED <<tables, forgone>>

\* Ids are given when the order is inserted; here when its request arrives.
New(o) == o \in unused /\ Handling(o) = {}

Start(r, o) ==
  \/ /\ New(o)
     /\ \/ \E u \in customers \cup {Guest}, dto \in Purchases :
             Arrive(r, "place", "menu", o, u, dto)
        \/ \E k \in Cashiers, u \in Customers \cup {Guest}, a \in Amounts :
             Arrive(r, "inStore", "post", o, k, [customer |-> u, total |-> a])
  \/ /\ o \notin unused
     /\ \/ \E u \in customers : \/ Arrive(r, "cancel", "read", o, u, None)
                                \/ Arrive(r, "claim", "read", o, u, None)
        \/ \E k \in Cashiers : Arrive(r, "ready", "post", o, k, None)
        \/ \E dto \in Edits :
             \/ Arrive(r, "update", "read", o, Admin, dto)
             \/ \E k \in Cashiers :
                  /\ dto.total = None
                  /\ dto.store = None
                  /\ Arrive(r, "update", "post", o, k, dto)

\* resolveCashierStoreId and its like in the other handlers of cashiers.
\* Administrators assign cashiers at any time: any store, or none.
ResolveStore(r) ==
  /\ req[r].pc = "post"
  /\ \/ /\ \E s \in Stores :
             req' = [req EXCEPT ![r].pc = IF req[r].kind = "inStore"
                                          THEN "customer" ELSE "read",
                                ![r].store = s]
        /\ Reading
     \/ Throw(r)

-----------------------------------------------------------------------------
(* createOrder. *)

LinesTotal(lines) ==
  SumFunction([i \in MenuItems |-> lines[i].quantity * lines[i].price])

FeeOf(type) == IF type = "DELIVERY" THEN Fee ELSE 0

\* The store and all items must be active; the prices are copied.  Stores
\* and menu are edited all the time: any prices, any refusal.
ReadMenu(r) ==
  /\ At(r, "place", "menu")
  /\ \/ /\ \E price \in [MenuItems -> Prices] :
             req' = [req EXCEPT ![r].pc = "commit",
                       ![r].lines = [i \in MenuItems |->
                          [quantity |-> req[r].dto.basket[i],
                           price |-> price[i]]]]
        /\ Reading
     \/ Throw(r)

\* The account the order is linked to must still exist.
Linkable(u) == u \in customers \cup {Guest}

\* The order appears with its items and owner, already CONFIRMED.
CommitOrder(r) ==
  /\ At(r, "place", "commit")
  /\ IF Linkable(req[r].by)
     THEN LET dto == req[r].dto
              new == [status |-> "CONFIRMED", type |-> dto.type,
                      store |-> dto.store, address |-> dto.type = "DELIVERY",
                      fee |-> FeeOf(dto.type), byHand |-> FALSE,
                      total |-> LinesTotal(req[r].lines) + FeeOf(dto.type),
                      lines |-> req[r].lines, owner |-> req[r].by]
          IN  /\ order' = [order EXCEPT ![req[r].id] = new]
              /\ unused' = unused \ {req[r].id}
              /\ Done(r)
              /\ UNCHANGED <<customers, awards, history>>
     ELSE Throw(r)

-----------------------------------------------------------------------------
(* createInStoreOrder. *)

\* The customer the cashier typed or scanned, the guest if there is none.
FindCustomer(r) ==
  /\ At(r, "inStore", "customer")
  /\ req' = [req EXCEPT ![r].pc = "commit",
                        ![r].to = IF req[r].dto.customer \in customers
                                  THEN req[r].dto.customer ELSE Guest]
  /\ Reading

\* The order appears FINISHED; the award follows.
CommitInStore(r) ==
  /\ At(r, "inStore", "commit")
  /\ IF Linkable(req[r].to)
     THEN LET total == req[r].dto.total
              new == [status |-> "FINISHED", type |-> "IN_STORE",
                      store |-> req[r].store, address |-> FALSE,
                      fee |-> 0, byHand |-> TRUE, total |-> total,
                      lines |-> [i \in MenuItems |->
                                   [quantity |-> 0, price |-> 0]],
                      owner |-> req[r].to]
          IN  /\ order' = [order EXCEPT ![req[r].id] = new]
              /\ unused' = unused \ {req[r].id}
              /\ ToAward(r, "check", req[r].to, total)
              /\ UNCHANGED <<customers, awards, history>>
     ELSE Throw(r)

-----------------------------------------------------------------------------
(* cancelOrder. *)

ReadCancel(r) ==
  /\ At(r, "cancel", "read")
  /\ IF Exists(r) /\ Row(r).owner = req[r].by /\ Row(r).status = "CONFIRMED"
     THEN Goto(r, "write") /\ Reading
     ELSE Throw(r)

\* The update is by id alone.
WriteCancel(r) ==
  /\ At(r, "cancel", "write")
  /\ IF Exists(r)
     THEN /\ order' = [order EXCEPT ![req[r].id].status = "CANCELLED"]
          /\ Done(r)
          /\ UNCHANGED <<customers, unused, awards, history>>
     ELSE Throw(r)

-----------------------------------------------------------------------------
(* claimOrder. *)

\* Only a guest's order can be claimed.
ReadClaim(r) ==
  /\ At(r, "claim", "read")
  /\ IF Exists(r) /\ Row(r).owner = Guest
     THEN Goto(r, "link") /\ Reading
     ELSE Throw(r)

\* The claims that have updated the link of o and not committed.
Holding(o) == {r \in Handling(o) : req[r].kind = "claim"
                                   /\ req[r].pc \in {"order", "commit"}}

\* The transaction updates the link, by order id alone, ...
LinkOrder(r) ==
  /\ At(r, "claim", "link")
  /\ Holding(req[r].id) = {}
  /\ IF Exists(r) /\ Linkable(req[r].by)
     THEN Goto(r, "order") /\ Reading
     ELSE Throw(r)

\* What a claim keeps of the order it reads.
SeenByClaim(row) ==
  [status |-> row.status, total |-> row.total, fee |-> row.fee]

\* ... reads the order ...
ReadClaimed(r) ==
  /\ At(r, "claim", "order")
  /\ req' = [req EXCEPT ![r].pc = "commit", ![r].seen = SeenByClaim(Row(r))]
  /\ Reading

\* Mutant: the delivery earns points too.
GoodsAndDelivery(row) == row.total

\* What earns points: the delivery does not.
Goods(row) == row.total - row.fee

\* Mutant: whatever the status, the claim awards nothing.
CommitClaimOnly(r) ==
  /\ At(r, "claim", "commit")
  /\ order' = [order EXCEPT ![req[r].id].owner = req[r].by]
  /\ Done(r)
  /\ UNCHANGED <<customers, unused, awards, history>>

\* ... and commits.  If the order was finished the award follows.
CommitClaim(r) ==
  /\ At(r, "claim", "commit")
  /\ order' = [order EXCEPT ![req[r].id].owner = req[r].by]
  /\ LET seen == req[r].seen
     IN  IF seen.status = "FINISHED"
         THEN ToAward(r, "check", req[r].by, Goods(seen))
         ELSE Done(r)
  /\ UNCHANGED <<customers, unused, awards, history>>

-----------------------------------------------------------------------------
(* updateOrder. *)

Closed(row) == row.status \in {"FINISHED", "CANCELLED"}

\* Cashiers edit open orders of their store; administrators edit any.
Editable(r) ==
  \/ req[r].by = Admin
  \/ Row(r).store = req[r].store /\ ~Closed(Row(r))

EditedItems(dto) == {i \in MenuItems : dto.items[i] # None}

\* The address an order has after the edit.
AddressAfter(row, dto) ==
  CASE dto.type = "PICKUP" -> FALSE
    [] dto.type # "PICKUP" /\ dto.address # None -> dto.address
    [] OTHER -> row.address

\* What an edit keeps of the order it reads.
SeenByEdit(row) ==
  [lines |-> row.lines, fee |-> row.fee, address |-> row.address]

\* The order is read and the edit checked against it.
ReadOrder(r) ==
  /\ At(r, "update", "read")
  /\ LET dto == req[r].dto
     IN  IF /\ Exists(r)
            /\ Editable(r)
            /\ \A i \in EditedItems(dto) : Row(r).lines[i].quantity > 0
            /\ dto.type = "DELIVERY" => AddressAfter(Row(r), dto)
         THEN /\ req' = [req EXCEPT ![r].pc = "write",
                                    ![r].seen = SeenByEdit(Row(r))]
              /\ Reading
         ELSE Throw(r)

\* The quantity an edited item gets: the one sent, or else the one read.
QuantityAfter(seen, dto, i) ==
  IF dto.items[i] \in Nat \ {0} THEN dto.items[i] ELSE seen.lines[i].quantity

LinesAfter(seen, dto) ==
  [i \in MenuItems |-> [seen.lines[i] EXCEPT
                          !.quantity = QuantityAfter(seen, dto, i)]]

\* Items or type in the edit make the total be computed again.
Recalculated(dto) == EditedItems(dto) # {} \/ dto.type # None

\* Mutant: the fee of the new type is left out of the new total.
TotalWithoutFee(seen, dto) ==
  LinesTotal(LinesAfter(seen, dto)) + (IF dto.type = None THEN seen.fee ELSE 0)

\* The total computed from what was read.
TotalAfter(seen, dto) ==
  LinesTotal(LinesAfter(seen, dto))
    + (IF dto.type = None THEN seen.fee ELSE FeeOf(dto.type))

Sent(value, old) == IF value = None THEN old ELSE value

\* Mutant: the fee is only ever added.
UpdatedKeepingFee(row, seen, dto) ==
  [status  |-> Sent(dto.status, row.status),
   store   |-> Sent(dto.store, row.store),
   type    |-> Sent(dto.type, row.type),
   address |-> IF dto.type # None \/ dto.address # None
               THEN AddressAfter(seen, dto) ELSE row.address,
   fee     |-> IF dto.type = "DELIVERY" THEN Fee ELSE row.fee,
   total   |-> IF Recalculated(dto) THEN TotalAfter(seen, dto)
                                    ELSE Sent(dto.total, row.total),
   byHand  |-> ~Recalculated(dto) /\ (row.byHand \/ dto.total # None),
   lines   |-> [i \in MenuItems |-> IF i \in EditedItems(dto)
                                    THEN LinesAfter(seen, dto)[i]
                                    ELSE row.lines[i]],
   owner   |-> row.owner]

\* The row after the edit: the columns that were sent are set, the others
\* keep what they have by now.
Updated(row, seen, dto) ==
  [status  |-> Sent(dto.status, row.status),
   store   |-> Sent(dto.store, row.store),
   type    |-> Sent(dto.type, row.type),
   address |-> IF dto.type # None \/ dto.address # None
               THEN AddressAfter(seen, dto) ELSE row.address,
   fee     |-> IF dto.type # None THEN FeeOf(dto.type) ELSE row.fee,
   total   |-> IF Recalculated(dto) THEN TotalAfter(seen, dto)
                                    ELSE Sent(dto.total, row.total),
   byHand  |-> ~Recalculated(dto) /\ (row.byHand \/ dto.total # None),
   lines   |-> [i \in MenuItems |-> IF i \in EditedItems(dto)
                                    THEN LinesAfter(seen, dto)[i]
                                    ELSE row.lines[i]],
   owner   |-> row.owner]

\* The edit is written and committed.
WriteUpdate(r) ==
  /\ At(r, "update", "write")
  /\ IF Exists(r)
     THEN LET new == Updated(Row(r), req[r].seen, req[r].dto)
          IN  /\ order' = [order EXCEPT ![req[r].id] = new]
              /\ IF req[r].dto.status = "FINISHED"
                 THEN ToAward(r, "owner", None, Goods(new))
                 ELSE Done(r)
              /\ UNCHANGED <<customers, unused, awards, history>>
     ELSE Throw(r)

\* After the commit: whose order was it?
ReadOwner(r) ==
  /\ req[r].pc = "owner"
  /\ req' = [req EXCEPT ![r].pc = "check",
                        ![r].to = IF Exists(r) /\ Row(r).owner # None
                                  THEN Row(r).owner ELSE Guest]
  /\ Reading

-----------------------------------------------------------------------------
(* awardOrderPoints. *)

\* Some points were posted for o.
Awarded(o) == \E u \in Customers : awards[o][u] # <<>>

\* Mutant: the points of earlier requests are not looked up.
CheckAwardUnguarded(r) ==
  /\ req[r].pc = "check"
  /\ IF req[r].to = Guest \/ req[r].amount <= 0
     THEN Done(r) ELSE Goto(r, "award")
  /\ forgone' = IF req[r].amount <= 0 THEN forgone \cup {req[r].id}
                                      ELSE forgone
  /\ UNCHANGED <<tables, overlapped>>

\* Mutant: points for nothing.
CheckAwardAnyAmount(r) ==
  /\ req[r].pc = "check"
  /\ IF req[r].to = Guest \/ Awarded(req[r].id)
     THEN Done(r) ELSE Goto(r, "award")
  /\ Reading

\* No points to the guest, for nothing, or again.
CheckAward(r) ==
  /\ req[r].pc = "check"
  /\ IF \/ req[r].to = Guest
        \/ req[r].amount <= 0
        \/ Awarded(req[r].id)
     THEN Done(r)
     ELSE Goto(r, "award")
  /\ forgone' = IF req[r].amount <= 0 THEN forgone \cup {req[r].id}
                                      ELSE forgone
  /\ UNCHANGED <<tables, overlapped>>

\* The points engine posts the points (PointsEngine), in one transaction ...
Award(r) ==
  /\ req[r].pc = "award"
  /\ req[r].to \in customers
  /\ awards' = [awards EXCEPT ![req[r].id][req[r].to] =
                  Append(@, req[r].amount)]
  /\ Done(r)
  /\ UNCHANGED <<customers, unused, order, history>>

\* ... or fails, for lack of a customer or a level: logged and forgotten.
AwardFails(r) ==
  /\ req[r].pc = "award"
  /\ forgone' = forgone \cup {req[r].id}
  /\ Done(r)
  /\ UNCHANGED <<tables, overlapped>>

\* The process dies: what is committed stays, the rest never happens.
Die(r) ==
  /\ req[r].pc # "idle"
  /\ forgone' = IF req[r].pc \in {"owner", "check", "award"}
                THEN forgone \cup {req[r].id} ELSE forgone
  /\ Done(r)
  /\ UNCHANGED <<tables, overlapped>>

-----------------------------------------------------------------------------
(* updateOrderReadyTime. *)

\* Only for an order of the cashier's store that is still to come.
ReadForReady(r) ==
  /\ At(r, "ready", "read")
  /\ IF /\ Exists(r)
        /\ Row(r).store = req[r].store
        /\ Row(r).status \in {"CONFIRMED", "IN_PROGRESS"}
     THEN Goto(r, "write") /\ Reading
     ELSE Throw(r)

\* The estimate is written: a column nothing here depends on.
WriteReady(r) ==
  /\ At(r, "ready", "write")
  /\ Done(r)
  /\ Reading

-----------------------------------------------------------------------------
(* What happens around the orders. *)

\* adminDelete: the points awarded for the order stay.  Its row in
\* customer_order must not be locked by a claim.
AdminDelete(o) ==
  /\ order[o] # None
  /\ Holding(o) = {}
  /\ order' = [order EXCEPT ![o] = None]
  /\ UNCHANGED <<customers, unused, awards, req, history>>

\* An account goes with its points; its orders stay, without an owner.  A
\* claim that has linked the account and not committed keeps it in place.
DeleteCustomer(u) ==
  /\ u \in customers
  /\ \A o \in OrderIds : \A r \in Holding(o) : req[r].by # u
  /\ customers' = customers \ {u}
  /\ order' = [o \in OrderIds |->
                 IF order[o] # None /\ order[o].owner = u
                 THEN [order[o] EXCEPT !.owner = None] ELSE order[o]]
  /\ awards' = [o \in OrderIds |-> [awards[o] EXCEPT ![u] = <<>>]]
  /\ UNCHANGED <<unused, req, history>>

-----------------------------------------------------------------------------
Step(r) ==
  \/ ResolveStore(r)
  \/ ReadMenu(r) \/ CommitOrder(r)
  \/ FindCustomer(r) \/ CommitInStore(r)
  \/ ReadCancel(r) \/ WriteCancel(r)
  \/ ReadClaim(r) \/ LinkOrder(r) \/ ReadClaimed(r) \/ CommitClaim(r)
  \/ ReadOrder(r) \/ WriteUpdate(r) \/ ReadOwner(r)
  \/ CheckAward(r) \/ Award(r) \/ AwardFails(r)
  \/ ReadForReady(r) \/ WriteReady(r)

Around ==
  \/ \E o \in OrderIds : AdminDelete(o)
  \/ \E u \in Customers : DeleteCustomer(u)

Next ==
  \/ \E r \in Reqs : (\E o \in OrderIds : Start(r, o)) \/ Step(r) \/ Die(r)
  \/ Around

Spec == Init /\ [][Next]_vars

-----------------------------------------------------------------------------
(* Properties. *)

Kinds ==
  {"place", "inStore", "cancel", "claim", "ready", "update", "award"}

Places ==
  {"idle", "menu", "commit", "post", "customer", "read",
   "write", "link", "order", "owner", "check", "award"}

EditSeen == [lines : [MenuItems -> OrderLine], fee : Nat, address : BOOLEAN]

ClaimSeen == [status : Statuses, total : Nat, fee : Nat]

ReqRow ==
  [pc : Places,
   kind : Kinds \cup {None},
   id : OrderIds \cup {None},
   by : Customers \cup Cashiers \cup {Guest, Admin, None},
   dto : Purchases \cup Edits \cup Sale \cup {None},
   store : Stores \cup {None},
   lines : [MenuItems -> OrderLine] \cup {None},
   seen : EditSeen \cup ClaimSeen \cup {None},
   to : Customers \cup {Guest, None},
   amount : Int]

\* The rows of every table and request have their types, whatever edits
\* interleave: no total and no quantity becomes negative or is lost.
TypeOK ==
  /\ customers \subseteq Customers
  /\ unused \subseteq OrderIds
  /\ order \in [OrderIds -> OrderRow \cup {None}]
  /\ awards \in [OrderIds -> [Customers -> Seq(Nat \ {0})]]
  /\ req \in [Reqs -> ReqRow]
  /\ overlapped \subseteq OrderIds
  /\ forgone \subseteq OrderIds

\* How often points were posted for o.
AwardCount(o) == SumFunction([u \in Customers |-> Len(awards[o][u])])

\* An order is awarded once, however often it is finished, reopened, claimed
\* and finished again, as long as no two requests handle it at once.
PointsOncePerOrder == \A o \in OrderIds \ overlapped : AwardCount(o) <= 1

\* Requests that overlap may award an order more than once (AwardedOnce does
\* not hold), but only those that looked before the first award: never more
\* often than there are requests in flight.
AwardsBounded == \A o \in OrderIds : AwardCount(o) <= Cardinality(Reqs)

\* Once the requests about a finished order are over, its owner has the
\* points for it, whether it was finished before the claim or after,
\* unless the award was for nothing, failed, or died with the process, or
\* two requests about the order overlapped.
FinishedOrderRewarded ==
  \A o \in OrderIds \ (overlapped \cup forgone) :
     /\ order[o] # None
     /\ order[o].status = "FINISHED"
     /\ order[o].owner \in Customers
     /\ Handling(o) = {}
     => Awarded(o)

\* The total is the price of the items and the delivery fee, unless it was
\* typed in: edits of items and type keep it up to date, as long as no two
\* requests about the order overlap.
TotalCoversItems ==
  \A o \in OrderIds \ overlapped :
     order[o] # None /\ ~order[o].byHand
       => order[o].total = LinesTotal(order[o].lines) + order[o].fee

\* The fee is that of the type, even when concurrent edits switch it.
FeeFollowsType ==
  \A o \in OrderIds : order[o] # None => order[o].fee = FeeOf(order[o].type)

\* Points are awarded for a finished order, to its owner, for what the order
\* costs without the delivery, as long as no two requests about it overlap.
AwardIsCurrent ==
  \A r \in Reqs :
     req[r].pc = "award" /\ req[r].id \notin overlapped /\ Exists(r) =>
       /\ Row(r).status = "FINISHED"
       /\ Row(r).owner \in {req[r].to, None}
       /\ req[r].amount = Row(r).total - Row(r).fee

\* "points were already awarded for this order (idempotency guard, keyed on
\* the order id via PointsTransaction.referenceId)": said of every order.
AwardedOnce == \A o \in OrderIds : AwardCount(o) <= 1

\* "Only allowed while the order is still CONFIRMED -- once a cashier has
\* started on it (IN_PROGRESS) or it's done, the customer can no longer back
\* out": said of every cancellation.
CancelledOnlyIfConfirmed ==
  [][\A r \in Reqs :
        /\ At(r, "cancel", "write")
        /\ order'[req[r].id] # order[req[r].id]
        /\ req'[r] # req[r]
        => Row(r).status = "CONFIRMED"]_vars

-----------------------------------------------------------------------------
(* The promise, OrderRewards: of orders that requests do not contend for. *)

\* Who gets the points that r is about to award.
Payee(r) ==
  IF req[r].pc = "owner"
  THEN IF Exists(r) THEN Row(r).owner ELSE None
  ELSE req[r].to

\* The requests that have an award for o to make, to an existing account.
Awarding(o) ==
  {r \in Handling(o) : /\ req[r].pc \in {"owner", "check", "award"}
                       /\ Payee(r) \in customers
                       /\ req[r].amount > 0}

Entered(row) ==
  [stage |-> IF row.status = "FINISHED" THEN "finished" ELSE "open",
   owner |-> row.owner, goods |-> Goods(row)]

Unentered(stage) == [stage |-> stage, owner |-> None, goods |-> 0]

Book ==
  [o \in OrderIds |->
     CASE o \in overlapped -> Unentered("contended")
       [] o \in unused \ overlapped -> Unentered("unused")
       [] o \notin unused \cup overlapped /\ order[o] = None ->
            Unentered("removed")
       [] OTHER -> Entered(order[o])]

Dues ==
  [o \in OrderIds |->
     IF o \in overlapped \/ Awarded(o) \/ Awarding(o) = {}
     THEN [to |-> None, amount |-> 0]
     ELSE LET r == CHOOSE r \in Awarding(o) : TRUE
          IN  [to |-> Payee(r), amount |-> req[r].amount]]

Paid ==
  [o \in OrderIds |-> IF o \in overlapped THEN [u \in Customers |-> <<>>]
                                          ELSE awards[o]]

Promise == INSTANCE OrderRewards
             WITH Ids <- OrderIds, accounts <- customers, book <- Book,
                  dues <- Dues, paid <- Paid

\* Whatever requests, deletions and crashes interleave, an order nobody
\* contends for earns its owner points as OrderRewards has it: when it is
\* finished, sold or claimed finished, once, for its goods.
ImplementsRewards == Promise!Spec
=============================================================================
