---------------------------- MODULE OrdersProofs ----------------------------
(***************************************************************************)
(* Proofs about Orders, for any number of orders, customers, cashiers,     *)
(* stores, items and requests.                                             *)
(*                                                                         *)
(* No handler locks an order, so what a request relies on is of two kinds: *)
(* what its own local variables are (StageOK), and what it read and is     *)
(* still so if no other request handled the order meanwhile (RelyOK).      *)
(* The last part shows that Orders implements OrderRewards.                *)
(***************************************************************************)
EXTENDS Orders, SumLemmas

\* Where a request may be, and what it has in its variables there.
PlaceStage(q) ==
  /\ q.kind = "place" /\ q.pc \in {"menu", "commit"}
  /\ q.by \in Customers \cup {Guest} /\ q.dto \in Purchases
  /\ q.pc = "commit" => q.lines \in [MenuItems -> OrderLine]

InStoreStage(q) ==
  /\ q.kind = "inStore" /\ q.pc \in {"post", "customer", "commit"}
  /\ q.dto \in Sale
  /\ q.pc # "post" => q.store \in Stores
  /\ q.pc = "commit" => q.to \in Customers \cup {Guest}

CancelStage(q) ==
  q.kind = "cancel" /\ q.pc \in {"read", "write"}

ClaimStage(q) ==
  /\ q.kind = "claim" /\ q.pc \in {"read", "link", "order", "commit"}
  /\ q.by \in Customers
  /\ q.pc = "commit" => q.seen \in ClaimSeen

ReadyStage(q) ==
  q.kind = "ready" /\ q.pc \in {"post", "read", "write"}

UpdateStage(q) ==
  /\ q.kind = "update" /\ q.pc \in {"post", "read", "write"}
  /\ q.by \in Cashiers \cup {Admin}
  /\ q.dto \in Edits
  /\ q.pc = "write" => q.seen \in EditSeen

AwardStage(q) ==
  /\ q.kind = "award" /\ q.pc \in {"owner", "check", "award"}
  /\ q.pc = "check" => q.to \in Customers \cup {Guest}
  /\ q.pc = "award" => q.to \in Customers /\ q.amount \in Nat \ {0}

StageOK(r) ==
  LET q == req[r]
  IN  \/ q.pc = "idle" /\ q.id = None
      \/ q.id \in unused /\ (PlaceStage(q) \/ InStoreStage(q))
      \/ /\ q.id \in OrderIds \ unused
         /\ \/ CancelStage(q) \/ ClaimStage(q) \/ ReadyStage(q)
            \/ UpdateStage(q) \/ AwardStage(q)

\* A claim that has updated the link keeps the order and its own account.
HoldOK(r) ==
  At(r, "claim", "order") \/ At(r, "claim", "commit") =>
    /\ Exists(r)
    /\ req[r].by \in customers
    /\ \A q \in Holding(req[r].id) : q = r

\* What the request that awards o knows of the order.
AwardOK(q, row) ==
  /\ row.status = "FINISHED"
  /\ q.amount = row.total - row.fee
  /\ q.pc \in {"check", "award"} =>
       /\ row.owner \in {q.to, None}
       /\ q.to \in customers => row.owner = q.to

\* What a request relies on as long as it is alone with its order.
RelyOK(r) ==
  LET q   == req[r]
      row == Row(r)
  IN  /\ q.pc = "award" => ~Awarded(q.id)
      /\ Exists(r) =>
           /\ q.kind = "cancel" /\ q.pc = "write" => row.status = "CONFIRMED"
           /\ q.kind = "ready" /\ q.pc = "write" =>
                /\ row.store = q.store
                /\ row.status \in {"CONFIRMED", "IN_PROGRESS"}
           /\ q.kind = "update" /\ q.pc = "write" =>
                /\ q.seen = SeenByEdit(row)
                /\ q.by # Admin => row.store = q.store /\ ~Closed(row)
           /\ q.kind = "claim" /\ q.pc \in {"link", "order", "commit"} =>
                row.owner = Guest
           /\ q.kind = "claim" /\ q.pc = "commit" =>
                q.seen = SeenByClaim(row)
           /\ q.pc \in {"owner", "check", "award"} => AwardOK(q, row)

RequestsOK ==
  \A r \in Reqs : /\ StageOK(r)
                  /\ HoldOK(r)
                  /\ req[r].id \in OrderIds \ overlapped => RelyOK(r)

\* One request at a time, where they have not been seen to overlap or the
\* order is only being made.
Alone ==
  \A r, q \in Reqs :
     /\ req[r].id = req[q].id
     /\ req[r].id \in OrderIds
     /\ req[r].id \in unused \/ req[r].id \notin overlapped
     => r = q

\* An order that is still to come has no row and no points.
UnusedOK == \A o \in unused : order[o] = None /\ ~Awarded(o)

\* The accounts of owners exist, and so do those that have points.
OwnersExist ==
  /\ \A o \in OrderIds : order[o] # None =>
       order[o].owner \in customers \cup {Guest, None}
  /\ \A o \in OrderIds : \A u \in Customers :
       awards[o][u] # <<>> => u \in customers

\* The points of an order are its owner's, and at most one award.
OneAward ==
  \A o \in OrderIds \ overlapped :
     /\ \A u \in Customers :
          awards[o][u] # <<>> =>
            /\ Len(awards[o][u]) = 1
            /\ order[o] # None => order[o].owner = u
     /\ \A u, v \in Customers :
          awards[o][u] # <<>> /\ awards[o][v] # <<>> => u = v

\* The request q is about to award o to its owner.
Rewards(q, o) ==
  /\ q.id = o
  /\ \/ q.pc = "owner"
     \/ q.pc \in {"check", "award"} /\ q.to = order[o].owner

\* A finished order of a customer that has no points.
Unpaid(o) ==
  /\ order[o] # None
  /\ order[o].status = "FINISHED"
  /\ order[o].owner \in Customers
  /\ ~Awarded(o)

\* It will have them.
RewardComes ==
  \A o \in OrderIds \ (overlapped \cup forgone) :
     Unpaid(o) => \E r \in Reqs : Rewards(req[r], o)

\* The requests that have found no award and are about to post one.
Due(o) == {r \in Reqs : req[r].pc = "award" /\ req[r].id = o}

\* Each of them was in flight when there was no award.
DueBounded ==
  \A o \in OrderIds : AwardCount(o) + Cardinality(Due(o)) <= Cardinality(Reqs)

\* The inductive invariant.
IInv ==
  /\ TypeOK
  /\ RequestsOK
  /\ Alone
  /\ UnusedOK
  /\ OwnersExist
  /\ OneAward
  /\ RewardComes
  /\ DueBounded
  /\ TotalCoversItems
  /\ FeeFollowsType

-----------------------------------------------------------------------------
(* Counting awards. *)

\* AwardCount of an order whose awards are a.
Count(a) == SumFunction([u \in Customers |-> Len(a[u])])

\* The awards of one customer and those of the others.
LEMMA CountSplit ==
  ASSUME NEW a \in [Customers -> Seq(Nat \ {0})], NEW v \in Customers
  PROVE  LET rest == SumFunctionOnSet([u \in Customers |-> Len(a[u])],
                                      Customers \ {v})
         IN  rest \in Nat /\ Count(a) = Len(a[v]) + rest
<1> DEFINE f == [u \in Customers |-> Len(a[u])]
           rest == SumFunctionOnSet(f, Customers \ {v})
<1>1. IsFiniteSet(Customers) /\ IsFiniteSet(Customers \ {v})
  <2>1. IsFiniteSet(Customers)
    BY OrdersAssumption
  <2> QED
    BY <2>1, FS_Subset
<1>2. \A u \in Customers : f[u] \in Nat /\ f[u] \in Int
  OBVIOUS
<1>3. SumFunction(f) = SumFunctionOnSet(f, Customers)
  BY DEF SumFunction
<1>4. f[v] = Len(a[v])
  OBVIOUS
<1> HIDE DEF f
<1>5. SumFunctionOnSet(f, Customers) = f[v] + rest
  BY <1>1, <1>2, SumSplit
<1>6. rest \in Nat
  BY <1>1, <1>2, SumOfNaturals
<1> QED
  BY <1>3, <1>4, <1>5, <1>6 DEF Count, f

\* No awards, no count.
LEMMA CountNone ==
  ASSUME NEW a \in [Customers -> Seq(Nat \ {0})]
  PROVE  /\ Count(a) \in Nat
         /\ (\A u \in Customers : a[u] = <<>>) => Count(a) = 0
<1> DEFINE f == [u \in Customers |-> Len(a[u])]
<1>1. IsFiniteSet(Customers)
  BY OrdersAssumption
<1>2. \A u \in Customers : f[u] \in Nat /\ f[u] \in Int
  OBVIOUS
<1>3. SumFunction(f) = SumFunctionOnSet(f, Customers)
  BY DEF SumFunction
<1>4. (\A u \in Customers : a[u] = <<>>) => \A u \in Customers : f[u] = 0
  OBVIOUS
<1> HIDE DEF f
<1>5. SumFunctionOnSet(f, Customers) \in Nat
  BY <1>1, <1>2, SumOfNaturals
<1>6. (\A u \in Customers : f[u] = 0) =>
        SumFunctionOnSet(f, Customers) = SumFunctionOnSet(f, {})
  BY <1>1, <1>2, SumOfSupport
<1>7. SumFunctionOnSet(f, {}) = 0
  BY SumOfNone
<1> QED
  BY <1>3, <1>4, <1>5, <1>6, <1>7 DEF Count, f

\* One award to one customer counts one.
LEMMA CountOne ==
  ASSUME NEW a \in [Customers -> Seq(Nat \ {0})],
         \A u \in Customers : a[u] # <<>> => Len(a[u]) = 1,
         \A u, v \in Customers : a[u] # <<>> /\ a[v] # <<>> => u = v
  PROVE  Count(a) <= 1
<1>1. CASE \A u \in Customers : a[u] = <<>>
  BY <1>1, CountNone
<1>2. ASSUME NEW v \in Customers, a[v] # <<>>
      PROVE  Count(a) <= 1
  <2> DEFINE f == [u \in Customers |-> Len(a[u])]
             rest == SumFunctionOnSet(f, Customers \ {v})
  <2>1. Count(a) = Len(a[v]) + rest
    BY CountSplit
  <2>2. IsFiniteSet(Customers \ {v})
    BY OrdersAssumption, FS_Subset
  <2>3. \A u \in Customers \ {v} : f[u] = 0
    BY <1>2
  <2> HIDE DEF f
  <2>4. rest = SumFunctionOnSet(f, {})
    BY <2>2, <2>3, SumOfSupport
  <2>5. rest = 0
    BY <2>4, SumOfNone
  <2>6. Len(a[v]) = 1
    BY <1>2
  <2> HIDE DEF rest
  <2> QED
    BY <2>1, <2>5, <2>6
<1> QED
  BY <1>1, <1>2

\* What changes for one customer changes the count by as much.
LEMMA CountChanged ==
  ASSUME NEW a \in [Customers -> Seq(Nat \ {0})], NEW v \in Customers,
         NEW s \in Seq(Nat \ {0})
  PROVE  Count([a EXCEPT ![v] = s]) = Count(a) + Len(s) - Len(a[v])
<1> DEFINE b == [a EXCEPT ![v] = s]
           f == [u \in Customers |-> Len(a[u])]
           g == [u \in Customers |-> Len(b[u])]
           C == Customers \ {v}
<1>1. b \in [Customers -> Seq(Nat \ {0})] /\ b[v] = s
  OBVIOUS
<1>2. \A u \in C : f[u] \in Int /\ f[u] = g[u]
  OBVIOUS
<1>3. /\ SumFunctionOnSet(f, C) \in Nat
      /\ Count(a) = Len(a[v]) + SumFunctionOnSet(f, C)
  BY CountSplit
<1> HIDE DEF b
<1>4. Count(b) = Len(s) + SumFunctionOnSet(g, C)
  BY <1>1, CountSplit
<1>5. SumFunctionOnSet(f, C) = SumFunctionOnSet(g, C)
  <2>1. IsFiniteSet(C)
    BY OrdersAssumption, FS_Subset
  <2> HIDE DEF f, g, C
  <2> QED
    BY <1>2, <2>1, SumOfSame
<1>6. Len(a[v]) \in Nat /\ Len(s) \in Nat
  OBVIOUS
<1> HIDE DEF f, g, C
<1> QED
  BY <1>3, <1>4, <1>5, <1>6 DEF b

\* The total of natural prices and quantities is natural.
LEMMA LinesTotalType ==
  ASSUME NEW lines \in [MenuItems -> OrderLine]
  PROVE  LinesTotal(lines) \in Nat
<1> DEFINE f == [i \in MenuItems |-> lines[i].quantity * lines[i].price]
<1>1. \A i \in MenuItems : lines[i].quantity \in Nat /\ lines[i].price \in Nat
  BY DEF OrderLine
<1>2. \A i \in MenuItems : f[i] \in Nat
  BY <1>1
<1>3. SumFunction(f) = SumFunctionOnSet(f, MenuItems)
  BY DEF SumFunction
<1> HIDE DEF f
<1>4. SumFunctionOnSet(f, MenuItems) \in Nat
  BY <1>2, OrdersAssumption, SumOfNaturals
<1> QED
  BY <1>3, <1>4 DEF LinesTotal, f

-----------------------------------------------------------------------------
(* Requests that arrive, move on or break off. *)

\* A slot with no request has its type.
LEMMA IdleType == Idle \in ReqRow /\ Idle.id = None /\ Idle.pc = "idle"
  BY DEF Idle, ReqRow, Places

\* The null value is no order, customer or stored row.
LEMMA NullApart ==
  /\ None \notin OrderIds /\ None \notin Customers /\ None # Guest
  /\ None \notin OrderRow /\ Guest \notin Customers
  BY OrdersAssumption

\* The invariant holds at the start.
LEMMA InitInvariant == Init => IInv
<1> SUFFICES ASSUME Init PROVE IInv
  OBVIOUS
<1> USE IdleType, NullApart DEF Init
<1>1. TypeOK
  <2>1. awards \in [OrderIds -> [Customers -> Seq(Nat \ {0})]]
    OBVIOUS
  <2> QED
    BY <2>1 DEF TypeOK
<1>2. RequestsOK /\ Alone
  BY DEF RequestsOK, StageOK, HoldOK, At, Alone
<1>3. UnusedOK /\ OwnersExist /\ OneAward
  BY DEF UnusedOK, OwnersExist, OneAward, Awarded
<1>4. RewardComes /\ TotalCoversItems /\ FeeFollowsType
  BY DEF RewardComes, Unpaid, TotalCoversItems, FeeFollowsType
<1>5. DueBounded
  <2> SUFFICES ASSUME NEW o \in OrderIds
               PROVE  AwardCount(o) + Cardinality(Due(o)) <= Cardinality(Reqs)
    BY DEF DueBounded
  <2>1. Due(o) = {}
    BY DEF Due
  <2>2. Cardinality(Due(o)) = 0
    BY <2>1, FS_EmptySet
  <2>3. AwardCount(o) = 0
    <3>1. awards[o] = [u \in Customers |-> <<>>]
      OBVIOUS
    <3>2. /\ awards[o] \in [Customers -> Seq(Nat \ {0})]
          /\ \A u \in Customers : awards[o][u] = <<>>
      BY <3>1
    <3> QED
      BY <3>2, CountNone DEF AwardCount, Count
  <2>4. Cardinality(Reqs) \in Nat
    BY OrdersAssumption, FS_CardinalityType
  <2> QED
    BY <2>2, <2>3, <2>4
<1> QED
  BY <1>1, <1>2, <1>3, <1>4, <1>5 DEF IInv

\* What a request relies on stays so when another request changes no more
\* than the order it is about.
LEMMA OthersRely ==
  ASSUME IInv, NEW r \in Reqs,
         \A q \in Reqs \ {r} : req'[q] = req[q],
         customers' = customers, overlapped \subseteq overlapped',
         unused' \subseteq unused, unused \ unused' \subseteq {req[r].id},
         \A o \in OrderIds \ {req[r].id} :
           order'[o] = order[o] /\ awards'[o] = awards[o],
         NEW q \in Reqs \ {r}
  PROVE  /\ StageOK(q)'
         /\ req'[q].id \in OrderIds \ overlapped' => RelyOK(q)'
<1>1. /\ StageOK(q) /\ req'[q] = req[q]
      /\ req[q].id \in OrderIds \ overlapped => RelyOK(q)
  BY DEF IInv, RequestsOK
<1>2. StageOK(q)'
  <2>1. req[q].id \in unused => req[q].id \in unused'
    <3>1. req[q].id \in unused => req[q].id \in OrderIds
      BY DEF IInv, TypeOK
    <3>2. req[q].id \in unused => req[q].id # req[r].id
      BY <3>1 DEF IInv, Alone
    <3> QED
      BY <3>2
  <2>2. req[q].id \in OrderIds \ unused => req[q].id \in OrderIds \ unused'
    OBVIOUS
  <2>3. /\ PlaceStage(req[q]) => PlaceStage(req'[q])
        /\ InStoreStage(req[q]) => InStoreStage(req'[q])
        /\ CancelStage(req[q]) => CancelStage(req'[q])
        /\ ClaimStage(req[q]) => ClaimStage(req'[q])
        /\ ReadyStage(req[q]) => ReadyStage(req'[q])
        /\ UpdateStage(req[q]) => UpdateStage(req'[q])
        /\ AwardStage(req[q]) => AwardStage(req'[q])
    BY <1>1
  <2> QED
    BY <1>1, <2>1, <2>2, <2>3 DEF StageOK
<1>3. ASSUME req'[q].id \in OrderIds \ overlapped'
      PROVE  RelyOK(q)'
  <2>1. req[q].id \in OrderIds \ overlapped
    BY <1>1, <1>3
  <2>2. req[q].id # req[r].id
    BY <2>1 DEF IInv, Alone
  <2>3. /\ order'[req[q].id] = order[req[q].id]
        /\ awards'[req[q].id] = awards[req[q].id]
    BY <2>1, <2>2
  <2>4. RelyOK(q)
    BY <1>1, <2>1
  <2> QED
    BY <1>1, <2>3, <2>4
       DEF RelyOK, Exists, Row, SeenByEdit, SeenByClaim, Closed, AwardOK,
           Awarded
<1> QED
  BY <1>2, <1>3

\* A request goes on, and may rely on what it relies on then: so may the
\* others, if it does not become another holder of the link.
LEMMA RequestMoves ==
  ASSUME IInv, NEW r \in Reqs, NEW row \in ReqRow,
         req' = [req EXCEPT ![r] = row],
         customers' = customers, overlapped \subseteq overlapped',
         unused' \subseteq unused, unused \ unused' \subseteq {req[r].id},
         \A o \in OrderIds \ {req[r].id} :
           order'[o] = order[o] /\ awards'[o] = awards[o],
         \A o \in OrderIds : order[o] # None => order'[o] # None,
         \/ row.id \in {req[r].id, None}
         \/ Handling(row.id) = {}
         \/ row.id \in overlapped' \ unused,
         row.kind = "claim" /\ row.pc \in {"order", "commit"} =>
           /\ Exists(r)' /\ row.by \in customers
           /\ row.id \in OrderIds
           /\ r \in Holding(row.id) \/ Holding(row.id) = {},
         StageOK(r)',
         row.id \in OrderIds \ overlapped' => RelyOK(r)'
  PROVE  RequestsOK' /\ Alone'
<1>1. /\ req'[r] = row
      /\ \A q \in Reqs \ {r} : req'[q] = req[q]
  BY DEF IInv, TypeOK
<1>2. Alone'
  <2>1. ASSUME NEW q \in Reqs \ {r}, req'[q].id = row.id, row.id \in OrderIds,
               row.id \in unused' \/ row.id \notin overlapped'
        PROVE  FALSE
    <3>1. req[q].id = row.id
      BY <1>1, <2>1
    <3>2. row.id \in unused \/ row.id \notin overlapped
      BY <2>1
    <3>3. row.id # None
      BY <2>1, NullApart
    <3>4. row.id # req[r].id
      BY <3>1, <3>2, <2>1 DEF IInv, Alone
    <3>5. q \in Handling(row.id)
      BY <3>1 DEF Handling
    <3>6. row.id \in overlapped' \ unused
      BY <3>3, <3>4, <3>5
    <3> QED
      BY <2>1, <3>6
  <2>2. ASSUME NEW p \in Reqs \ {r}, NEW q \in Reqs \ {r},
               req'[p].id = req'[q].id, req'[p].id \in OrderIds,
               req'[p].id \in unused' \/ req'[p].id \notin overlapped'
        PROVE  p = q
    BY <1>1, <2>2 DEF IInv, Alone
  <2> QED
    BY <1>1, <2>1, <2>2 DEF Alone
<1>3. ASSUME NEW q \in Reqs
      PROVE  HoldOK(q)'
  <2> DEFINE Holds(x) == x.kind = "claim" /\ x.pc \in {"order", "commit"}
  <2> SUFFICES ASSUME Holds(req'[q])
               PROVE  /\ Exists(q)' /\ req'[q].by \in customers
                      /\ \A p \in Reqs : req'[p].id = req'[q].id
                                           /\ Holds(req'[p]) => p = q
    BY DEF HoldOK, At, Holding, Handling
  <2>1. ASSUME NEW p \in Reqs, Holds(req[p])
        PROVE  /\ Exists(p) /\ req[p].by \in customers
               /\ req[p].id \in OrderIds /\ p \in Holding(req[p].id)
               /\ \A x \in Holding(req[p].id) : x = p
    <3>1. HoldOK(p) /\ StageOK(p)
      BY DEF IInv, RequestsOK
    <3>2. req[p].id \in OrderIds
      BY <2>1, <3>1 DEF StageOK, IInv, TypeOK
    <3> QED
      BY <2>1, <3>1, <3>2 DEF HoldOK, At, Holding, Handling
  <2>2. Exists(q)' /\ req'[q].by \in customers
    <3>1. CASE q = r
      BY <3>1, <1>1
    <3>2. CASE q # r
      BY <3>2, <1>1, <2>1 DEF Exists, Row
    <3> QED
      BY <3>1, <3>2
  <2>3. ASSUME NEW p \in Reqs \ {r}, req'[p].id = row.id,
               Holds(req'[p]), Holds(row)
        PROVE  FALSE
    <3>1. p \in Holding(row.id) /\ r \in Holding(row.id)
      BY <1>1, <2>3 DEF Holding, Handling
    <3> QED
      BY <1>1, <2>1, <2>3, <3>1
  <2>4. ASSUME NEW p \in Reqs, req'[p].id = req'[q].id, Holds(req'[p])
        PROVE  p = q
    <3>1. CASE p # r /\ q # r
      BY <3>1, <1>1, <2>1, <2>4 DEF Holding, Handling
    <3>2. CASE p = r \/ q = r
      BY <3>2, <1>1, <2>3, <2>4
    <3> QED
      BY <3>1, <3>2
  <2> QED
    BY <2>2, <2>4
<1>4. ASSUME NEW q \in Reqs
      PROVE  /\ StageOK(q)'
             /\ req'[q].id \in OrderIds \ overlapped' => RelyOK(q)'
  <2>1. CASE q = r
    BY <2>1, <1>1
  <2>2. CASE q # r
    BY <2>2, <1>1, OthersRely
  <2> QED
    BY <2>1, <2>2
<1> QED
  BY <1>2, <1>3, <1>4 DEF RequestsOK

\* Awards of an order that has none count nothing.
LEMMA AwardCounts ==
  ASSUME TypeOK, NEW o \in OrderIds
  PROVE  /\ AwardCount(o) \in Nat
         /\ ~Awarded(o) => AwardCount(o) = 0
<1>1. awards[o] \in [Customers -> Seq(Nat \ {0})]
  BY DEF TypeOK
<1> QED
  BY <1>1, CountNone DEF AwardCount, Count, Awarded

\* Requests that may still award an order are requests.
LEMMA DueCounts ==
  \A o : /\ IsFiniteSet(Due(o))
         /\ Cardinality(Due(o)) \in Nat
         /\ Cardinality(Due(o)) <= Cardinality(Reqs)
         /\ Cardinality(Reqs) \in Nat
<1> SUFFICES ASSUME NEW o
             PROVE  /\ IsFiniteSet(Due(o))
                    /\ Cardinality(Due(o)) \in Nat
                    /\ Cardinality(Due(o)) <= Cardinality(Reqs)
                    /\ Cardinality(Reqs) \in Nat
  OBVIOUS
<1>1. IsFiniteSet(Reqs) /\ Due(o) \in SUBSET Reqs
  BY OrdersAssumption DEF Due
<1> QED
  BY <1>1, FS_Subset, FS_CardinalityType

\* A request that does not become due, or becomes so when there is no award,
\* keeps the bound.
LEMMA DueStaysBounded ==
  ASSUME IInv, NEW r \in Reqs, NEW row,
         req' = [req EXCEPT ![r] = row], awards' = awards,
         row.pc = "award" => ~Awarded(row.id)
  PROVE  DueBounded'
<1> SUFFICES ASSUME NEW o \in OrderIds
             PROVE  AwardCount(o)' + Cardinality(Due(o)') <= Cardinality(Reqs)
  BY DEF DueBounded
<1>1. /\ AwardCount(o) \in Nat
      /\ ~Awarded(o) => AwardCount(o) = 0
      /\ AwardCount(o) + Cardinality(Due(o)) <= Cardinality(Reqs)
      /\ AwardCount(o)' = AwardCount(o)
  BY AwardCounts DEF IInv, DueBounded, AwardCount
<1>2. \A q \in Reqs : req'[q] = IF q = r THEN row ELSE req[q]
  BY DEF IInv, TypeOK
<1>3. IsFiniteSet(Reqs) /\ Due(o)' \in SUBSET Reqs
  BY OrdersAssumption DEF Due
<1>4. CASE row.pc = "award" /\ row.id = o
  <2>1. AwardCount(o) = 0
    BY <1>1, <1>4
  <2>2. /\ Cardinality(Due(o)') <= Cardinality(Reqs)
        /\ Cardinality(Due(o)') \in Nat
    BY <1>3, FS_Subset, FS_CardinalityType
  <2> QED
    BY <1>1, <2>1, <2>2
<1>5. CASE ~(row.pc = "award" /\ row.id = o)
  <2>1. Due(o)' \in SUBSET Due(o)
    BY <1>2, <1>5 DEF Due
  <2>2. /\ Cardinality(Due(o)') <= Cardinality(Due(o))
        /\ Cardinality(Due(o)') \in Nat /\ Cardinality(Due(o)) \in Nat
        /\ Cardinality(Reqs) \in Nat
    BY <2>1, DueCounts, FS_Subset, FS_CardinalityType
  <2> QED
    BY <1>1, <2>2
<1> QED
  BY <1>4, <1>5

\* A step that changes no table.
LEMMA LocalStep ==
  ASSUME IInv, NEW r \in Reqs, NEW row \in ReqRow,
         req' = [req EXCEPT ![r] = row], UNCHANGED tables,
         overlapped \subseteq overlapped', overlapped' \subseteq OrderIds,
         forgone \subseteq forgone', forgone' \subseteq OrderIds,
         \/ row.id \in {req[r].id, None}
         \/ Handling(row.id) = {}
         \/ row.id \in overlapped' \ unused,
         row.kind = "claim" /\ row.pc \in {"order", "commit"} =>
           /\ Exists(r)' /\ row.by \in customers
           /\ row.id \in OrderIds
           /\ r \in Holding(row.id) \/ Holding(row.id) = {},
         StageOK(r)',
         row.id \in OrderIds \ overlapped' => RelyOK(r)',
         row.pc = "award" => ~Awarded(row.id),
         \A o \in OrderIds \ (overlapped' \cup forgone') :
           Unpaid(o) /\ Rewards(req[r], o) => Rewards(row, o)
  PROVE  IInv'
<1>1. /\ req' \in [Reqs -> ReqRow] /\ req'[r] = row
      /\ \A q \in Reqs \ {r} : req'[q] = req[q]
  BY DEF IInv, TypeOK
<1>2. UNCHANGED <<customers, unused, order, awards>>
  BY DEF tables
<1>3. TypeOK'
  BY <1>1, <1>2 DEF IInv, TypeOK
<1>4. RequestsOK' /\ Alone'
  BY <1>2, RequestMoves
<1>5. UnusedOK' /\ OwnersExist' /\ OneAward'
  BY <1>2 DEF IInv, UnusedOK, OwnersExist, OneAward, Awarded
<1>6. RewardComes'
  <2> SUFFICES ASSUME NEW o \in OrderIds \ (overlapped' \cup forgone'),
                      Unpaid(o)'
               PROVE  \E q \in Reqs : Rewards(req[q], o)'
    BY DEF RewardComes
  <2>1. Unpaid(o)
    BY <1>2 DEF Unpaid, Awarded
  <2>2. PICK q \in Reqs : Rewards(req[q], o)
    BY <2>1 DEF IInv, RewardComes
  <2>3. Rewards(req'[q], o)
    BY <1>1, <2>1, <2>2
  <2> QED
    BY <1>2, <2>3 DEF Rewards
<1>7. DueBounded'
  BY <1>2, DueStaysBounded
<1>8. TotalCoversItems' /\ FeeFollowsType'
  BY <1>2 DEF IInv, TotalCoversItems, FeeFollowsType, LinesTotal, FeeOf
<1> QED
  BY <1>3, <1>4, <1>5, <1>6, <1>7, <1>8 DEF IInv

\* A step that writes the order the request is about.
LEMMA WriteStep ==
  ASSUME IInv, NEW r \in Reqs, NEW row \in ReqRow, NEW new \in OrderRow,
         NEW id \in OrderIds, req[r].id = id,
         req' = [req EXCEPT ![r] = row],
         order' = [order EXCEPT ![id] = new],
         UNCHANGED <<customers, awards, history>>,
         unused' = unused \ {id},
         row.id \in {id, None},
         row.pc \notin {"order", "commit", "award"},
         StageOK(r)',
         row.id \in OrderIds \ overlapped => RelyOK(r)',
         new.owner \in customers \cup {Guest, None},
         new.fee = FeeOf(new.type),
         id \notin overlapped =>
           /\ ~new.byHand => new.total = LinesTotal(new.lines) + new.fee
           /\ \A u \in Customers :
                awards[id][u] # <<>> => new.owner = u,
         /\ id \notin overlapped \cup forgone
         /\ Unpaid(id)'
         => /\ row.id = id
            /\ \/ row.pc = "owner"
               \/ row.pc = "check" /\ row.to = new.owner
  PROVE  IInv'
<1>1. /\ req' \in [Reqs -> ReqRow] /\ req'[r] = row
      /\ \A q \in Reqs \ {r} : req'[q] = req[q]
  BY DEF IInv, TypeOK
<1>2. /\ order' \in [OrderIds -> OrderRow \cup {None}] /\ order'[id] = new
      /\ \A o \in OrderIds \ {id} : order'[o] = order[o]
  BY DEF IInv, TypeOK
<1>3. /\ UNCHANGED <<customers, awards, overlapped, forgone>>
      /\ new # None
  BY NullApart DEF history
<1>4. TypeOK'
  BY <1>1, <1>2, <1>3 DEF IInv, TypeOK
<1>5. RequestsOK' /\ Alone'
  <2>1. \A o \in OrderIds : order[o] # None => order'[o] # None
    BY <1>2, <1>3
  <2> QED
    BY <1>2, <1>3, <2>1, RequestMoves
<1>6. UnusedOK' /\ OwnersExist' /\ OneAward'
  <2> USE <1>2, <1>3
  <2>1. UnusedOK'
    BY DEF IInv, TypeOK, UnusedOK, Awarded
  <2>2. OwnersExist'
    BY DEF IInv, OwnersExist
  <2>3. OneAward'
    BY DEF IInv, OneAward
  <2> QED
    BY <2>1, <2>2, <2>3
<1>7. RewardComes'
  <2> SUFFICES ASSUME NEW o \in OrderIds \ (overlapped \cup forgone),
                      Unpaid(o)'
               PROVE  \E q \in Reqs : Rewards(req[q], o)'
    BY <1>3 DEF RewardComes
  <2>1. CASE o = id
    BY <2>1, <1>1, <1>2 DEF Rewards
  <2>2. CASE o # id
    <3>1. Unpaid(o)
      BY <2>2, <1>2, <1>3 DEF Unpaid, Awarded
    <3>2. PICK q \in Reqs : Rewards(req[q], o)
      BY <3>1 DEF IInv, RewardComes
    <3>3. q # r
      BY <2>2, <3>2 DEF Rewards
    <3> QED
      BY <2>2, <3>2, <3>3, <1>1, <1>2 DEF Rewards
  <2> QED
    BY <2>1, <2>2
<1>8. DueBounded'
  BY <1>3, DueStaysBounded
<1>9. TotalCoversItems' /\ FeeFollowsType'
  <2>1. TotalCoversItems'
    BY <1>2, <1>3 DEF IInv, TotalCoversItems, LinesTotal
  <2>2. FeeFollowsType'
    BY <1>2 DEF IInv, FeeFollowsType, FeeOf
  <2> QED
    BY <2>1, <2>2
<1> QED
  BY <1>4, <1>5, <1>6, <1>7, <1>8, <1>9 DEF IInv

\* A request that moves on within its handler.
LEMMA GoOn ==
  ASSUME IInv, NEW r \in Reqs, NEW row \in ReqRow,
         req' = [req EXCEPT ![r] = row], Reading,
         row.id = req[r].id,
         req[r].pc \notin {"owner", "check", "award"},
         row.pc # "award",
         ~(row.kind = "claim" /\ row.pc \in {"order", "commit"}),
         StageOK(r)',
         row.id \in OrderIds \ overlapped => RelyOK(r)'
  PROVE  IInv'
<1>1. UNCHANGED tables /\ UNCHANGED <<overlapped, forgone>>
  BY DEF Reading, history
<1>2. overlapped \subseteq OrderIds /\ forgone \subseteq OrderIds
  BY DEF IInv, TypeOK
<1>3. \A o : ~Rewards(req[r], o)
  BY DEF Rewards
<1> QED
  BY <1>1, <1>2, <1>3, LocalStep

\* A request that is over, unless an award is lost with it unrecorded.
LEMMA EndStep ==
  ASSUME IInv, NEW r \in Reqs, Done(r), UNCHANGED <<tables, overlapped>>,
         forgone \subseteq forgone', forgone' \subseteq OrderIds,
         \A o \in OrderIds \ (overlapped \cup forgone') :
           Unpaid(o) => ~Rewards(req[r], o)
  PROVE  IInv'
<1>1. req' = [req EXCEPT ![r] = Idle] /\ req'[r] = Idle
  BY DEF Done, IInv, TypeOK
<1>2. StageOK(r)'
  BY <1>1, IdleType DEF StageOK
<1>3. overlapped \subseteq OrderIds
  BY DEF IInv, TypeOK
<1> QED
  BY <1>1, <1>2, <1>3, IdleType, NullApart, LocalStep

\* A handler that throws before it commits anything.
LEMMA ThrowStep ==
  ASSUME IInv, NEW r \in Reqs, Throw(r),
         req[r].pc \notin {"owner", "check", "award"}
  PROVE  IInv'
<1>1. Done(r) /\ UNCHANGED <<tables, overlapped, forgone>>
  BY DEF Throw, Reading, history
<1>2. forgone \subseteq OrderIds
  BY DEF IInv, TypeOK
<1>3. \A o : ~Rewards(req[r], o)
  BY DEF Rewards
<1> QED
  BY <1>1, <1>2, <1>3, EndStep

\* What kind and pc say of a request.
LEMMA StageOf ==
  ASSUME IInv, NEW r \in Reqs
  PROVE  /\ req[r] \in ReqRow
         /\ req[r].pc # "idle" => req[r].id \in OrderIds
         /\ req[r].pc # "idle" =>
              /\ req[r].kind = "place" =>
                   req[r].id \in unused /\ PlaceStage(req[r])
              /\ req[r].kind = "inStore" =>
                   req[r].id \in unused /\ InStoreStage(req[r])
              /\ req[r].kind = "cancel" =>
                   req[r].id \notin unused /\ CancelStage(req[r])
              /\ req[r].kind = "claim" =>
                   req[r].id \notin unused /\ ClaimStage(req[r])
              /\ req[r].kind = "ready" =>
                   req[r].id \notin unused /\ ReadyStage(req[r])
              /\ req[r].kind = "update" =>
                   req[r].id \notin unused /\ UpdateStage(req[r])
              /\ req[r].pc \in {"owner", "check", "award"} =>
                   req[r].id \notin unused /\ AwardStage(req[r])
         /\ req[r].pc = "post" =>
              req[r].kind \in {"inStore", "ready", "update"}
<1>1. /\ req[r] \in ReqRow /\ StageOK(r)
      /\ unused \subseteq OrderIds
  BY DEF IInv, TypeOK, RequestsOK
<1>2. req[r].pc # "idle" => req[r].id \in OrderIds
  BY <1>1 DEF StageOK
<1> QED
  BY <1>1, <1>2
     DEF StageOK, PlaceStage, InStoreStage, CancelStage, ClaimStage,
         ReadyStage, UpdateStage, AwardStage

-----------------------------------------------------------------------------
(* Arrivals, and what cashiers' handlers share. *)

\* The requests that Start admits.
MayArrive(kind, pc, o, by, dto) ==
  \/ /\ New(o) /\ kind = "place" /\ pc = "menu"
     /\ by \in Customers \cup {Guest} /\ dto \in Purchases
  \/ /\ New(o) /\ kind = "inStore" /\ pc = "post"
     /\ by \in Cashiers /\ dto \in Sale
  \/ /\ o \notin unused /\ kind \in {"cancel", "claim"} /\ pc = "read"
     /\ by \in Customers /\ dto = None
  \/ /\ o \notin unused /\ kind = "ready" /\ pc = "post"
     /\ by \in Cashiers /\ dto = None
  \/ /\ o \notin unused /\ kind = "update" /\ pc \in {"read", "post"}
     /\ by \in Cashiers \cup {Admin} /\ dto \in Edits

\* A request arrives; the order it is about may be in hand already.
LEMMA StartStep ==
  ASSUME IInv, NEW r \in Reqs, NEW o \in OrderIds, Start(r, o)
  PROVE  IInv'
<1>1. PICK kind, pc, by, dto :
        Arrive(r, kind, pc, o, by, dto) /\ MayArrive(kind, pc, o, by, dto)
  <2>1. CASE \E u \in customers \cup {Guest}, dto \in Purchases :
               New(o) /\ Arrive(r, "place", "menu", o, u, dto)
    <3>1. PICK u \in customers \cup {Guest}, dto \in Purchases :
            New(o) /\ Arrive(r, "place", "menu", o, u, dto)
      BY <2>1
    <3>2. MayArrive("place", "menu", o, u, dto)
      BY <3>1 DEF MayArrive, IInv, TypeOK
    <3> QED
      BY <3>1, <3>2
  <2>2. CASE \E k \in Cashiers, u \in Customers \cup {Guest}, a \in Amounts :
               New(o) /\ Arrive(r, "inStore", "post", o, k,
                                [customer |-> u, total |-> a])
    <3>1. PICK k \in Cashiers, u \in Customers \cup {Guest}, a \in Amounts :
            New(o) /\ Arrive(r, "inStore", "post", o, k,
                             [customer |-> u, total |-> a])
      BY <2>2
    <3>2. [customer |-> u, total |-> a] \in Sale
      BY DEF Sale
    <3>3. MayArrive("inStore", "post", o, k, [customer |-> u, total |-> a])
      BY <3>1, <3>2 DEF MayArrive
    <3> QED
      BY <3>1, <3>3
  <2>3. CASE \E u \in customers : o \notin unused
               /\ (Arrive(r, "cancel", "read", o, u, None)
                     \/ Arrive(r, "claim", "read", o, u, None))
    <3>1. PICK u \in customers, kind \in {"cancel", "claim"} :
            o \notin unused /\ Arrive(r, kind, "read", o, u, None)
      BY <2>3
    <3>2. MayArrive(kind, "read", o, u, None)
      BY <3>1 DEF MayArrive, IInv, TypeOK
    <3> QED
      BY <3>1, <3>2
  <2>4. CASE \E k \in Cashiers :
               o \notin unused /\ Arrive(r, "ready", "post", o, k, None)
    <3>1. PICK k \in Cashiers :
            o \notin unused /\ Arrive(r, "ready", "post", o, k, None)
      BY <2>4
    <3>2. MayArrive("ready", "post", o, k, None)
      BY <3>1 DEF MayArrive
    <3> QED
      BY <3>1, <3>2
  <2>5. CASE \E dto \in Edits, by \in Cashiers \cup {Admin},
                pc \in {"read", "post"} :
               o \notin unused /\ Arrive(r, "update", pc, o, by, dto)
    <3>1. PICK dto \in Edits, by \in Cashiers \cup {Admin},
               pc \in {"read", "post"} :
            o \notin unused /\ Arrive(r, "update", pc, o, by, dto)
      BY <2>5
    <3>2. MayArrive("update", pc, o, by, dto)
      BY <3>1 DEF MayArrive
    <3> QED
      BY <3>1, <3>2
  <2> QED
    BY <2>1, <2>2, <2>3, <2>4, <2>5 DEF Start
<1> DEFINE row == [req[r] EXCEPT !.pc = pc, !.kind = kind, !.id = o,
                                 !.by = by, !.dto = dto]
<1>2. /\ req[r] \in ReqRow /\ req[r].pc = "idle"
      /\ req' = [req EXCEPT ![r] = row]
      /\ overlapped' = IF Handling(o) # {} THEN overlapped \cup {o}
                                           ELSE overlapped
      /\ UNCHANGED <<tables, forgone>>
  BY <1>1 DEF Arrive, IInv, TypeOK
<1>3. /\ row \in ReqRow /\ row.pc = pc /\ row.kind = kind /\ row.id = o
      /\ row.by = by /\ row.dto = dto
  <2>1. kind \in Kinds
    BY <1>1 DEF MayArrive, Kinds
  <2>2. pc \in Places
    BY <1>1 DEF MayArrive, Places
  <2>3. by \in Customers \cup Cashiers \cup {Guest, Admin}
    BY <1>1 DEF MayArrive
  <2>4. dto \in Purchases \cup Edits \cup Sale \cup {None}
    BY <1>1 DEF MayArrive
  <2>5. /\ row.pc = pc /\ row.kind = kind /\ row.id = o
        /\ row.by = by /\ row.dto = dto
    BY <1>2 DEF ReqRow
  <2> DEFINE one   == [req[r] EXCEPT !.pc = pc, !.kind = kind]
             two   == [one EXCEPT !.id = o]
             three == [two EXCEPT !.by = by]
  <2>6. row = [three EXCEPT !.dto = dto]
    BY <1>2 DEF ReqRow
  <2>7. one \in ReqRow
    BY <1>2, <2>1, <2>2 DEF ReqRow
  <2> HIDE DEF one, row
  <2>8. two \in ReqRow
    BY <2>7 DEF ReqRow
  <2> HIDE DEF two
  <2>9. three \in ReqRow
    BY <2>3, <2>8 DEF ReqRow
  <2> HIDE DEF three
  <2>10. row \in ReqRow
    BY <2>4, <2>6, <2>9 DEF ReqRow
  <2> QED
    BY <2>5, <2>10
<1> HIDE DEF row
<1>4. req'[r] = row
  BY <1>2 DEF IInv, TypeOK
<1>5. StageOK(r)'
  <2>1. UNCHANGED unused
    BY <1>2 DEF tables
  <2>2. New(o) => o \in unused
    BY DEF New
  <2> QED
    BY <1>1, <1>3, <1>4, <2>1, <2>2
       DEF MayArrive, StageOK, PlaceStage, InStoreStage, CancelStage,
           ClaimStage, ReadyStage, UpdateStage
<1>6. RelyOK(r)'
  BY <1>1, <1>3, <1>4 DEF MayArrive, RelyOK
<1>7. Handling(o) = {} \/ o \in overlapped' \ unused
  BY <1>1, <1>2 DEF MayArrive, New
<1>8. \A p : ~Rewards(req[r], p)
  BY <1>2 DEF Rewards
<1>9. /\ overlapped \subseteq overlapped' /\ overlapped' \subseteq OrderIds
      /\ forgone' = forgone /\ forgone \subseteq OrderIds
  BY <1>2 DEF IInv, TypeOK
<1>10. ~(row.kind = "claim" /\ row.pc \in {"order", "commit"})
       /\ row.pc # "award"
  BY <1>1, <1>3 DEF MayArrive
<1> QED
  BY <1>2, <1>3, <1>5, <1>6, <1>7, <1>8, <1>9, <1>10, LocalStep

\* What a request remembers when it moves on.
Moved(q, pc) == [q EXCEPT !.pc = pc]
WithStore(q, pc, v) == [q EXCEPT !.pc = pc, !.store = v]
WithLines(q, pc, v) == [q EXCEPT !.pc = pc, !.lines = v]
WithSeen(q, pc, v) == [q EXCEPT !.pc = pc, !.seen = v]
WithTo(q, pc, v) == [q EXCEPT !.pc = pc, !.to = v]

\* It only moves on.
LEMMA PlaceChanges ==
  ASSUME NEW q \in ReqRow, NEW pc \in Places
  PROVE  LET w == Moved(q, pc)
         IN  /\ w \in ReqRow /\ w.pc = pc
             /\ w.kind = q.kind /\ w.id = q.id /\ w.by = q.by
             /\ w.dto = q.dto /\ w.store = q.store /\ w.lines = q.lines
             /\ w.seen = q.seen /\ w.to = q.to /\ w.amount = q.amount
BY DEF ReqRow, Moved

\* The store of the cashier is kept.
LEMMA StoreIsKnown ==
  ASSUME NEW q \in ReqRow, NEW pc \in Places,
         NEW v \in Stores
  PROVE  LET w == WithStore(q, pc, v)
         IN  /\ w \in ReqRow /\ w.pc = pc /\ w.store = v
             /\ w.kind = q.kind /\ w.id = q.id /\ w.by = q.by
             /\ w.dto = q.dto /\ w.lines = q.lines /\ w.seen = q.seen
             /\ w.to = q.to /\ w.amount = q.amount
<1> DEFINE one == [q EXCEPT !.pc = pc]
           w   == [one EXCEPT !.store = v]
<1>1. w = WithStore(q, pc, v)
  BY DEF ReqRow, WithStore
<1>2. /\ one \in ReqRow /\ one.pc = pc
      /\ one.kind = q.kind /\ one.id = q.id /\ one.by = q.by
      /\ one.dto = q.dto /\ one.lines = q.lines /\ one.seen = q.seen
      /\ one.to = q.to /\ one.amount = q.amount
  BY PlaceChanges DEF Moved
<1> HIDE DEF one
<1>3. /\ w \in ReqRow /\ w.pc = pc /\ w.store = v
      /\ w.kind = q.kind /\ w.id = q.id /\ w.by = q.by
      /\ w.dto = q.dto /\ w.lines = q.lines /\ w.seen = q.seen
      /\ w.to = q.to /\ w.amount = q.amount
  BY <1>2 DEF ReqRow
<1> HIDE DEF w
<1> QED
  BY <1>1, <1>3

\* The lines with their prices are kept.
LEMMA LinesAreKnown ==
  ASSUME NEW q \in ReqRow, NEW pc \in Places,
         NEW v \in [MenuItems -> OrderLine]
  PROVE  LET w == WithLines(q, pc, v)
         IN  /\ w \in ReqRow /\ w.pc = pc /\ w.lines = v
             /\ w.kind = q.kind /\ w.id = q.id /\ w.by = q.by
             /\ w.dto = q.dto /\ w.store = q.store /\ w.seen = q.seen
             /\ w.to = q.to /\ w.amount = q.amount
<1> DEFINE one == [q EXCEPT !.pc = pc]
           w   == [one EXCEPT !.lines = v]
<1>1. w = WithLines(q, pc, v)
  BY DEF ReqRow, WithLines
<1>2. /\ one \in ReqRow /\ one.pc = pc
      /\ one.kind = q.kind /\ one.id = q.id /\ one.by = q.by
      /\ one.dto = q.dto /\ one.store = q.store /\ one.seen = q.seen
      /\ one.to = q.to /\ one.amount = q.amount
  BY PlaceChanges DEF Moved
<1> HIDE DEF one
<1>3. /\ w \in ReqRow /\ w.pc = pc /\ w.lines = v
      /\ w.kind = q.kind /\ w.id = q.id /\ w.by = q.by
      /\ w.dto = q.dto /\ w.store = q.store /\ w.seen = q.seen
      /\ w.to = q.to /\ w.amount = q.amount
  BY <1>2 DEF ReqRow
<1> HIDE DEF w
<1> QED
  BY <1>1, <1>3

\* What was read of the order is kept.
LEMMA OrderIsSeen ==
  ASSUME NEW q \in ReqRow, NEW pc \in Places,
         NEW v \in EditSeen \cup ClaimSeen
  PROVE  LET w == WithSeen(q, pc, v)
         IN  /\ w \in ReqRow /\ w.pc = pc /\ w.seen = v
             /\ w.kind = q.kind /\ w.id = q.id /\ w.by = q.by
             /\ w.dto = q.dto /\ w.store = q.store /\ w.lines = q.lines
             /\ w.to = q.to /\ w.amount = q.amount
<1> DEFINE one == [q EXCEPT !.pc = pc]
           w   == [one EXCEPT !.seen = v]
<1>1. w = WithSeen(q, pc, v)
  BY DEF ReqRow, WithSeen
<1>2. /\ one \in ReqRow /\ one.pc = pc
      /\ one.kind = q.kind /\ one.id = q.id /\ one.by = q.by
      /\ one.dto = q.dto /\ one.store = q.store /\ one.lines = q.lines
      /\ one.to = q.to /\ one.amount = q.amount
  BY PlaceChanges DEF Moved
<1> HIDE DEF one
<1>3. /\ w \in ReqRow /\ w.pc = pc /\ w.seen = v
      /\ w.kind = q.kind /\ w.id = q.id /\ w.by = q.by
      /\ w.dto = q.dto /\ w.store = q.store /\ w.lines = q.lines
      /\ w.to = q.to /\ w.amount = q.amount
  BY <1>2 DEF ReqRow
<1> HIDE DEF w
<1> QED
  BY <1>1, <1>3

\* The customer the points are for is kept.
LEMMA CustomerIsKnown ==
  ASSUME NEW q \in ReqRow, NEW pc \in Places,
         NEW v \in Customers \cup {Guest}
  PROVE  LET w == WithTo(q, pc, v)
         IN  /\ w \in ReqRow /\ w.pc = pc /\ w.to = v
             /\ w.kind = q.kind /\ w.id = q.id /\ w.by = q.by
             /\ w.dto = q.dto /\ w.store = q.store /\ w.lines = q.lines
             /\ w.seen = q.seen /\ w.amount = q.amount
<1> DEFINE one == [q EXCEPT !.pc = pc]
           w   == [one EXCEPT !.to = v]
<1>1. w = WithTo(q, pc, v)
  BY DEF ReqRow, WithTo
<1>2. /\ one \in ReqRow /\ one.pc = pc
      /\ one.kind = q.kind /\ one.id = q.id /\ one.by = q.by
      /\ one.dto = q.dto /\ one.store = q.store /\ one.lines = q.lines
      /\ one.seen = q.seen /\ one.amount = q.amount
  BY PlaceChanges DEF Moved
<1> HIDE DEF one
<1>3. /\ w \in ReqRow /\ w.pc = pc /\ w.to = v
      /\ w.kind = q.kind /\ w.id = q.id /\ w.by = q.by
      /\ w.dto = q.dto /\ w.store = q.store /\ w.lines = q.lines
      /\ w.seen = q.seen /\ w.amount = q.amount
  BY <1>2 DEF ReqRow
<1> HIDE DEF w
<1> QED
  BY <1>1, <1>3

\* The request that awards an order.
ForAward(pc, id, to, amount) ==
  [Idle EXCEPT !.pc = pc, !.kind = "award", !.id = id, !.to = to,
               !.amount = amount]

\* It has its type.
LEMMA AwardRow ==
  ASSUME NEW pc \in Places, NEW id \in OrderIds,
         NEW to \in Customers \cup {Guest, None}, NEW amount \in Int
  PROVE  LET w == ForAward(pc, id, to, amount)
         IN  /\ w \in ReqRow /\ w.pc = pc /\ w.kind = "award" /\ w.id = id
             /\ w.to = to /\ w.amount = amount
<1> DEFINE one   == [Idle EXCEPT !.pc = pc, !.kind = "award"]
           two   == [one EXCEPT !.id = id]
           three == [two EXCEPT !.to = to]
           w     == [three EXCEPT !.amount = amount]
<1>1. w = ForAward(pc, id, to, amount)
  BY IdleType DEF ForAward, ReqRow
<1>2. "award" \in Kinds
  BY DEF Kinds
<1>3. one \in ReqRow /\ one.pc = pc /\ one.kind = "award"
  BY <1>2, IdleType DEF ReqRow
<1> HIDE DEF one, w
<1>4. two \in ReqRow /\ two.pc = pc /\ two.kind = "award" /\ two.id = id
  BY <1>3 DEF ReqRow
<1> HIDE DEF two
<1>5. /\ three \in ReqRow /\ three.pc = pc /\ three.kind = "award"
      /\ three.id = id /\ three.to = to
  BY <1>4 DEF ReqRow
<1> HIDE DEF three
<1>6. /\ w \in ReqRow /\ w.pc = pc /\ w.kind = "award"
      /\ w.id = id /\ w.to = to /\ w.amount = amount
  BY <1>5 DEF ReqRow, w
<1> QED
  BY <1>1, <1>6

\* A request that moves on keeps what it has.
LEMMA GotoMoves ==
  ASSUME IInv, NEW r \in Reqs, NEW pc \in Places, Goto(r, pc)
  PROVE  LET w == Moved(req[r], pc)
         IN  /\ w \in ReqRow /\ w.pc = pc
             /\ w.kind = req[r].kind /\ w.id = req[r].id
             /\ w.by = req[r].by /\ w.dto = req[r].dto
             /\ w.store = req[r].store /\ w.seen = req[r].seen
             /\ w.to = req[r].to /\ w.amount = req[r].amount
             /\ req' = [req EXCEPT ![r] = w]
             /\ req'[r] = w
<1> DEFINE w == Moved(req[r], pc)
<1>1. req[r] \in ReqRow
  BY DEF IInv, TypeOK
<1>2. req' = [req EXCEPT ![r] = w]
  BY DEF Goto, Moved, IInv, TypeOK
<1> HIDE DEF w
<1>3. req'[r] = w
  BY <1>2 DEF IInv, TypeOK
<1> QED
  BY <1>1, <1>2, <1>3, PlaceChanges DEF w

\* The store of the cashier, or none.
LEMMA ResolveStoreStep ==
  ASSUME IInv, NEW r \in Reqs, ResolveStore(r)
  PROVE  IInv'
<1>1. req[r].pc = "post"
  BY DEF ResolveStore
<1>2. CASE Throw(r)
  BY <1>1, <1>2, ThrowStep
<1>3. CASE ~Throw(r)
  <2> DEFINE next == IF req[r].kind = "inStore" THEN "customer" ELSE "read"
  <2>1. PICK s \in Stores :
          req' = [req EXCEPT ![r].pc = next, ![r].store = s]
    BY <1>3 DEF ResolveStore
  <2>2. Reading
    BY <1>3 DEF ResolveStore
  <2> DEFINE row == [req[r] EXCEPT !.pc = next, !.store = s]
  <2>3. req[r] \in ReqRow /\ req[r].kind \in {"inStore", "ready", "update"}
    BY <1>1, StageOf
  <2>4. /\ row \in ReqRow /\ row.pc = next /\ row.store = s
        /\ row.kind = req[r].kind /\ row.id = req[r].id
        /\ row.dto = req[r].dto /\ row.by = req[r].by
    <3>1. next \in Places
      BY DEF Places
    <3>2. row = WithStore(req[r], next, s)
      BY DEF WithStore
    <3> HIDE DEF next, row
    <3> QED
      BY <2>3, <3>1, <3>2, StoreIsKnown
  <2>5. req' = [req EXCEPT ![r] = row]
    BY <2>1 DEF IInv, TypeOK
  <2> HIDE DEF row
  <2>6. req'[r] = row /\ unused' = unused
    BY <2>2, <2>5 DEF IInv, TypeOK, Reading, tables
  <2>7. StageOK(r)'
    <3>1. CASE req[r].kind = "inStore"
      <4>1. req[r].id \in unused /\ InStoreStage(req[r])
        BY <1>1, <3>1, StageOf
      <4>2. InStoreStage(row)
        BY <3>1, <4>1, <2>4 DEF InStoreStage
      <4> QED
        BY <4>1, <4>2, <2>4, <2>6 DEF StageOK
    <3>2. CASE req[r].kind = "ready"
      <4>1. req[r].id \in OrderIds \ unused
        BY <1>1, <3>2, StageOf
      <4>2. ReadyStage(row)
        BY <3>2, <2>4 DEF ReadyStage
      <4> QED
        BY <4>1, <4>2, <2>4, <2>6 DEF StageOK
    <3>3. CASE req[r].kind = "update"
      <4>1. req[r].id \in OrderIds \ unused /\ UpdateStage(req[r])
        BY <1>1, <3>3, StageOf
      <4>2. UpdateStage(row)
        BY <3>3, <4>1, <2>4 DEF UpdateStage
      <4> QED
        BY <4>1, <4>2, <2>4, <2>6 DEF StageOK
    <3> QED
      BY <2>3, <3>1, <3>2, <3>3
  <2>8. RelyOK(r)'
    BY <2>4, <2>6 DEF RelyOK
  <2> QED
    BY <1>1, <2>2, <2>4, <2>5, <2>7, <2>8, GoOn
<1> QED
  BY <1>2, <1>3

-----------------------------------------------------------------------------
(* Placing an order. *)

\* The price list is read.
LEMMA ReadMenuStep ==
  ASSUME IInv, NEW r \in Reqs, ReadMenu(r)
  PROVE  IInv'
<1>1. At(r, "place", "menu")
  BY DEF ReadMenu
<1>2. CASE Throw(r)
  BY <1>1, <1>2, ThrowStep DEF At
<1>3. CASE ~Throw(r)
  <2>1. PICK price \in [MenuItems -> Prices] :
          req' = [req EXCEPT ![r].pc = "commit",
                    ![r].lines = [i \in MenuItems |->
                       [quantity |-> req[r].dto.basket[i],
                        price |-> price[i]]]]
    BY <1>3 DEF ReadMenu
  <2>2. Reading
    BY <1>3 DEF ReadMenu
  <2> DEFINE lines == [i \in MenuItems |->
                         [quantity |-> req[r].dto.basket[i],
                          price |-> price[i]]]
             row == [req[r] EXCEPT !.pc = "commit", !.lines = lines]
  <2>3. req[r] \in ReqRow /\ req[r].id \in unused /\ PlaceStage(req[r])
    BY <1>1, StageOf DEF At
  <2>4. lines \in [MenuItems -> OrderLine]
    <3>1. req[r].dto.basket \in [MenuItems -> Nat]
      BY <2>3, OrdersAssumption DEF PlaceStage, Purchase
    <3>2. \A i \in MenuItems : price[i] \in Nat
      BY OrdersAssumption
    <3> QED
      BY <3>1, <3>2 DEF OrderLine
  <2>5. req' = [req EXCEPT ![r] = row]
    BY <2>1 DEF IInv, TypeOK
  <2> HIDE DEF lines
  <2>6. /\ row \in ReqRow /\ row.pc = "commit" /\ row.lines = lines
        /\ row.kind = req[r].kind /\ row.id = req[r].id
        /\ row.by = req[r].by /\ row.dto = req[r].dto
    <3>1. "commit" \in Places
      BY DEF Places
    <3>2. row = WithLines(req[r], "commit", lines)
      BY DEF WithLines
    <3> HIDE DEF row
    <3> QED
      BY <2>3, <2>4, <3>1, <3>2, LinesAreKnown
  <2> HIDE DEF row
  <2>7. req'[r] = row /\ unused' = unused
    BY <2>2, <2>5 DEF IInv, TypeOK, Reading, tables
  <2>8. StageOK(r)'
    <3>1. PlaceStage(row)
      BY <2>3, <2>4, <2>6 DEF PlaceStage
    <3> QED
      BY <3>1, <2>3, <2>6, <2>7 DEF StageOK
  <2>9. RelyOK(r)' /\ row.kind = "place"
    BY <1>1, <2>6, <2>7 DEF RelyOK, At
  <2> QED
    BY <1>1, <2>2, <2>5, <2>6, <2>8, <2>9, GoOn DEF At
<1> QED
  BY <1>2, <1>3

\* The row of an order that is placed.
LEMMA PlacedRow ==
  ASSUME IInv, NEW r \in Reqs, CommitOrder(r), ~Throw(r)
  PROVE  \E id \in OrderIds, new \in OrderRow :
           /\ id = req[r].id /\ id \in unused
           /\ order' = [order EXCEPT ![id] = new]
           /\ unused' = unused \ {id}
           /\ Done(r)
           /\ UNCHANGED <<customers, awards, history>>
           /\ new.owner = req[r].by /\ new.owner \in customers \cup {Guest}
           /\ new.fee = FeeOf(new.type) /\ new.status = "CONFIRMED"
           /\ new.total = LinesTotal(new.lines) + new.fee
<1>1. At(r, "place", "commit")
  BY DEF CommitOrder
<1>2. PICK id \in OrderIds : id = req[r].id
  BY <1>1, StageOf DEF At
<1> DEFINE dto == req[r].dto
           new == [status |-> "CONFIRMED", type |-> dto.type,
                   store |-> dto.store, address |-> dto.type = "DELIVERY",
                   fee |-> FeeOf(dto.type), byHand |-> FALSE,
                   total |-> LinesTotal(req[r].lines) + FeeOf(dto.type),
                   lines |-> req[r].lines, owner |-> req[r].by]
<1>3. /\ Linkable(req[r].by)
      /\ order' = [order EXCEPT ![id] = new]
      /\ unused' = unused \ {id}
      /\ Done(r)
      /\ UNCHANGED <<customers, awards, history>>
  BY <1>2 DEF CommitOrder
<1>4. id \in unused /\ PlaceStage(req[r])
  BY <1>1, <1>2, StageOf DEF At
<1>5. dto \in Purchase /\ req[r].lines \in [MenuItems -> OrderLine]
  BY <1>1, <1>4, OrdersAssumption DEF PlaceStage, At
<1>6. /\ FeeOf(dto.type) \in Nat
      /\ LinesTotal(req[r].lines) \in Nat
      /\ req[r].by \in customers \cup {Guest}
      /\ customers \subseteq Customers
  BY <1>3, <1>5, LinesTotalType, OrdersAssumption
     DEF FeeOf, Linkable, IInv, TypeOK
<1>7. new \in OrderRow
  <2>1. dto.type \in OrderTypes /\ dto.store \in Stores
    BY <1>5 DEF Purchase
  <2> QED
    BY <1>5, <1>6, <2>1 DEF OrderRow, Statuses
<1>8. /\ new.owner = req[r].by /\ new.fee = FeeOf(new.type)
      /\ new.total = LinesTotal(new.lines) + new.fee
      /\ new.status = "CONFIRMED"
  OBVIOUS
<1> HIDE DEF new
<1> QED
  BY <1>2, <1>3, <1>4, <1>6, <1>7, <1>8

\* The order appears: nobody has handled it before.
LEMMA CommitOrderStep ==
  ASSUME IInv, NEW r \in Reqs, CommitOrder(r)
  PROVE  IInv'
<1>1. At(r, "place", "commit")
  BY DEF CommitOrder
<1>2. CASE Throw(r)
  BY <1>1, <1>2, ThrowStep DEF At
<1>3. CASE ~Throw(r)
  <2>1. PICK id \in OrderIds, new \in OrderRow :
          /\ id = req[r].id /\ id \in unused
          /\ order' = [order EXCEPT ![id] = new]
          /\ unused' = unused \ {id}
          /\ Done(r)
          /\ UNCHANGED <<customers, awards, history>>
          /\ new.owner = req[r].by /\ new.owner \in customers \cup {Guest}
          /\ new.fee = FeeOf(new.type) /\ new.status = "CONFIRMED"
          /\ new.total = LinesTotal(new.lines) + new.fee
    BY <1>3, PlacedRow
  <2>2. \A u \in Customers : awards[id][u] = <<>>
    BY <2>1 DEF IInv, UnusedOK, Awarded
  <2>3. req' = [req EXCEPT ![r] = Idle] /\ req'[r] = Idle
    BY <2>1 DEF Done, IInv, TypeOK
  <2>4. StageOK(r)'
    BY <2>3, IdleType DEF StageOK
  <2>5. ~Unpaid(id)'
    <3>1. order'[id] = new
      BY <2>1 DEF IInv, TypeOK
    <3> QED
      BY <2>1, <3>1 DEF Unpaid
  <2> QED
    BY <2>1, <2>2, <2>3, <2>4, <2>5, IdleType, NullApart, WriteStep
<1> QED
  BY <1>2, <1>3

-----------------------------------------------------------------------------
(* Orders entered at the counter. *)

\* The customer is looked up.
LEMMA FindCustomerStep ==
  ASSUME IInv, NEW r \in Reqs, FindCustomer(r)
  PROVE  IInv'
<1>1. At(r, "inStore", "customer") /\ Reading
  BY DEF FindCustomer
<1> DEFINE u   == IF req[r].dto.customer \in customers
                  THEN req[r].dto.customer ELSE Guest
           row == WithTo(req[r], "commit", u)
<1>2. req[r] \in ReqRow /\ req[r].id \in unused /\ InStoreStage(req[r])
  BY <1>1, StageOf DEF At
<1>3. u \in Customers \cup {Guest}
  BY DEF IInv, TypeOK
<1>4. req' = [req EXCEPT ![r] = row]
  BY DEF FindCustomer, WithTo, IInv, TypeOK
<1> HIDE DEF u, row
<1>5. req'[r] = row /\ unused' = unused
  BY <1>1, <1>4 DEF IInv, TypeOK, Reading, tables
<1>6. /\ row \in ReqRow /\ row.pc = "commit" /\ row.to = u
      /\ row.kind = req[r].kind /\ row.id = req[r].id
      /\ row.dto = req[r].dto /\ row.store = req[r].store
  <2>1. "commit" \in Places
    BY DEF Places
  <2> QED
    BY <1>2, <1>3, <2>1, CustomerIsKnown DEF row
<1>7. StageOK(r)'
  <2>1. InStoreStage(row)
    BY <1>1, <1>2, <1>3, <1>6 DEF InStoreStage, At
  <2> QED
    BY <1>2, <1>5, <1>6, <2>1 DEF StageOK
<1>8. RelyOK(r)' /\ row.kind = "inStore"
  BY <1>1, <1>5, <1>6 DEF RelyOK, At
<1> QED
  BY <1>1, <1>4, <1>6, <1>7, <1>8, GoOn DEF At

\* The row of an order that is sold, and the request that awards it.
LEMMA SoldRow ==
  ASSUME IInv, NEW r \in Reqs, CommitInStore(r), ~Throw(r)
  PROVE  \E id \in OrderIds, new \in OrderRow, row \in ReqRow :
           /\ id = req[r].id /\ id \in unused
           /\ order' = [order EXCEPT ![id] = new]
           /\ unused' = unused \ {id}
           /\ req' = [req EXCEPT ![r] = row]
           /\ UNCHANGED <<customers, awards, history>>
           /\ new.owner \in customers \cup {Guest} /\ new.byHand
           /\ new.status = "FINISHED" /\ new.fee = 0 /\ FeeOf(new.type) = 0
           /\ row.pc = "check" /\ row.kind = "award" /\ row.id = id
           /\ row.to = new.owner /\ row.amount = new.total
<1>1. At(r, "inStore", "commit")
  BY DEF CommitInStore
<1>2. PICK id \in OrderIds : id = req[r].id
  BY <1>1, StageOf DEF At
<1> DEFINE total == req[r].dto.total
           to    == req[r].to
           none  == [i \in MenuItems |-> [quantity |-> 0, price |-> 0]]
           new   == [status |-> "FINISHED", type |-> "IN_STORE",
                     store |-> req[r].store, address |-> FALSE,
                     fee |-> 0, byHand |-> TRUE, total |-> total,
                     lines |-> none, owner |-> to]
           row   == ForAward("check", id, to, total)
<1>3. /\ Linkable(to)
      /\ order' = [order EXCEPT ![id] = new]
      /\ unused' = unused \ {id}
      /\ req' = [req EXCEPT ![r] = row]
      /\ UNCHANGED <<customers, awards, history>>
  BY <1>2 DEF CommitInStore, ToAward, ForAward
<1>4. id \in unused /\ InStoreStage(req[r])
  BY <1>1, <1>2, StageOf DEF At
<1>5. /\ total \in Nat /\ req[r].store \in Stores
      /\ to \in customers \cup {Guest} /\ customers \subseteq Customers
  BY <1>1, <1>3, <1>4, OrdersAssumption
     DEF InStoreStage, At, Sale, Linkable, IInv, TypeOK
<1>6. new \in OrderRow
  <2>1. none \in [MenuItems -> OrderLine]
    BY DEF OrderLine
  <2> HIDE DEF none, total, to
  <2> QED
    BY <1>5, <2>1 DEF OrderRow, Statuses
<1>7. /\ new.owner = to /\ new.fee = 0 /\ new.total = total
      /\ new.status = "FINISHED" /\ new.byHand /\ FeeOf(new.type) = 0
  BY DEF FeeOf
<1> HIDE DEF new, none, total, to
<1>8. /\ row \in ReqRow /\ row.pc = "check" /\ row.kind = "award"
      /\ row.id = id /\ row.to = to /\ row.amount = total
  <2>1. "check" \in Places
    BY DEF Places
  <2> QED
    BY <1>5, <2>1, AwardRow
<1> HIDE DEF row
<1> QED
  BY <1>2, <1>3, <1>4, <1>5, <1>6, <1>7, <1>8

\* The order appears finished, and its award follows.
LEMMA CommitInStoreStep ==
  ASSUME IInv, NEW r \in Reqs, CommitInStore(r)
  PROVE  IInv'
<1>1. At(r, "inStore", "commit")
  BY DEF CommitInStore
<1>2. CASE Throw(r)
  BY <1>1, <1>2, ThrowStep DEF At
<1>3. CASE ~Throw(r)
  <2>1. PICK id \in OrderIds, new \in OrderRow, row \in ReqRow :
          /\ id = req[r].id /\ id \in unused
          /\ order' = [order EXCEPT ![id] = new]
          /\ unused' = unused \ {id}
          /\ req' = [req EXCEPT ![r] = row]
          /\ UNCHANGED <<customers, awards, history>>
          /\ new.owner \in customers \cup {Guest} /\ new.byHand
          /\ new.status = "FINISHED" /\ new.fee = 0 /\ FeeOf(new.type) = 0
          /\ row.pc = "check" /\ row.kind = "award" /\ row.id = id
          /\ row.to = new.owner /\ row.amount = new.total
    BY <1>3, SoldRow
  <2>2. \A u \in Customers : awards[id][u] = <<>>
    BY <2>1 DEF IInv, UnusedOK, Awarded
  <2>3. /\ req'[r] = row /\ order'[id] = new
        /\ UNCHANGED <<customers, awards, overlapped>>
        /\ customers \subseteq Customers /\ new.total \in Nat
    BY <2>1 DEF IInv, TypeOK, history, OrderRow
  <2>4. StageOK(r)'
    <3>1. AwardStage(row)
      BY <2>1, <2>3 DEF AwardStage
    <3> QED
      BY <2>1, <2>3, <3>1 DEF StageOK
  <2>5. RelyOK(r)'
    BY <2>1, <2>3 DEF RelyOK, Row, Exists, AwardOK
  <2> QED
    BY <2>1, <2>2, <2>3, <2>4, <2>5, WriteStep
<1> QED
  BY <1>2, <1>3

-----------------------------------------------------------------------------
(* Cancelling an order. *)

\* The customer's order is found as it should be.
LEMMA ReadCancelStep ==
  ASSUME IInv, NEW r \in Reqs, ReadCancel(r)
  PROVE  IInv'
<1>1. At(r, "cancel", "read")
  BY DEF ReadCancel
<1>2. CASE Throw(r)
  BY <1>1, <1>2, ThrowStep DEF At
<1>3. CASE ~Throw(r)
  <2>1. Row(r).status = "CONFIRMED" /\ Goto(r, "write") /\ Reading
    BY <1>3 DEF ReadCancel
  <2>2. UNCHANGED <<customers, unused, order, awards>>
    BY <2>1 DEF Reading, tables
  <2>3. req[r].id \in OrderIds \ unused /\ "write" \in Places
    BY <1>1, StageOf DEF At, Places
  <2> DEFINE row == Moved(req[r], "write")
  <2> HIDE DEF row
  <2>4. /\ row \in ReqRow /\ row.pc = "write" /\ row.kind = "cancel"
        /\ row.id = req[r].id /\ req' = [req EXCEPT ![r] = row]
        /\ req'[r] = row
    BY <1>1, <2>1, <2>3, GotoMoves DEF row, At
  <2>5. StageOK(r)'
    BY <2>2, <2>3, <2>4 DEF StageOK, CancelStage
  <2>6. RelyOK(r)'
    BY <2>1, <2>2, <2>4 DEF RelyOK, Row
  <2> QED
    BY <1>1, <2>1, <2>4, <2>5, <2>6, GoOn DEF At
<1> QED
  BY <1>2, <1>3

\* The order is cancelled, if it is still there.
LEMMA WriteCancelStep ==
  ASSUME IInv, NEW r \in Reqs, WriteCancel(r)
  PROVE  IInv'
<1>1. At(r, "cancel", "write")
  BY DEF WriteCancel
<1>2. CASE Throw(r)
  BY <1>1, <1>2, ThrowStep DEF At
<1>3. CASE ~Throw(r)
  <2>0. PICK id \in OrderIds : id = req[r].id /\ id \notin unused
    BY <1>1, StageOf DEF At
  <2> DEFINE new == [order[id] EXCEPT !.status = "CANCELLED"]
  <2>1. /\ order[id] # None
        /\ order' = [order EXCEPT ![id] = new]
        /\ Done(r)
        /\ UNCHANGED <<customers, unused, awards, history>>
    BY <1>3, <2>0 DEF WriteCancel, Exists, Row, IInv, TypeOK
  <2>2. order[id] \in OrderRow
    BY <2>1 DEF IInv, TypeOK
  <2>3. /\ new \in OrderRow /\ new.status = "CANCELLED"
        /\ new.owner = order[id].owner /\ new.fee = order[id].fee
        /\ new.type = order[id].type /\ new.total = order[id].total
        /\ new.byHand = order[id].byHand /\ new.lines = order[id].lines
    BY <2>2 DEF OrderRow, Statuses
  <2> HIDE DEF new
  <2>4. /\ new.owner \in customers \cup {Guest, None}
        /\ new.fee = FeeOf(new.type)
        /\ id \notin overlapped =>
             /\ ~new.byHand => new.total = LinesTotal(new.lines) + new.fee
             /\ \A u \in Customers :
                  awards[id][u] # <<>> => new.owner = u
    BY <2>1, <2>3
       DEF IInv, OwnersExist, FeeFollowsType, TotalCoversItems, OneAward
  <2>5. req' = [req EXCEPT ![r] = Idle] /\ req'[r] = Idle
    BY <2>1 DEF Done, IInv, TypeOK
  <2>6. StageOK(r)'
    BY <2>5, IdleType DEF StageOK
  <2>7. ~Unpaid(id)'
    <3>1. order'[id] = new
      BY <2>1 DEF IInv, TypeOK
    <3> QED
      BY <3>1, <2>3 DEF Unpaid
  <2>8. unused' = unused \ {id}
    BY <2>0, <2>1
  <2> QED
    BY <2>0, <2>1, <2>3, <2>4, <2>5, <2>6, <2>7, <2>8,
       IdleType, NullApart, WriteStep
<1> QED
  BY <1>2, <1>3

-----------------------------------------------------------------------------
(* Claiming a guest's order. *)

\* The guest's order is found.
LEMMA ReadClaimStep ==
  ASSUME IInv, NEW r \in Reqs, ReadClaim(r)
  PROVE  IInv'
<1>1. At(r, "claim", "read")
  BY DEF ReadClaim
<1>2. CASE Throw(r)
  BY <1>1, <1>2, ThrowStep DEF At
<1>3. CASE ~Throw(r)
  <2>1. Row(r).owner = Guest /\ Goto(r, "link") /\ Reading
    BY <1>3 DEF ReadClaim
  <2>2. UNCHANGED <<customers, unused, order, awards>>
    BY <2>1 DEF Reading, tables
  <2>3. /\ req[r].id \in OrderIds \ unused /\ "link" \in Places
        /\ req[r].by \in Customers
    BY <1>1, StageOf DEF At, Places, ClaimStage
  <2> DEFINE row == Moved(req[r], "link")
  <2> HIDE DEF row
  <2>4. /\ row \in ReqRow /\ row.pc = "link" /\ row.kind = "claim"
        /\ row.id = req[r].id /\ row.by = req[r].by
        /\ req' = [req EXCEPT ![r] = row] /\ req'[r] = row
    BY <1>1, <2>1, <2>3, GotoMoves DEF row, At
  <2>5. StageOK(r)'
    BY <2>2, <2>3, <2>4 DEF StageOK, ClaimStage
  <2>6. RelyOK(r)'
    BY <2>1, <2>2, <2>4 DEF RelyOK, Row
  <2> QED
    BY <1>1, <2>1, <2>4, <2>5, <2>6, GoOn DEF At
<1> QED
  BY <1>2, <1>3

\* The link is updated: the claim holds it from now on.
LEMMA LinkOrderStep ==
  ASSUME IInv, NEW r \in Reqs, LinkOrder(r)
  PROVE  IInv'
<1>1. At(r, "claim", "link")
  BY DEF LinkOrder
<1>2. CASE Throw(r)
  BY <1>1, <1>2, ThrowStep DEF At
<1>3. CASE ~Throw(r)
  <2>1. /\ Holding(req[r].id) = {} /\ Exists(r) /\ Linkable(req[r].by)
        /\ Goto(r, "order") /\ Reading
    BY <1>3 DEF LinkOrder
  <2>2. /\ UNCHANGED <<customers, unused, order, awards>>
        /\ UNCHANGED <<overlapped, forgone>>
    BY <2>1 DEF Reading, tables, history
  <2>3. /\ req[r].id \in OrderIds \ unused /\ "order" \in Places
        /\ req[r].by \in Customers
    BY <1>1, StageOf DEF At, Places, ClaimStage
  <2> DEFINE row == Moved(req[r], "order")
  <2> HIDE DEF row
  <2>4. /\ row \in ReqRow /\ row.pc = "order" /\ row.kind = "claim"
        /\ row.id = req[r].id /\ row.by = req[r].by
        /\ req' = [req EXCEPT ![r] = row] /\ req'[r] = row
    BY <1>1, <2>1, <2>3, GotoMoves DEF row, At
  <2>5. StageOK(r)'
    BY <2>2, <2>3, <2>4 DEF StageOK, ClaimStage
  <2>6. ASSUME row.id \in OrderIds \ overlapped'
        PROVE  RelyOK(r)'
    <3>1. RelyOK(r)
      BY <2>2, <2>4, <2>6 DEF IInv, RequestsOK
    <3>2. Row(r).owner = Guest
      BY <1>1, <2>1, <3>1 DEF RelyOK, At
    <3> QED
      BY <2>2, <2>4, <3>2 DEF RelyOK, Row
  <2>7. row.by \in customers /\ Exists(r)'
    BY <2>1, <2>2, <2>3, <2>4, NullApart DEF Linkable, Exists, Row
  <2>8. \A o : ~Rewards(req[r], o)
    BY <1>1 DEF Rewards, At
  <2>9. overlapped \subseteq OrderIds /\ forgone \subseteq OrderIds
    BY DEF IInv, TypeOK
  <2> QED
    BY <2>1, <2>2, <2>3, <2>4, <2>5, <2>6, <2>7, <2>8, <2>9, LocalStep
       DEF tables
<1> QED
  BY <1>2, <1>3

\* What a claim that holds the link knows.
LEMMA ClaimHolds ==
  ASSUME IInv, NEW r \in Reqs,
         At(r, "claim", "order") \/ At(r, "claim", "commit")
  PROVE  /\ req[r].id \in OrderIds \ unused
         /\ Exists(r) /\ Row(r) \in OrderRow
         /\ req[r].by \in customers /\ req[r].by \in Customers
         /\ r \in Holding(req[r].id)
         /\ req[r].id \notin overlapped => Row(r).owner = Guest
<1>1. /\ req[r].id \in OrderIds \ unused /\ req[r].by \in Customers
      /\ Exists(r) /\ req[r].by \in customers
  BY StageOf DEF At, ClaimStage, IInv, RequestsOK, HoldOK
<1>2. Row(r) \in OrderRow
  BY <1>1 DEF IInv, TypeOK, Exists, Row
<1>3. r \in Holding(req[r].id)
  BY DEF Holding, Handling, At
<1>4. req[r].id \notin overlapped => Row(r).owner = Guest
  <2>1. req[r].id \notin overlapped => RelyOK(r)
    BY <1>1 DEF IInv, RequestsOK
  <2> QED
    BY <1>1, <2>1 DEF RelyOK, At
<1> QED
  BY <1>1, <1>2, <1>3, <1>4

\* The order is read while the link is held.
LEMMA ReadClaimedStep ==
  ASSUME IInv, NEW r \in Reqs, ReadClaimed(r)
  PROVE  IInv'
<1>1. At(r, "claim", "order") /\ Reading
  BY DEF ReadClaimed
<1>2. /\ UNCHANGED <<customers, unused, order, awards>>
      /\ UNCHANGED <<overlapped, forgone>>
  BY <1>1 DEF Reading, tables, history
<1>3. /\ req[r].id \in OrderIds \ unused /\ req[r] \in ReqRow
      /\ Exists(r) /\ Row(r) \in OrderRow
      /\ req[r].by \in customers /\ req[r].by \in Customers
      /\ r \in Holding(req[r].id)
      /\ req[r].id \notin overlapped => Row(r).owner = Guest
  BY <1>1, ClaimHolds, StageOf
<1> DEFINE seen == SeenByClaim(Row(r))
           row  == WithSeen(req[r], "commit", seen)
<1>4. seen \in ClaimSeen /\ "commit" \in Places
  BY <1>3 DEF SeenByClaim, ClaimSeen, OrderRow, Places
<1>5. req' = [req EXCEPT ![r] = row]
  BY DEF ReadClaimed, WithSeen, IInv, TypeOK
<1> HIDE DEF seen, row
<1>6. req'[r] = row
  BY <1>5 DEF IInv, TypeOK
<1>7. /\ row \in ReqRow /\ row.pc = "commit" /\ row.kind = "claim"
      /\ row.id = req[r].id /\ row.by = req[r].by /\ row.seen = seen
  BY <1>1, <1>3, <1>4, OrderIsSeen DEF row, At
<1>8. StageOK(r)'
  BY <1>2, <1>3, <1>4, <1>6, <1>7 DEF StageOK, ClaimStage
<1>9. ASSUME row.id \in OrderIds \ overlapped'
      PROVE  RelyOK(r)'
  <2>1. Row(r)' = Row(r) /\ Row(r).owner = Guest
    BY <1>2, <1>3, <1>6, <1>7, <1>9 DEF Row
  <2> QED
    BY <1>6, <1>7, <2>1 DEF RelyOK, seen
<1>10. Exists(r)'
  BY <1>2, <1>3, <1>6, <1>7 DEF Exists, Row
<1>11. \A o : ~Rewards(req[r], o)
  BY <1>1 DEF Rewards, At
<1>12. overlapped \subseteq OrderIds /\ forgone \subseteq OrderIds
  BY DEF IInv, TypeOK
<1> QED
  BY <1>2, <1>3, <1>5, <1>7, <1>8, <1>9, <1>10, <1>11, <1>12, LocalStep
     DEF tables

\* The order has its new owner; if it was finished, its award follows.
LEMMA CommitClaimStep ==
  ASSUME IInv, NEW r \in Reqs, CommitClaim(r)
  PROVE  IInv'
<1>1. At(r, "claim", "commit")
  BY DEF CommitClaim
<1>0. PICK id \in OrderIds : id = req[r].id
  BY <1>1, ClaimHolds
<1> DEFINE by   == req[r].by
           seen == req[r].seen
           new  == [order[id] EXCEPT !.owner = by]
           row  == IF seen.status = "FINISHED"
                   THEN ForAward("check", id, by, Goods(seen)) ELSE Idle
<1>2. /\ order[id] \in OrderRow /\ order[id] # None
      /\ by \in customers /\ by \in Customers
      /\ id \notin unused
      /\ id \notin overlapped => order[id].owner = Guest
  BY <1>0, <1>1, ClaimHolds DEF Exists, Row
<1>3. /\ seen \in ClaimSeen
      /\ id \notin overlapped => seen = SeenByClaim(order[id])
  <2>1. seen \in ClaimSeen
    BY <1>1, StageOf DEF At, ClaimStage
  <2>2. id \notin overlapped => RelyOK(r)
    BY <1>0 DEF IInv, RequestsOK
  <2> QED
    BY <1>0, <1>1, <1>2, <2>1, <2>2 DEF RelyOK, At, Exists, Row
<1>4. /\ order' = [order EXCEPT ![id] = new]
      /\ req' = [req EXCEPT ![r] = row]
      /\ UNCHANGED <<customers, unused, awards, history>>
  BY <1>0, <1>2 DEF CommitClaim, ToAward, ForAward, Done, IInv, TypeOK
<1>5. /\ new \in OrderRow /\ new.owner = by
      /\ new.status = order[id].status /\ new.fee = order[id].fee
      /\ new.type = order[id].type /\ new.total = order[id].total
      /\ new.byHand = order[id].byHand /\ new.lines = order[id].lines
  BY <1>2 DEF OrderRow
<1> HIDE DEF new, by
<1>6. seen.status = "FINISHED" =>
        /\ row \in ReqRow /\ row.pc = "check" /\ row.kind = "award"
        /\ row.id = id /\ row.to = by /\ row.amount = Goods(seen)
  <2>1. Goods(seen) \in Int /\ "check" \in Places
    BY <1>3 DEF Goods, ClaimSeen, Places
  <2> QED
    BY <1>2, <2>1, AwardRow
<1>7. seen.status # "FINISHED" => row = Idle
  OBVIOUS
<1> HIDE DEF row
<1>8. /\ req'[r] = row /\ order'[id] = new
      /\ UNCHANGED <<customers, awards, unused, overlapped>>
  BY <1>4 DEF IInv, TypeOK, history
<1>9. StageOK(r)'
  <2>1. CASE seen.status = "FINISHED"
    <3>1. AwardStage(row)
      BY <1>2, <1>6, <2>1 DEF AwardStage
    <3> QED
      BY <1>2, <1>6, <1>8, <2>1, <3>1 DEF StageOK
  <2>2. CASE seen.status # "FINISHED"
    BY <1>7, <1>8, <2>2, IdleType DEF StageOK
  <2> QED
    BY <2>1, <2>2
<1>10. row \in ReqRow /\ row.id \in {id, None} /\ row.pc \in {"check", "idle"}
  BY <1>6, <1>7, IdleType
<1>11. ASSUME row.id \in OrderIds \ overlapped
       PROVE  RelyOK(r)'
  <2>1. row.id = id /\ seen.status = "FINISHED"
    BY <1>6, <1>7, <1>11, IdleType, NullApart
  <2>2. seen = SeenByClaim(order[id])
    BY <1>3, <1>11, <2>1
  <2>3. new.status = "FINISHED" /\ row.amount = new.total - new.fee
    BY <1>5, <1>6, <2>1, <2>2 DEF SeenByClaim, Goods
  <2> QED
    BY <1>6, <1>8, <2>1, <2>3, <1>5 DEF RelyOK, Row, Exists, AwardOK
<1>12. /\ new.owner \in customers \cup {Guest, None}
       /\ new.fee = FeeOf(new.type)
       /\ id \notin overlapped =>
            /\ ~new.byHand => new.total = LinesTotal(new.lines) + new.fee
            /\ \A u \in Customers : awards[id][u] = <<>>
  BY <1>2, <1>5, NullApart
     DEF IInv, FeeFollowsType, TotalCoversItems, OneAward
<1>13. ASSUME id \notin overlapped, Unpaid(id)'
       PROVE  row.id = id /\ row.pc = "check" /\ row.to = new.owner
  <2>1. new.status = "FINISHED"
    BY <1>8, <1>13 DEF Unpaid
  <2>2. seen.status = "FINISHED"
    BY <1>3, <1>5, <1>13, <2>1 DEF SeenByClaim
  <2> QED
    BY <1>5, <1>6, <2>2
<1>14. unused' = unused \ {id}
  BY <1>2, <1>8
<1> QED
  BY <1>0, <1>4, <1>5, <1>9, <1>10, <1>11, <1>12, <1>13, <1>14, WriteStep

-----------------------------------------------------------------------------
(* Editing an order. *)

\* The order is read, and the edit checked against it.
LEMMA ReadOrderStep ==
  ASSUME IInv, NEW r \in Reqs, ReadOrder(r)
  PROVE  IInv'
<1>1. At(r, "update", "read")
  BY DEF ReadOrder
<1>2. CASE Throw(r)
  BY <1>1, <1>2, ThrowStep DEF At
<1>3. CASE ~Throw(r)
  <2> DEFINE seen == SeenByEdit(Row(r))
             row  == WithSeen(req[r], "write", seen)
  <2>1. Exists(r) /\ Editable(r) /\ Reading
    BY <1>3 DEF ReadOrder
  <2>2. req' = [req EXCEPT ![r] = row]
    BY <1>3 DEF ReadOrder, WithSeen, IInv, TypeOK
  <2>3. UNCHANGED <<customers, unused, order, awards>>
    BY <2>1 DEF Reading, tables
  <2>4. /\ req[r].id \in OrderIds \ unused /\ UpdateStage(req[r])
        /\ req[r] \in ReqRow
    BY <1>1, StageOf DEF At
  <2>5. seen \in EditSeen /\ "write" \in Places
    <3>1. Row(r) \in OrderRow
      BY <2>1, <2>4 DEF IInv, TypeOK, Exists, Row
    <3> QED
      BY <3>1 DEF SeenByEdit, EditSeen, OrderRow, Places
  <2> HIDE DEF row, seen
  <2>6. /\ row \in ReqRow /\ row.pc = "write" /\ row.kind = "update"
        /\ row.id = req[r].id /\ row.by = req[r].by /\ row.dto = req[r].dto
        /\ row.store = req[r].store /\ row.seen = seen
    BY <1>1, <2>4, <2>5, OrderIsSeen DEF row, At
  <2>7. req'[r] = row
    BY <2>2 DEF IInv, TypeOK
  <2>8. StageOK(r)'
    BY <2>3, <2>4, <2>5, <2>6, <2>7 DEF StageOK, UpdateStage
  <2>9. RelyOK(r)'
    BY <2>1, <2>3, <2>6, <2>7 DEF RelyOK, Row, Editable, Closed, seen
  <2> QED
    BY <1>1, <2>1, <2>2, <2>6, <2>8, <2>9, GoOn DEF At
<1> QED
  BY <1>2, <1>3

\* What may be edited.
LEMMA EditType ==
  ASSUME NEW dto \in Edit
  PROVE  /\ dto.status \in Statuses \cup {None}
         /\ dto.store \in Stores \cup {None}
         /\ dto.type \in OrderTypes \cup {None}
         /\ dto.address \in BOOLEAN \cup {None}
         /\ dto.total \in Nat \cup {None}
         /\ dto.items \in [MenuItems -> Nat \cup {None}]
BY DEF Edit

\* The edited lines are lines, and those of the items that are not edited
\* are what was read.
LEMMA LinesAfterType ==
  ASSUME NEW dto \in Edit, NEW seen \in EditSeen
  PROVE  /\ LinesAfter(seen, dto) \in [MenuItems -> OrderLine]
         /\ \A i \in MenuItems \ EditedItems(dto) :
              LinesAfter(seen, dto)[i] = seen.lines[i]
<1>1. \A i \in MenuItems : seen.lines[i] \in OrderLine
  BY DEF EditSeen
<1>2. \A i \in MenuItems : QuantityAfter(seen, dto, i) \in Nat
  BY <1>1 DEF QuantityAfter, OrderLine
<1>3. \A i \in MenuItems :
        [seen.lines[i] EXCEPT !.quantity = QuantityAfter(seen, dto, i)]
          \in OrderLine
  BY <1>1, <1>2 DEF OrderLine
<1>4. ASSUME NEW i \in MenuItems \ EditedItems(dto)
      PROVE  LinesAfter(seen, dto)[i] = seen.lines[i]
  <2>1. QuantityAfter(seen, dto, i) = seen.lines[i].quantity
    <3>1. dto.items[i] = None
      BY <1>4 DEF EditedItems
    <3>2. None \notin Nat
      BY OrdersAssumption
    <3> QED
      BY <3>1, <3>2 DEF QuantityAfter
  <2>2. LinesAfter(seen, dto)[i]
          = [seen.lines[i] EXCEPT !.quantity = seen.lines[i].quantity]
    BY <2>1 DEF LinesAfter
  <2> QED
    BY <1>1, <2>2 DEF OrderLine
<1> QED
  BY <1>3, <1>4 DEF LinesAfter

\* The row after an edit has its type, the fee of its type and, if the edit
\* was made of the row as it is, the total of its lines.
LEMMA UpdatedRow ==
  ASSUME NEW row \in OrderRow, NEW dto \in Edit, NEW seen \in EditSeen,
         row.fee = FeeOf(row.type)
  PROVE  LET new == Updated(row, seen, dto)
         IN  /\ new \in OrderRow
             /\ new.owner = row.owner
             /\ new.status = Sent(dto.status, row.status)
             /\ new.fee = FeeOf(new.type)
             /\ /\ seen = SeenByEdit(row)
                /\ ~row.byHand => row.total = LinesTotal(row.lines) + row.fee
                /\ ~new.byHand
                => new.total = LinesTotal(new.lines) + new.fee
<1> DEFINE new   == Updated(row, seen, dto)
           after == LinesAfter(seen, dto)
<1>1. /\ dto.status \in Statuses \cup {None}
      /\ dto.store \in Stores \cup {None}
      /\ dto.type \in OrderTypes \cup {None}
      /\ dto.address \in BOOLEAN \cup {None}
      /\ dto.total \in Nat \cup {None}
  BY EditType
<1>2. /\ row.status \in Statuses /\ row.type \in OrderTypes \cup {"IN_STORE"}
      /\ row.store \in Stores /\ row.address \in BOOLEAN /\ row.fee \in Nat
      /\ row.total \in Nat /\ row.byHand \in BOOLEAN
      /\ row.lines \in [MenuItems -> OrderLine]
      /\ row.owner \in Customers \cup {Guest, None}
  BY DEF OrderRow
<1>3. /\ after \in [MenuItems -> OrderLine]
      /\ \A i \in MenuItems \ EditedItems(dto) : after[i] = seen.lines[i]
      /\ seen.fee \in Nat /\ seen.address \in BOOLEAN
  BY LinesAfterType DEF EditSeen
<1>4. FeeOf(dto.type) \in Nat /\ LinesTotal(after) \in Nat
  BY <1>3, OrdersAssumption, LinesTotalType DEF FeeOf
<1>5. /\ new.status = Sent(dto.status, row.status)
      /\ new.store = Sent(dto.store, row.store)
      /\ new.type = Sent(dto.type, row.type)
      /\ new.fee = IF dto.type # None THEN FeeOf(dto.type) ELSE row.fee
      /\ new.total = IF Recalculated(dto) THEN TotalAfter(seen, dto)
                                          ELSE Sent(dto.total, row.total)
      /\ new.byHand = (~Recalculated(dto)
                         /\ (row.byHand \/ dto.total # None))
      /\ new.lines = [i \in MenuItems |-> IF i \in EditedItems(dto)
                                          THEN after[i] ELSE row.lines[i]]
      /\ new.owner = row.owner
  BY DEF Updated
<1>6. TotalAfter(seen, dto)
        = LinesTotal(after) + (IF dto.type = None THEN seen.fee
                                                  ELSE FeeOf(dto.type))
  BY DEF TotalAfter
<1>7. new \in OrderRow
  <2>1. /\ Sent(dto.status, row.status) \in Statuses
        /\ Sent(dto.store, row.store) \in Stores
        /\ Sent(dto.type, row.type) \in OrderTypes \cup {"IN_STORE"}
        /\ Sent(dto.total, row.total) \in Nat
    BY <1>1, <1>2 DEF Sent
  <2>2. AddressAfter(seen, dto) \in BOOLEAN
    BY <1>1, <1>3 DEF AddressAfter
  <2>3. TotalAfter(seen, dto) \in Nat
    <3> HIDE DEF after
    <3> QED
      BY <1>3, <1>4, <1>6
  <2>4. [i \in MenuItems |-> IF i \in EditedItems(dto)
                             THEN after[i] ELSE row.lines[i]]
          \in [MenuItems -> OrderLine]
    <3> HIDE DEF after
    <3> QED
      BY <1>2, <1>3
  <2> QED
    BY <1>2, <1>4, <2>1, <2>2, <2>3, <2>4 DEF Updated, OrderRow
<1> HIDE DEF new, after
<1>8. new.fee = FeeOf(new.type)
  BY <1>5 DEF Sent
<1>9. ASSUME seen = SeenByEdit(row), ~new.byHand,
             ~row.byHand => row.total = LinesTotal(row.lines) + row.fee
      PROVE  new.total = LinesTotal(new.lines) + new.fee
  <2>1. seen.lines = row.lines /\ seen.fee = row.fee
    BY <1>9 DEF SeenByEdit
  <2>2. CASE Recalculated(dto)
    <3>1. new.lines = after
      BY <1>3, <1>5, <2>1
    <3> QED
      BY <1>5, <1>6, <2>1, <2>2, <3>1
  <2>3. CASE ~Recalculated(dto)
    <3>1. EditedItems(dto) = {} /\ dto.type = None
      BY <2>3 DEF Recalculated
    <3>2. ~row.byHand /\ dto.total = None
      BY <1>5, <1>9, <2>3
    <3>3. new.lines = row.lines
      BY <1>2, <1>5, <3>1
    <3>4. new.total = row.total /\ new.fee = row.fee
      BY <1>5, <2>3, <3>1, <3>2 DEF Sent
    <3> QED
      BY <1>9, <3>2, <3>3, <3>4
  <2> QED
    BY <2>2, <2>3
<1> QED
  BY <1>5, <1>7, <1>8, <1>9 DEF new

\* The edit is written; if it finishes the order, its award follows.
LEMMA WriteUpdateStep ==
  ASSUME IInv, NEW r \in Reqs, WriteUpdate(r)
  PROVE  IInv'
<1>1. At(r, "update", "write")
  BY DEF WriteUpdate
<1>2. CASE Throw(r)
  BY <1>1, <1>2, ThrowStep DEF At
<1>3. CASE ~Throw(r)
  <2>0. PICK id \in OrderIds : id = req[r].id /\ id \notin unused
    BY <1>1, StageOf DEF At
  <2> DEFINE dto  == req[r].dto
             seen == req[r].seen
             new  == Updated(order[id], seen, dto)
             row  == IF dto.status = "FINISHED"
                     THEN ForAward("owner", id, None, Goods(new)) ELSE Idle
  <2>1. /\ order[id] # None
        /\ order' = [order EXCEPT ![id] = new]
        /\ req' = [req EXCEPT ![r] = row]
        /\ UNCHANGED <<customers, unused, awards, history>>
    BY <1>3, <2>0
       DEF WriteUpdate, Exists, Row, ToAward, ForAward, Done
  <2>2. /\ dto \in Edit /\ seen \in EditSeen /\ order[id] \in OrderRow
        /\ order[id].fee = FeeOf(order[id].type)
    <3>1. UpdateStage(req[r])
      BY <1>1, StageOf DEF At
    <3> QED
      BY <1>1, <2>0, <2>1, <3>1, OrdersAssumption
         DEF UpdateStage, At, IInv, TypeOK, FeeFollowsType
  <2>3. id \notin overlapped =>
          /\ seen = SeenByEdit(order[id])
          /\ ~order[id].byHand =>
               order[id].total = LinesTotal(order[id].lines) + order[id].fee
    <3>1. id \notin overlapped => RelyOK(r)
      BY <2>0 DEF IInv, RequestsOK
    <3> QED
      BY <1>1, <2>0, <2>1, <3>1
         DEF RelyOK, At, Exists, Row, IInv, TotalCoversItems
  <2> HIDE DEF dto, seen, new, row
  <2>4. /\ new \in OrderRow /\ new.owner = order[id].owner
        /\ new.status = Sent(dto.status, order[id].status)
        /\ new.fee = FeeOf(new.type)
        /\ id \notin overlapped /\ ~new.byHand =>
             new.total = LinesTotal(new.lines) + new.fee
    BY <2>2, <2>3, UpdatedRow DEF new
  <2>5. dto.status = "FINISHED" =>
          /\ row \in ReqRow /\ row.pc = "owner" /\ row.kind = "award"
          /\ row.id = id /\ row.amount = Goods(new)
    <3>1. Goods(new) \in Int /\ "owner" \in Places
      BY <2>4 DEF Goods, OrderRow, Places
    <3> QED
      BY <3>1, AwardRow DEF row
  <2>6. dto.status # "FINISHED" => row = Idle
    BY DEF row
  <2>7. /\ req'[r] = row /\ order'[id] = new
        /\ UNCHANGED <<customers, awards, unused, overlapped>>
    BY <2>1 DEF IInv, TypeOK, history
  <2>8. /\ row \in ReqRow /\ row.id \in {id, None}
        /\ row.pc \in {"owner", "idle"}
    BY <2>5, <2>6, IdleType
  <2>9. StageOK(r)'
    <3>1. CASE dto.status = "FINISHED"
      <4>1. AwardStage(row)
        BY <2>5, <3>1 DEF AwardStage
      <4> QED
        BY <2>0, <2>5, <2>7, <3>1, <4>1 DEF StageOK
    <3>2. CASE dto.status # "FINISHED"
      BY <2>6, <2>7, <3>2, IdleType DEF StageOK
    <3> QED
      BY <3>1, <3>2
  <2>10. ASSUME row.id \in OrderIds \ overlapped
         PROVE  RelyOK(r)'
    <3>1. dto.status = "FINISHED"
      BY <2>6, <2>10, IdleType, NullApart
    <3>2. new.status = "FINISHED"
      BY <2>2, <2>4, <3>1, OrdersAssumption DEF Sent, Statuses
    <3> QED
      BY <2>5, <2>7, <3>1, <3>2 DEF RelyOK, Row, AwardOK, Goods
  <2>11. /\ new.owner \in customers \cup {Guest, None}
         /\ id \notin overlapped =>
              /\ ~new.byHand => new.total = LinesTotal(new.lines) + new.fee
              /\ \A u \in Customers :
                   awards[id][u] # <<>> => new.owner = u
    BY <2>1, <2>4 DEF IInv, OwnersExist, OneAward
  <2>12. ASSUME id \notin overlapped \cup forgone, Unpaid(id)'
         PROVE  /\ row.id = id
                /\ \/ row.pc = "owner"
                   \/ row.pc = "check" /\ row.to = new.owner
    <3>1. CASE dto.status = "FINISHED"
      BY <2>5, <3>1
    <3>2. CASE dto.status # "FINISHED"
      <4>1. new.status = "FINISHED" /\ new.owner \in Customers /\ ~Awarded(id)
        BY <2>7, <2>12 DEF Unpaid, Awarded
      <4>2. order[id].status = "FINISHED"
        BY <2>4, <3>2, <4>1 DEF Sent
      <4>3. Unpaid(id)
        BY <2>1, <2>4, <4>1, <4>2 DEF Unpaid
      <4>4. PICK q \in Reqs : Rewards(req[q], id)
        BY <2>12, <4>3 DEF IInv, RewardComes
      <4>5. q = r
        BY <2>0, <2>12, <4>4 DEF Rewards, IInv, Alone
      <4> QED
        BY <1>1, <4>4, <4>5 DEF Rewards, At
    <3> QED
      BY <3>1, <3>2
  <2>13. unused' = unused \ {id}
    BY <2>0, <2>7
  <2> QED
    BY <2>0, <2>1, <2>4, <2>8, <2>9, <2>10, <2>11, <2>12, <2>13, WriteStep
<1> QED
  BY <1>2, <1>3

\* The award is for the owner of now.
LEMMA ReadOwnerStep ==
  ASSUME IInv, NEW r \in Reqs, ReadOwner(r)
  PROVE  IInv'
<1>1. req[r].pc = "owner" /\ Reading
  BY DEF ReadOwner
<1>2. /\ UNCHANGED <<customers, unused, order, awards>>
      /\ UNCHANGED <<overlapped, forgone>>
  BY <1>1 DEF Reading, tables, history
<1>0. PICK id \in OrderIds : id = req[r].id
  BY <1>1, StageOf
<1>3. id \notin unused /\ req[r] \in ReqRow /\ AwardStage(req[r])
  BY <1>0, <1>1, StageOf
<1> DEFINE to  == IF order[id] # None /\ order[id].owner # None
                  THEN order[id].owner ELSE Guest
           row == WithTo(req[r], "check", to)
<1>4. to \in Customers \cup {Guest} /\ "check" \in Places
  BY DEF IInv, TypeOK, OwnersExist, Places
<1>5. req' = [req EXCEPT ![r] = row]
  BY <1>0 DEF ReadOwner, Exists, Row, WithTo, IInv, TypeOK
<1>6. order[id] # None =>
        /\ order[id].owner \in {to, None}
        /\ to \in customers => order[id].owner = to
  <2>1. Guest \notin customers
    BY NullApart DEF IInv, TypeOK
  <2> QED
    BY <2>1
<1>7. order[id] # None /\ order[id].owner \in Customers => to = order[id].owner
  BY NullApart
<1> HIDE DEF to, row
<1>8. req'[r] = row
  BY <1>5 DEF IInv, TypeOK
<1>9. /\ row \in ReqRow /\ row.pc = "check" /\ row.kind = "award"
      /\ row.id = id /\ row.to = to /\ row.amount = req[r].amount
  BY <1>0, <1>3, <1>4, CustomerIsKnown DEF row, AwardStage
<1>10. StageOK(r)'
  <2>1. AwardStage(row)
    BY <1>4, <1>9 DEF AwardStage
  <2> QED
    BY <1>2, <1>3, <1>8, <1>9, <2>1 DEF StageOK
<1>11. ASSUME row.id \in OrderIds \ overlapped'
       PROVE  RelyOK(r)'
  <2>1. RelyOK(r)
    BY <1>0, <1>2, <1>9, <1>11 DEF IInv, RequestsOK
  <2>2. order[id] # None => /\ order[id].status = "FINISHED"
                            /\ req[r].amount = order[id].total - order[id].fee
    BY <1>0, <1>1, <2>1 DEF RelyOK, Exists, Row, AwardOK
  <2> QED
    BY <1>2, <1>6, <1>8, <1>9, <2>2 DEF RelyOK, Exists, Row, AwardOK
<1>12. \A o : Unpaid(o) /\ Rewards(req[r], o) => Rewards(row, o)
  BY <1>0, <1>7, <1>9 DEF Unpaid, Rewards
<1>13. overlapped \subseteq OrderIds /\ forgone \subseteq OrderIds
  BY DEF IInv, TypeOK
<1> QED
  BY <1>0, <1>2, <1>5, <1>9, <1>10, <1>11, <1>12, <1>13, LocalStep
     DEF tables

-----------------------------------------------------------------------------
(* Awarding points. *)

\* Nothing to award, or on to the award.
LEMMA CheckAwardStep ==
  ASSUME IInv, NEW r \in Reqs, CheckAward(r)
  PROVE  IInv'
<1>1. req[r].pc = "check" /\ UNCHANGED <<tables, overlapped>>
  BY DEF CheckAward
<1>0. PICK id \in OrderIds : id = req[r].id
  BY <1>1, StageOf
<1>2. id \notin unused /\ req[r] \in ReqRow /\ AwardStage(req[r])
  BY <1>0, <1>1, StageOf
<1>3. forgone' = IF req[r].amount <= 0 THEN forgone \cup {id} ELSE forgone
  BY <1>0 DEF CheckAward
<1>4. /\ forgone \subseteq forgone' /\ forgone' \subseteq OrderIds
      /\ overlapped \subseteq OrderIds
  BY <1>3 DEF IInv, TypeOK
<1> DEFINE over == \/ req[r].to = Guest
                   \/ req[r].amount <= 0
                   \/ Awarded(id)
<1>5. CASE over
  <2>1. Done(r)
    BY <1>0, <1>5 DEF CheckAward
  <2>2. ASSUME NEW o \in OrderIds \ (overlapped \cup forgone'),
               Unpaid(o), Rewards(req[r], o)
        PROVE  FALSE
    <3>1. o = id /\ req[r].to = order[id].owner
      BY <1>0, <1>1, <2>2 DEF Rewards
    <3>2. req[r].to \in Customers /\ ~Awarded(id)
      BY <2>2, <3>1 DEF Unpaid
    <3>3. ~(req[r].amount <= 0)
      BY <1>3, <2>2, <3>1
    <3> QED
      BY <1>5, <3>2, <3>3, NullApart
  <2> QED
    BY <1>1, <1>4, <2>1, <2>2, EndStep
<1>6. CASE ~over
  <2>1. Goto(r, "award") /\ "award" \in Places
    BY <1>0, <1>6 DEF CheckAward, Places
  <2>2. /\ req[r].to \in Customers /\ req[r].amount \in Nat \ {0}
        /\ ~Awarded(id) /\ forgone' = forgone
    <3>1. req[r].to \in Customers \cup {Guest} /\ req[r].amount \in Int
      BY <1>1, <1>2 DEF AwardStage, ReqRow
    <3> QED
      BY <1>3, <1>6, <3>1
  <2>3. UNCHANGED <<customers, unused, order, awards, overlapped>>
    BY <1>1 DEF tables
  <2> DEFINE row == Moved(req[r], "award")
  <2> HIDE DEF row
  <2>4. /\ row \in ReqRow /\ row.pc = "award" /\ row.kind = "award"
        /\ row.id = id /\ row.to = req[r].to /\ row.amount = req[r].amount
        /\ req' = [req EXCEPT ![r] = row] /\ req'[r] = row
    BY <1>0, <1>2, <2>1, GotoMoves DEF row, AwardStage
  <2>5. StageOK(r)'
    <3>1. AwardStage(row)
      BY <2>2, <2>4 DEF AwardStage
    <3> QED
      BY <1>2, <2>3, <2>4, <3>1 DEF StageOK
  <2>6. ASSUME row.id \in OrderIds \ overlapped'
        PROVE  RelyOK(r)'
    <3>1. RelyOK(r)
      BY <1>0, <2>3, <2>4, <2>6 DEF IInv, RequestsOK
    <3>2. order[id] # None => AwardOK(req[r], order[id])
      BY <1>0, <1>1, <3>1 DEF RelyOK, Exists, Row
    <3> QED
      BY <1>1, <2>2, <2>3, <2>4, <3>2
         DEF RelyOK, Exists, Row, AwardOK, Awarded
  <2>7. \A o : Rewards(req[r], o) => Rewards(row, o)
    BY <1>0, <1>1, <2>4 DEF Rewards
  <2> QED
    BY <1>0, <1>1, <1>4, <2>2, <2>4, <2>5, <2>6, <2>7, LocalStep
<1> QED
  BY <1>5, <1>6

\* The points are posted: one award more, one request less that is due.
LEMMA AwardStep ==
  ASSUME IInv, NEW r \in Reqs, Award(r)
  PROVE  IInv'
<1>1. /\ req[r].pc = "award" /\ req[r].to \in customers /\ Done(r)
      /\ UNCHANGED <<customers, unused, order, overlapped, forgone>>
  BY DEF Award, history
<1>0. PICK id \in OrderIds, to \in Customers, n \in Nat \ {0} :
        id = req[r].id /\ to = req[r].to /\ n = req[r].amount
  BY <1>1, StageOf DEF AwardStage
<1> DEFINE paid == [awards[id] EXCEPT ![to] = Append(awards[id][to], n)]
<1>2. id \notin unused /\ to \in customers
  BY <1>0, <1>1, StageOf
<1>3. /\ awards[id] \in [Customers -> Seq(Nat \ {0})]
      /\ Append(awards[id][to], n) \in Seq(Nat \ {0})
      /\ Len(Append(awards[id][to], n)) = Len(awards[id][to]) + 1
      /\ Append(awards[id][to], n) # <<>>
  <2>1. awards[id] \in [Customers -> Seq(Nat \ {0})]
    BY DEF IInv, TypeOK
  <2> DEFINE s == awards[id][to]
  <2>2. s \in Seq(Nat \ {0})
    BY <2>1
  <2> HIDE DEF s
  <2>3. /\ Append(s, n) \in Seq(Nat \ {0})
        /\ Len(Append(s, n)) = Len(s) + 1
        /\ Append(s, n) # <<>>
    BY <2>2
  <2> QED
    BY <2>1, <2>3 DEF s
<1>4. /\ paid \in [Customers -> Seq(Nat \ {0})]
      /\ paid[to] = Append(awards[id][to], n)
      /\ \A u \in Customers \ {to} : paid[u] = awards[id][u]
  BY <1>3
<1>5. awards' = [awards EXCEPT ![id] = paid]
  BY <1>0 DEF Award, IInv, TypeOK
<1> HIDE DEF paid
<1>6. /\ awards' \in [OrderIds -> [Customers -> Seq(Nat \ {0})]]
      /\ awards'[id] = paid
      /\ \A o \in OrderIds \ {id} : awards'[o] = awards[o]
  BY <1>4, <1>5 DEF IInv, TypeOK
<1>7. req' = [req EXCEPT ![r] = Idle] /\ req'[r] = Idle
  BY <1>1 DEF Done, IInv, TypeOK
<1>8. id \notin overlapped =>
        /\ \A u \in Customers : awards[id][u] = <<>>
        /\ order[id] # None => order[id].owner = to
  <2>1. id \notin overlapped => RelyOK(r)
    BY <1>0 DEF IInv, RequestsOK
  <2> QED
    BY <1>0, <1>1, <1>2, <2>1 DEF RelyOK, Exists, Row, AwardOK, Awarded
<1>9. TypeOK'
  BY <1>1, <1>6, <1>7, IdleType DEF IInv, TypeOK
<1>10. RequestsOK' /\ Alone'
  <2>1. StageOK(r)'
    BY <1>7, IdleType DEF StageOK
  <2> QED
    BY <1>0, <1>1, <1>6, <1>7, <2>1, IdleType, NullApart, RequestMoves
<1>11. UnusedOK'
  BY <1>1, <1>2, <1>6 DEF IInv, TypeOK, UnusedOK, Awarded
<1>12. OwnersExist'
  <2>1. ASSUME NEW o \in OrderIds, NEW u \in Customers, awards'[o][u] # <<>>
        PROVE  u \in customers
    <3>1. CASE o = id /\ u = to
      BY <1>2, <3>1
    <3>2. CASE ~(o = id /\ u = to)
      BY <1>4, <1>6, <2>1, <3>2 DEF IInv, OwnersExist
    <3> QED
      BY <3>1, <3>2
  <2> QED
    BY <1>1, <2>1 DEF IInv, OwnersExist
<1>13. OneAward'
  <2> SUFFICES ASSUME NEW o \in OrderIds \ overlapped
               PROVE  /\ \A u \in Customers :
                           awards'[o][u] # <<>> =>
                             /\ Len(awards'[o][u]) = 1
                             /\ order[o] # None => order[o].owner = u
                      /\ \A u, v \in Customers :
                           awards'[o][u] # <<>> /\ awards'[o][v] # <<>>
                           => u = v
    BY <1>1 DEF OneAward
  <2>1. CASE o # id
    <3>1. awards'[o] = awards[o]
      BY <1>6, <2>1
    <3> QED
      BY <3>1 DEF IInv, OneAward
  <2>2. CASE o = id
    <3>1. Len(awards'[o][to]) = 1
      <4>1. Len(awards[id][to]) = 0
        BY <1>8, <2>2
      <4> QED
        BY <1>3, <1>4, <1>6, <2>2, <4>1
    <3>2. \A u \in Customers : awards'[o][u] # <<>> => u = to
      BY <1>4, <1>6, <1>8, <2>2
    <3> QED
      BY <1>8, <2>2, <3>1, <3>2
  <2> QED
    BY <2>1, <2>2
<1>14. RewardComes'
  <2> SUFFICES ASSUME NEW o \in OrderIds \ (overlapped \cup forgone),
                      Unpaid(o)'
               PROVE  \E q \in Reqs : Rewards(req[q], o)'
    BY <1>1 DEF RewardComes
  <2>1. o # id
    BY <1>3, <1>4, <1>6 DEF Unpaid, Awarded
  <2>2. Unpaid(o)
    BY <1>1, <1>6, <2>1 DEF Unpaid, Awarded
  <2>3. PICK q \in Reqs : Rewards(req[q], o)
    BY <2>2 DEF IInv, RewardComes
  <2>4. req'[q] = req[q]
    BY <1>0, <1>7, <2>1, <2>3 DEF Rewards, IInv, TypeOK
  <2> QED
    BY <1>1, <2>3, <2>4 DEF Rewards
<1>15. DueBounded'
  <2> SUFFICES ASSUME NEW o \in OrderIds
               PROVE  AwardCount(o)' + Cardinality(Due(o)') <= Cardinality(Reqs)
    BY DEF DueBounded
  <2>1. /\ AwardCount(o) \in Nat /\ Cardinality(Due(o)) \in Nat
        /\ AwardCount(o) + Cardinality(Due(o)) <= Cardinality(Reqs)
        /\ Cardinality(Reqs) \in Nat
    BY AwardCounts, DueCounts DEF IInv, DueBounded
  <2>2. \A q \in Reqs \ {r} : req'[q] = req[q]
    BY <1>7
  <2>3. CASE o # id
    <3>1. AwardCount(o)' = AwardCount(o)
      BY <1>6, <2>3 DEF AwardCount
    <3>2. Due(o)' = Due(o)
      BY <1>0, <1>7, <2>2, <2>3, IdleType DEF Due
    <3> QED
      BY <2>1, <3>1, <3>2
  <2>4. CASE o = id
    <3>1. AwardCount(o)' = AwardCount(o) + 1
      <4>1. Count(paid) = Count(awards[id]) + Len(Append(awards[id][to], n))
                            - Len(awards[id][to])
        BY <1>3, CountChanged DEF paid
      <4>2. Len(awards[id][to]) \in Nat /\ Count(awards[id]) \in Nat
        BY <1>3, CountNone
      <4>3. Count(paid) = Count(awards[id]) + 1
        BY <1>3, <4>1, <4>2
      <4> QED
        BY <1>6, <2>4, <4>3 DEF AwardCount, Count
    <3>2. r \in Due(o) /\ Due(o)' = Due(o) \ {r}
      BY <1>0, <1>1, <1>7, <2>2, <2>4, IdleType DEF Due
    <3>3. Cardinality(Due(o)') = Cardinality(Due(o)) - 1
      BY <3>2, DueCounts, FS_RemoveElement
    <3> QED
      BY <2>1, <3>1, <3>3
  <2> QED
    BY <2>3, <2>4
<1>16. TotalCoversItems' /\ FeeFollowsType'
  BY <1>1 DEF IInv, TotalCoversItems, FeeFollowsType, LinesTotal, FeeOf
<1> QED
  BY <1>9, <1>10, <1>11, <1>12, <1>13, <1>14, <1>15, <1>16 DEF IInv

\* The award is lost, and that is recorded.
LEMMA LostAwardStep ==
  ASSUME IInv, NEW r \in Reqs, AwardFails(r) \/ Die(r)
  PROVE  IInv'
<1>1. /\ req[r].pc # "idle" /\ Done(r) /\ UNCHANGED <<tables, overlapped>>
      /\ forgone' = IF req[r].pc \in {"owner", "check", "award"}
                    THEN forgone \cup {req[r].id} ELSE forgone
  BY DEF AwardFails, Die
<1>2. req[r].id \in OrderIds
  BY <1>1, StageOf
<1>3. forgone \subseteq forgone' /\ forgone' \subseteq OrderIds
  BY <1>1, <1>2 DEF IInv, TypeOK
<1>4. \A o \in OrderIds \ forgone' : ~Rewards(req[r], o)
  BY <1>1 DEF Rewards
<1> QED
  BY <1>1, <1>3, <1>4, EndStep

-----------------------------------------------------------------------------
(* Estimates, and what happens around the orders. *)

\* The order is still to come.
LEMMA ReadForReadyStep ==
  ASSUME IInv, NEW r \in Reqs, ReadForReady(r)
  PROVE  IInv'
<1>1. At(r, "ready", "read")
  BY DEF ReadForReady
<1>2. CASE Throw(r)
  BY <1>1, <1>2, ThrowStep DEF At
<1>3. CASE ~Throw(r)
  <2>1. /\ Row(r).store = req[r].store
        /\ Row(r).status \in {"CONFIRMED", "IN_PROGRESS"}
        /\ Goto(r, "write") /\ Reading
    BY <1>3 DEF ReadForReady
  <2>2. UNCHANGED <<customers, unused, order, awards>>
    BY <2>1 DEF Reading, tables
  <2>3. req[r].id \in OrderIds \ unused /\ "write" \in Places
    BY <1>1, StageOf DEF At, Places
  <2> DEFINE row == Moved(req[r], "write")
  <2> HIDE DEF row
  <2>4. /\ row \in ReqRow /\ row.pc = "write" /\ row.kind = "ready"
        /\ row.id = req[r].id /\ row.store = req[r].store
        /\ req' = [req EXCEPT ![r] = row] /\ req'[r] = row
    BY <1>1, <2>1, <2>3, GotoMoves DEF row, At
  <2>5. StageOK(r)'
    BY <2>2, <2>3, <2>4 DEF StageOK, ReadyStage
  <2>6. RelyOK(r)'
    BY <2>1, <2>2, <2>4 DEF RelyOK, Row
  <2> QED
    BY <1>1, <2>1, <2>4, <2>5, <2>6, GoOn DEF At
<1> QED
  BY <1>2, <1>3

\* An order is deleted that no claim holds.
LEMMA AdminDeleteStep ==
  ASSUME IInv, NEW id \in OrderIds, AdminDelete(id)
  PROVE  IInv'
<1>1. /\ order' = [order EXCEPT ![id] = None] /\ Holding(id) = {}
      /\ UNCHANGED <<customers, unused, awards, req, overlapped, forgone>>
  BY DEF AdminDelete, history
<1>2. /\ order' \in [OrderIds -> OrderRow \cup {None}] /\ order'[id] = None
      /\ \A o \in OrderIds \ {id} : order'[o] = order[o]
  BY <1>1 DEF IInv, TypeOK
<1>3. TypeOK'
  BY <1>1, <1>2 DEF IInv, TypeOK
<1>4. RequestsOK'
  <2> SUFFICES ASSUME NEW r \in Reqs
               PROVE  /\ StageOK(r)' /\ HoldOK(r)'
                      /\ req[r].id \in OrderIds \ overlapped => RelyOK(r)'
    BY <1>1 DEF RequestsOK
  <2>1. StageOK(r)'
    BY <1>1 DEF IInv, RequestsOK, StageOK, PlaceStage, InStoreStage,
                CancelStage, ClaimStage, ReadyStage, UpdateStage, AwardStage
  <2>2. HoldOK(r)'
    <3> SUFFICES ASSUME At(r, "claim", "order") \/ At(r, "claim", "commit")
                 PROVE  /\ Exists(r)' /\ req[r].by \in customers
                        /\ \A q \in Holding(req[r].id) : q = r
      BY <1>1 DEF HoldOK, At, Holding, Handling
    <3>1. r \in Holding(req[r].id) /\ req[r].id \in OrderIds
      BY ClaimHolds
    <3>2. HoldOK(r) /\ req[r].id # id
      BY <1>1, <3>1 DEF IInv, RequestsOK
    <3> QED
      BY <1>1, <1>2, <3>1, <3>2 DEF HoldOK, Exists, Row
  <2>3. ASSUME req[r].id \in OrderIds \ overlapped
        PROVE  RelyOK(r)'
    <3>1. RelyOK(r)
      BY <2>3 DEF IInv, RequestsOK
    <3>2. CASE req[r].id = id
      BY <1>1, <1>2, <3>1, <3>2 DEF RelyOK, Exists, Row, Awarded
    <3>3. CASE req[r].id # id
      <4>1. order'[req[r].id] = order[req[r].id]
        BY <1>2, <2>3, <3>3
      <4> QED
        BY <1>1, <3>1, <4>1
           DEF RelyOK, Exists, Row, Awarded, AwardOK, SeenByEdit, SeenByClaim,
               Closed
    <3> QED
      BY <3>2, <3>3
  <2> QED
    BY <2>1, <2>2, <2>3
<1>5. Alone'
  BY <1>1 DEF IInv, Alone
<1>6. UnusedOK' /\ OwnersExist' /\ OneAward'
  <2>1. UnusedOK'
    BY <1>1, <1>2 DEF IInv, TypeOK, UnusedOK, Awarded
  <2>2. OwnersExist'
    BY <1>1, <1>2 DEF IInv, OwnersExist
  <2>3. OneAward'
    BY <1>1, <1>2 DEF IInv, OneAward
  <2> QED
    BY <2>1, <2>2, <2>3
<1>7. RewardComes'
  <2> SUFFICES ASSUME NEW o \in OrderIds \ (overlapped \cup forgone),
                      Unpaid(o)'
               PROVE  \E q \in Reqs : Rewards(req[q], o)'
    BY <1>1 DEF RewardComes
  <2>1. o # id
    BY <1>2 DEF Unpaid
  <2>2. Unpaid(o)
    BY <1>1, <1>2, <2>1 DEF Unpaid, Awarded
  <2>3. PICK q \in Reqs : Rewards(req[q], o)
    BY <2>2 DEF IInv, RewardComes
  <2> QED
    BY <1>1, <1>2, <2>1, <2>3 DEF Rewards
<1>8. DueBounded'
  BY <1>1 DEF IInv, DueBounded, AwardCount, Due
<1>9. TotalCoversItems' /\ FeeFollowsType'
  BY <1>1, <1>2 DEF IInv, TotalCoversItems, FeeFollowsType, LinesTotal, FeeOf
<1> QED
  BY <1>3, <1>4, <1>5, <1>6, <1>7, <1>8, <1>9 DEF IInv

\* An account goes: it owns no order and has no points any more.
LEMMA DeleteCustomerStep ==
  ASSUME IInv, NEW u \in Customers, DeleteCustomer(u)
  PROVE  IInv'
<1>1. /\ u \in customers /\ customers' = customers \ {u}
      /\ \A o \in OrderIds : \A r \in Holding(o) : req[r].by # u
      /\ order' = [o \in OrderIds |->
                     IF order[o] # None /\ order[o].owner = u
                     THEN [order[o] EXCEPT !.owner = None] ELSE order[o]]
      /\ awards' = [o \in OrderIds |-> [awards[o] EXCEPT ![u] = <<>>]]
      /\ UNCHANGED <<unused, req, overlapped, forgone>>
  BY DEF DeleteCustomer, history
<1>2. ASSUME NEW o \in OrderIds
      PROVE  /\ order'[o] \in OrderRow \cup {None}
             /\ order[o] = None <=> order'[o] = None
             /\ order[o] # None =>
                  /\ order'[o].status = order[o].status
                  /\ order'[o].store = order[o].store
                  /\ order'[o].type = order[o].type
                  /\ order'[o].address = order[o].address
                  /\ order'[o].fee = order[o].fee
                  /\ order'[o].total = order[o].total
                  /\ order'[o].byHand = order[o].byHand
                  /\ order'[o].lines = order[o].lines
                  /\ order'[o].owner = IF order[o].owner = u
                                       THEN None ELSE order[o].owner
  <2>1. order[o] \in OrderRow \cup {None}
    BY DEF IInv, TypeOK
  <2>2. CASE order[o] # None /\ order[o].owner = u
    <3>1. order'[o] = [order[o] EXCEPT !.owner = None] /\ order[o] \in OrderRow
      BY <1>1, <2>1, <2>2
    <3>2. order'[o] \in OrderRow
      BY <3>1 DEF OrderRow
    <3> QED
      BY <2>2, <3>1, <3>2, NullApart DEF OrderRow
  <2>3. CASE ~(order[o] # None /\ order[o].owner = u)
    BY <1>1, <2>1, <2>3
  <2> QED
    BY <2>2, <2>3
<1>3. ASSUME NEW o \in OrderIds
      PROVE  /\ awards'[o] = [awards[o] EXCEPT ![u] = <<>>]
             /\ awards[o] \in [Customers -> Seq(Nat \ {0})]
             /\ awards'[o] \in [Customers -> Seq(Nat \ {0})]
             /\ \A v \in Customers :
                  awards'[o][v] # <<>> => v # u /\ awards'[o][v] = awards[o][v]
             /\ \A v \in Customers \ {u} : awards'[o][v] = awards[o][v]
  <2>1. awards[o] \in [Customers -> Seq(Nat \ {0})]
    BY DEF IInv, TypeOK
  <2>2. awards'[o] = [awards[o] EXCEPT ![u] = <<>>]
    BY <1>1
  <2>3. <<>> \in Seq(Nat \ {0})
    OBVIOUS
  <2> QED
    BY <2>1, <2>2, <2>3
<1>4. \A o \in OrderIds : Awarded(o)' => Awarded(o)
  BY <1>3 DEF Awarded
<1>5. TypeOK'
  <2>1. order' \in [OrderIds -> OrderRow \cup {None}]
    BY <1>1, <1>2
  <2>2. awards' \in [OrderIds -> [Customers -> Seq(Nat \ {0})]]
    BY <1>1, <1>3
  <2> QED
    BY <1>1, <2>1, <2>2 DEF IInv, TypeOK
<1>6. RequestsOK'
  <2> SUFFICES ASSUME NEW r \in Reqs
               PROVE  /\ StageOK(r)' /\ HoldOK(r)'
                      /\ req[r].id \in OrderIds \ overlapped => RelyOK(r)'
    BY <1>1 DEF RequestsOK
  <2>1. StageOK(r)'
    BY <1>1 DEF IInv, RequestsOK, StageOK, PlaceStage, InStoreStage,
                CancelStage, ClaimStage, ReadyStage, UpdateStage, AwardStage
  <2>2. HoldOK(r)'
    <3> SUFFICES ASSUME At(r, "claim", "order") \/ At(r, "claim", "commit")
                 PROVE  /\ Exists(r)' /\ req[r].by \in customers \ {u}
                        /\ \A q \in Holding(req[r].id) : q = r
      BY <1>1 DEF HoldOK, At, Holding, Handling
    <3>1. r \in Holding(req[r].id) /\ req[r].id \in OrderIds
      BY ClaimHolds
    <3>2. HoldOK(r) /\ req[r].by # u
      BY <1>1, <3>1 DEF IInv, RequestsOK
    <3> QED
      BY <1>1, <1>2, <3>1, <3>2 DEF HoldOK, Exists, Row
  <2>3. ASSUME NEW id \in OrderIds \ overlapped, req[r].id = id
        PROVE  RelyOK(r)'
    <3>1. RelyOK(r)
      BY <2>3 DEF IInv, RequestsOK
    <3>2. req[r].pc = "award" => ~Awarded(req[r].id)'
      BY <1>4, <2>3, <1>1, <3>1 DEF RelyOK, Awarded
    <3> DEFINE row == order[id]
               now == order'[id]
    <3>3. CASE row = None
      BY <1>1, <1>2, <2>3, <3>2, <3>3 DEF RelyOK, Exists, Row
    <3>4. CASE row # None
      <4>1. /\ now # None
            /\ now.status = row.status /\ now.store = row.store
            /\ now.total = row.total /\ now.fee = row.fee
            /\ SeenByEdit(now) = SeenByEdit(row)
            /\ SeenByClaim(now) = SeenByClaim(row)
            /\ now.owner = IF row.owner = u THEN None ELSE row.owner
        BY <1>2, <3>4 DEF SeenByEdit, SeenByClaim
      <4>2. row.owner = Guest => now.owner = Guest
        BY <4>1, NullApart
      <4> HIDE DEF row, now
      <4>3. Row(r) = row /\ Row(r)' = now
        BY <1>1, <2>3 DEF Row, row, now
      <4>4. AwardOK(req[r], Row(r)) => AwardOK(req[r], Row(r))'
        BY <1>1, <4>1, <4>3 DEF AwardOK
      <4> QED
        BY <1>1, <2>3, <3>1, <3>2, <3>4, <4>1, <4>2, <4>3, <4>4
           DEF RelyOK, Exists, Closed, AwardOK
    <3> QED
      BY <3>3, <3>4
  <2> QED
    BY <2>1, <2>2, <2>3
<1>7. Alone'
  BY <1>1 DEF IInv, Alone
<1>8. UnusedOK'
  BY <1>1, <1>2, <1>4 DEF IInv, TypeOK, UnusedOK, Awarded
<1>9. OwnersExist'
  <2>1. ASSUME NEW o \in OrderIds, order'[o] # None
        PROVE  order'[o].owner \in customers' \cup {Guest, None}
    BY <1>1, <1>2, <2>1 DEF IInv, OwnersExist
  <2>2. ASSUME NEW o \in OrderIds, NEW v \in Customers, awards'[o][v] # <<>>
        PROVE  v \in customers'
    BY <1>1, <1>3, <2>2 DEF IInv, OwnersExist
  <2> QED
    BY <2>1, <2>2 DEF OwnersExist
<1>10. OneAward'
  <2> SUFFICES ASSUME NEW o \in OrderIds \ overlapped
               PROVE  /\ \A v \in Customers :
                           awards'[o][v] # <<>> =>
                             /\ Len(awards'[o][v]) = 1
                             /\ order'[o] # None => order'[o].owner = v
                      /\ \A v, w \in Customers :
                           awards'[o][v] # <<>> /\ awards'[o][w] # <<>>
                           => v = w
    BY <1>1 DEF OneAward
  <2>1. ASSUME NEW v \in Customers, awards'[o][v] # <<>>
        PROVE  /\ v # u /\ awards'[o][v] = awards[o][v]
               /\ Len(awards[o][v]) = 1
               /\ order[o] # None => order[o].owner = v
    <3>1. v # u /\ awards'[o][v] = awards[o][v] /\ awards[o][v] # <<>>
      BY <1>3, <2>1
    <3> QED
      BY <3>1 DEF IInv, OneAward
  <2>2. ASSUME NEW v \in Customers, NEW w \in Customers,
               awards'[o][v] # <<>>, awards'[o][w] # <<>>
        PROVE  v = w
    <3>1. awards[o][v] # <<>> /\ awards[o][w] # <<>>
      BY <1>3, <2>2
    <3> QED
      BY <3>1 DEF IInv, OneAward
  <2> QED
    BY <1>2, <2>1, <2>2
<1>11. RewardComes'
  <2> SUFFICES ASSUME NEW o \in OrderIds \ (overlapped \cup forgone),
                      Unpaid(o)'
               PROVE  \E q \in Reqs : Rewards(req[q], o)'
    BY <1>1 DEF RewardComes
  <2>1. /\ order[o] # None /\ order[o].status = "FINISHED"
        /\ order'[o].owner = order[o].owner /\ order[o].owner # u
        /\ order[o].owner \in Customers
    BY <1>2, NullApart DEF Unpaid
  <2>2. ~Awarded(o)
    <3> SUFFICES ASSUME NEW v \in Customers, awards[o][v] # <<>>
                 PROVE  FALSE
      BY DEF Awarded
    <3>1. v = order[o].owner
      BY <2>1 DEF IInv, OneAward
    <3>2. awards'[o][v] # <<>>
      BY <1>3, <2>1, <3>1
    <3> QED
      BY <3>2 DEF Unpaid, Awarded
  <2>3. PICK q \in Reqs : Rewards(req[q], o)
    BY <2>1, <2>2 DEF IInv, RewardComes, Unpaid
  <2> QED
    BY <1>1, <2>1, <2>3 DEF Rewards
<1>12. DueBounded'
  <2> SUFFICES ASSUME NEW o \in OrderIds
               PROVE  AwardCount(o)' + Cardinality(Due(o)') <= Cardinality(Reqs)
    BY DEF DueBounded
  <2>1. /\ AwardCount(o) \in Nat /\ Cardinality(Due(o)) \in Nat
        /\ AwardCount(o) + Cardinality(Due(o)) <= Cardinality(Reqs)
        /\ Cardinality(Reqs) \in Nat
    BY AwardCounts, DueCounts DEF IInv, DueBounded
  <2>2. Due(o)' = Due(o)
    BY <1>1 DEF Due
  <2>3. /\ AwardCount(o)' = AwardCount(o) + Len(<<>>) - Len(awards[o][u])
        /\ Len(awards[o][u]) \in Nat
    <3>1. Count([awards[o] EXCEPT ![u] = <<>>])
            = Count(awards[o]) + Len(<<>>) - Len(awards[o][u])
      <4>1. awards[o] \in [Customers -> Seq(Nat \ {0})]
        BY <1>3
      <4>2. <<>> \in Seq(Nat \ {0})
        OBVIOUS
      <4> QED
        BY <4>1, <4>2, CountChanged
    <3>2. AwardCount(o)' = Count(awards'[o]) /\ AwardCount(o) = Count(awards[o])
      BY DEF AwardCount, Count
    <3>3. Len(awards[o][u]) \in Nat
      BY <1>3
    <3> QED
      BY <1>3, <3>1, <3>2, <3>3
  <2> QED
    BY <2>1, <2>2, <2>3
<1>13. TotalCoversItems' /\ FeeFollowsType'
  <2>1. TotalCoversItems'
    BY <1>1, <1>2 DEF IInv, TotalCoversItems, LinesTotal
  <2>2. FeeFollowsType'
    BY <1>2 DEF IInv, FeeFollowsType, FeeOf
  <2> QED
    BY <2>1, <2>2
<1> QED
  BY <1>5, <1>6, <1>7, <1>8, <1>9, <1>10, <1>11, <1>12, <1>13 DEF IInv

\* Nothing happens.
LEMMA StutterStep ==
  ASSUME IInv, UNCHANGED vars
  PROVE  IInv'
BY DEF vars, IInv, TypeOK, RequestsOK, StageOK, PlaceStage, InStoreStage,
       CancelStage, ClaimStage, ReadyStage, UpdateStage, AwardStage, HoldOK,
       At, Exists, Row, Holding, Handling, RelyOK, AwardOK, Awarded, Alone,
       UnusedOK, OwnersExist, OneAward, RewardComes, Unpaid, Rewards,
       DueBounded, Due, AwardCount, TotalCoversItems, FeeFollowsType

\* Every step keeps the invariant.
LEMMA NextInvariant ==
  ASSUME IInv, [Next]_vars
  PROVE  IInv'
<1>1. ASSUME NEW r \in Reqs, Step(r)
      PROVE  IInv'
  <2>1. CASE ResolveStore(r)
    BY <2>1, ResolveStoreStep
  <2>2. CASE ReadMenu(r) \/ CommitOrder(r)
    BY <2>2, ReadMenuStep, CommitOrderStep
  <2>3. CASE FindCustomer(r) \/ CommitInStore(r)
    BY <2>3, FindCustomerStep, CommitInStoreStep
  <2>4. CASE ReadCancel(r) \/ WriteCancel(r)
    BY <2>4, ReadCancelStep, WriteCancelStep
  <2>5. CASE ReadClaim(r) \/ LinkOrder(r)
    BY <2>5, ReadClaimStep, LinkOrderStep
  <2>6. CASE ReadClaimed(r) \/ CommitClaim(r)
    BY <2>6, ReadClaimedStep, CommitClaimStep
  <2>7. CASE ReadOrder(r) \/ WriteUpdate(r) \/ ReadOwner(r)
    BY <2>7, ReadOrderStep, WriteUpdateStep, ReadOwnerStep
  <2>8. CASE CheckAward(r) \/ Award(r) \/ AwardFails(r)
    BY <2>8, CheckAwardStep, AwardStep, LostAwardStep
  <2>9. CASE ReadForReady(r)
    BY <2>9, ReadForReadyStep
  <2>10. CASE WriteReady(r)
    <3>1. Throw(r) /\ req[r].pc = "write"
      BY <2>10 DEF WriteReady, Throw, At
    <3> QED
      BY <3>1, ThrowStep
  <2> QED
    BY <1>1, <2>1, <2>2, <2>3, <2>4, <2>5, <2>6, <2>7, <2>8, <2>9, <2>10
       DEF Step
<1>2. ASSUME NEW r \in Reqs, (\E o \in OrderIds : Start(r, o)) \/ Die(r)
      PROVE  IInv'
  BY <1>2, StartStep, LostAwardStep
<1>3. ASSUME Around
      PROVE  IInv'
  BY <1>3, AdminDeleteStep, DeleteCustomerStep DEF Around
<1> QED
  BY <1>1, <1>2, <1>3, StutterStep DEF Next

-----------------------------------------------------------------------------
(* The theorems. *)

\* The inductive invariant: requests are where their local variables say,
\* and what a request has read still holds if no other handled the order.
THEOREM OrdersInvariant == Spec => []IInv
<1>1. IInv /\ [Next]_vars => IInv'
  BY NextInvariant
<1> QED
  BY InitInvariant, <1>1, PTL DEF Spec

\* Rows keep their types: no edit makes a total or a quantity negative.
THEOREM OrdersTypeCorrect == Spec => []TypeOK
<1>1. IInv => TypeOK
  BY DEF IInv
<1> QED
  BY <1>1, OrdersInvariant, PTL

\* Points for an order are awarded once, through finishing, reopening,
\* claiming and deleting, as long as requests for it do not overlap.
THEOREM AwardedOncePerOrder == Spec => []PointsOncePerOrder
<1>1. IInv => PointsOncePerOrder
  <2> SUFFICES ASSUME IInv, NEW o \in OrderIds \ overlapped
               PROVE  AwardCount(o) <= 1
    BY DEF PointsOncePerOrder
  <2>1. awards[o] \in [Customers -> Seq(Nat \ {0})]
    BY DEF IInv, TypeOK
  <2>2. /\ \A u \in Customers : awards[o][u] # <<>> => Len(awards[o][u]) = 1
        /\ \A u, v \in Customers :
             awards[o][u] # <<>> /\ awards[o][v] # <<>> => u = v
    BY DEF IInv, OneAward
  <2> QED
    BY <2>1, <2>2, CountOne DEF AwardCount, Count
<1> QED
  BY <1>1, OrdersInvariant, PTL

\* However requests overlap, an order is awarded no more often than requests
\* can be in flight: each award was decided on when there was none.
THEOREM OverlapIsBounded == Spec => []AwardsBounded
<1>1. IInv => AwardsBounded
  <2> SUFFICES ASSUME IInv, NEW o \in OrderIds
               PROVE  AwardCount(o) <= Cardinality(Reqs)
    BY DEF AwardsBounded
  <2>1. /\ AwardCount(o) \in Nat /\ Cardinality(Due(o)) \in Nat
        /\ AwardCount(o) + Cardinality(Due(o)) <= Cardinality(Reqs)
        /\ Cardinality(Reqs) \in Nat
    BY AwardCounts, DueCounts DEF IInv, DueBounded
  <2> QED
    BY <2>1
<1> QED
  BY <1>1, OrdersInvariant, PTL

\* The owner of a finished order has the points for it when all requests for
\* it are over, unless the award was lost or for nothing or requests overlapped.
THEOREM OwnerIsRewarded == Spec => []FinishedOrderRewarded
<1>1. IInv => FinishedOrderRewarded
  BY DEF IInv, RewardComes, FinishedOrderRewarded, Unpaid, Rewards, Handling
<1> QED
  BY <1>1, OrdersInvariant, PTL

\* The total covers the items and the fee through any sequence of edits that
\* do not overlap.
THEOREM TotalsAddUp == Spec => []TotalCoversItems
<1>1. IInv => TotalCoversItems
  BY DEF IInv
<1> QED
  BY <1>1, OrdersInvariant, PTL

\* The fee is that of the type, even under concurrent edits.
THEOREM FeesFollowTypes == Spec => []FeeFollowsType
<1>1. IInv => FeeFollowsType
  BY DEF IInv
<1> QED
  BY <1>1, OrdersInvariant, PTL

\* An award is for a finished order, to its owner, for what it costs, unless
\* requests about the order overlapped.
THEOREM AwardsAreCurrent == Spec => []AwardIsCurrent
<1>1. IInv => AwardIsCurrent
  <2> SUFFICES ASSUME IInv, NEW r \in Reqs, req[r].pc = "award",
                      req[r].id \notin overlapped, Exists(r)
               PROVE  /\ Row(r).status = "FINISHED"
                      /\ Row(r).owner \in {req[r].to, None}
                      /\ req[r].amount = Row(r).total - Row(r).fee
    BY DEF AwardIsCurrent
  <2>1. req[r].id \in OrderIds
    BY StageOf
  <2> QED
    BY <2>1 DEF IInv, RequestsOK, RelyOK, AwardOK
<1> QED
  BY <1>1, OrdersInvariant, PTL

-----------------------------------------------------------------------------
(***************************************************************************)
(* The promise.  What OrderRewards says of an order follows from the one   *)
(* request that handles it; a step of that request changes nothing of the  *)
(* other orders.                                                           *)
(***************************************************************************)

\* Once it is settled whom a request awards, nobody else has the points.
PayeeOK ==
  \A r \in Reqs :
     /\ req[r].pc = "check"
     /\ req[r].id \notin overlapped
     /\ req[r].to \in Customers
     => \A u \in Customers \ {req[r].to} : awards[req[r].id][u] = <<>>

\* What q has to award, to whom: row, aw and accounts are what is stored.
NothingDue == [to |-> None, amount |-> 0]
Settling(q) == q.pc \in {"owner", "check", "award"}
PayeeOf(q, row) ==
  IF q.pc = "owner" THEN IF row # None THEN row.owner ELSE None ELSE q.to
DueOf(q, row, aw, accounts) ==
  IF /\ Settling(q) /\ PayeeOf(q, row) \in accounts /\ q.amount > 0
     /\ \A u \in Customers : aw[u] = <<>>
  THEN [to |-> PayeeOf(q, row), amount |-> q.amount]
  ELSE NothingDue

\* The points due for an order are those its request has to award ...
LEMMA DueOfRequest ==
  ASSUME Alone, NEW r \in Reqs, NEW o \in OrderIds \ overlapped,
         req[r].id = o
  PROVE  Dues[o] = DueOf(req[r], order[o], awards[o], customers)
<1>1. \A q \in Reqs : req[q].id = o => q = r
  BY DEF Alone
<1>2. r \in Awarding(o) <=> /\ Settling(req[r])
                            /\ PayeeOf(req[r], order[o]) \in customers
                            /\ req[r].amount > 0
  BY DEF Awarding, Handling, Settling, Payee, PayeeOf, Exists, Row
<1>3. Awarding(o) \subseteq {r}
  BY <1>1 DEF Awarding, Handling
<1>4. Payee(r) = PayeeOf(req[r], order[o])
  BY DEF Payee, PayeeOf, Exists, Row
<1>5. CASE Awarding(o) = {}
  BY <1>2, <1>5 DEF Dues, DueOf, NothingDue
<1>6. CASE Awarding(o) # {}
  <2>1. Awarding(o) = {r}
    BY <1>3, <1>6
  <2>2. (CHOOSE q \in Awarding(o) : TRUE) = r
    BY <2>1
  <2> QED
    BY <1>2, <1>4, <2>1, <2>2 DEF Dues, DueOf, NothingDue, Awarded
<1> QED
  BY <1>5, <1>6

\* ... before the step and after it.
LEMMA DueOfRequestAfter ==
  ASSUME Alone', NEW r \in Reqs, NEW o \in OrderIds \ overlapped',
         req'[r].id = o
  PROVE  Dues'[o] = DueOf(req'[r], order'[o], awards'[o], customers')
<1>1. \A q \in Reqs : req'[q].id = o => q = r
  BY DEF Alone
<1>2. r \in Awarding(o)' <=> /\ Settling(req'[r])
                             /\ PayeeOf(req'[r], order'[o]) \in customers'
                             /\ req'[r].amount > 0
  BY DEF Awarding, Handling, Settling, Payee, PayeeOf, Exists, Row
<1>3. Awarding(o)' \subseteq {r}
  BY <1>1 DEF Awarding, Handling
<1>4. Payee(r)' = PayeeOf(req'[r], order'[o])
  BY DEF Payee, PayeeOf, Exists, Row
<1>5. CASE Awarding(o)' = {}
  BY <1>2, <1>5 DEF Dues, DueOf, NothingDue
<1>6. CASE Awarding(o)' # {}
  <2>1. Awarding(o)' = {r}
    BY <1>3, <1>6
  <2>2. (CHOOSE q \in Awarding(o)' : TRUE) = r
    BY <2>1
  <2> QED
    BY <1>2, <1>4, <2>1, <2>2 DEF Dues, DueOf, NothingDue, Awarded
<1> QED
  BY <1>5, <1>6

\* Nothing is due for an order that no request is awarding.
LEMMA DueOfNone ==
  ASSUME NEW o \in OrderIds
  PROVE  /\ (\A q \in Reqs : req[q].id = o => ~Settling(req[q]))
              => Dues[o] = NothingDue
         /\ (\A q \in Reqs : req'[q].id = o => ~Settling(req'[q]))
              => Dues'[o] = NothingDue
<1>1. (\A q \in Reqs : req[q].id = o => ~Settling(req[q])) => Awarding(o) = {}
  BY DEF Awarding, Handling, Settling
<1>2. (\A q \in Reqs : req'[q].id = o => ~Settling(req'[q]))
        => Awarding(o)' = {}
  BY DEF Awarding, Handling, Settling
<1> QED
  BY <1>1, <1>2 DEF Dues, NothingDue

\* What is promised of an order does not change by what happens to others.
LEMMA OtherOrders ==
  ASSUME Alone, Alone', NEW o \in OrderIds,
         order'[o] = order[o], awards'[o] = awards[o],
         customers' = customers,
         o \in unused' <=> o \in unused,
         o \in overlapped' <=> o \in overlapped,
         \A q \in Reqs : o \in {req[q].id, req'[q].id} => req'[q] = req[q]
  PROVE  Book'[o] = Book[o] /\ Dues'[o] = Dues[o] /\ Paid'[o] = Paid[o]
<1>1. Book'[o] = Book[o]
  BY DEF Book, Unentered, Entered, Goods
<1>2. Paid'[o] = Paid[o]
  BY DEF Paid
<1>3. CASE o \in overlapped
  BY <1>1, <1>2, <1>3 DEF Dues
<1>4. CASE o \notin overlapped /\ \E q \in Reqs : req[q].id = o
  <2>1. PICK q \in Reqs : req[q].id = o
    BY <1>4
  <2>2. req'[q] = req[q]
    BY <2>1
  <2> QED
    BY <1>1, <1>2, <1>4, <2>1, <2>2, DueOfRequest, DueOfRequestAfter
<1>5. CASE ~\E q \in Reqs : req[q].id = o
  <2>1. \A q \in Reqs : req'[q].id # o
    BY <1>5
  <2> QED
    BY <1>1, <1>2, <1>5, <2>1, DueOfNone
<1> QED
  BY <1>3, <1>4, <1>5

\* A step that leaves what is promised of the other orders changes id alone.
LEMMA OneOrder ==
  ASSUME NEW id \in OrderIds,
         \A o \in OrderIds \ {id} :
           Book'[o] = Book[o] /\ Dues'[o] = Dues[o] /\ Paid'[o] = Paid[o]
  PROVE  /\ Book' = [Book EXCEPT ![id] = Book'[id]]
         /\ Dues' = [Dues EXCEPT ![id] = Dues'[id]]
         /\ Paid' = [Paid EXCEPT ![id] = Paid'[id]]
         /\ Book'[id] = Book[id] /\ Dues'[id] = Dues[id] /\ Paid'[id] = Paid[id]
              => Book' = Book /\ Dues' = Dues /\ Paid' = Paid
<1>1. /\ Book = [o \in OrderIds |-> Book[o]]
      /\ Book' = [o \in OrderIds |-> Book'[o]]
  BY DEF Book
<1>2. /\ Dues = [o \in OrderIds |-> Dues[o]]
      /\ Dues' = [o \in OrderIds |-> Dues'[o]]
  BY DEF Dues
<1>3. /\ Paid = [o \in OrderIds |-> Paid[o]]
      /\ Paid' = [o \in OrderIds |-> Paid'[o]]
  BY DEF Paid
<1>4. Book' = [Book EXCEPT ![id] = Book'[id]]
  BY <1>1
<1>5. Dues' = [Dues EXCEPT ![id] = Dues'[id]]
  BY <1>2
<1>6. Paid' = [Paid EXCEPT ![id] = Paid'[id]]
  BY <1>3
<1>7. Book'[id] = Book[id] => Book' = Book
  BY <1>1
<1>8. Dues'[id] = Dues[id] => Dues' = Dues
  BY <1>2
<1>9. Paid'[id] = Paid[id] => Paid' = Paid
  BY <1>3
<1> QED
  BY <1>4, <1>5, <1>6, <1>7, <1>8, <1>9

\* What a step of a request may change of what is promised: its own order,
\* by what the request has to award before and after.
LEMMA RequestView ==
  ASSUME IInv, IInv', NEW r \in Reqs, NEW id \in OrderIds, id = req[r].id,
         \A q \in Reqs \ {r} : req'[q] = req[q],
         req'[r].id = id \/ req'[r] = Idle,
         customers' = customers, overlapped' = overlapped,
         \A o \in OrderIds \ {id} :
           /\ order'[o] = order[o] /\ awards'[o] = awards[o]
           /\ o \in unused' <=> o \in unused
  PROVE  /\ Book' = [Book EXCEPT ![id] = Book'[id]]
         /\ Dues' = [Dues EXCEPT ![id] = Dues'[id]]
         /\ Paid' = [Paid EXCEPT ![id] = Paid'[id]]
         /\ id \in overlapped => Book' = Book /\ Dues' = Dues /\ Paid' = Paid
         /\ id \notin overlapped =>
              /\ Dues[id] = DueOf(req[r], order[id], awards[id], customers)
              /\ Dues'[id] = DueOf(req'[r], order'[id], awards'[id], customers)
<1>1. Alone /\ Alone'
  BY DEF IInv
<1>2. \A o \in OrderIds \ {id} :
        Book'[o] = Book[o] /\ Dues'[o] = Dues[o] /\ Paid'[o] = Paid[o]
  <2> SUFFICES ASSUME NEW o \in OrderIds \ {id}
               PROVE  /\ Book'[o] = Book[o] /\ Dues'[o] = Dues[o]
                      /\ Paid'[o] = Paid[o]
    OBVIOUS
  <2>1. req[r].id # o /\ req'[r].id # o
    BY <1>1, IdleType, NullApart
  <2> QED
    BY <1>1, <2>1, OtherOrders
<1>3. /\ Book' = [Book EXCEPT ![id] = Book'[id]]
      /\ Dues' = [Dues EXCEPT ![id] = Dues'[id]]
      /\ Paid' = [Paid EXCEPT ![id] = Paid'[id]]
  BY <1>2, OneOrder
<1>4. id \in overlapped =>
        Book'[id] = Book[id] /\ Dues'[id] = Dues[id] /\ Paid'[id] = Paid[id]
  BY DEF Book, Dues, Paid, Unentered
<1>5. id \in overlapped => Book' = Book /\ Dues' = Dues /\ Paid' = Paid
  BY <1>2, <1>4, OneOrder
<1>6. ASSUME id \notin overlapped
      PROVE  /\ Dues[id] = DueOf(req[r], order[id], awards[id], customers)
             /\ Dues'[id] = DueOf(req'[r], order'[id], awards'[id], customers)
  <2>1. Dues[id] = DueOf(req[r], order[id], awards[id], customers)
    BY <1>1, <1>6, DueOfRequest
  <2>2. CASE req'[r].id = id
    BY <1>1, <1>6, <2>1, <2>2, DueOfRequestAfter
  <2>3. CASE req'[r] = Idle
    <3>1. \A q \in Reqs : req[q].id = id => q = r
      BY <1>1, <1>6 DEF Alone
    <3>2. \A q \in Reqs : req'[q].id # id
      BY <1>1, <2>3, <3>1, IdleType, NullApart
    <3>3. Dues'[id] = NothingDue
      BY <3>2, DueOfNone
    <3>4. DueOf(req'[r], order'[id], awards'[id], customers) = NothingDue
      BY <2>3, IdleType DEF DueOf, Settling
    <3> QED
      BY <2>1, <3>3, <3>4
  <2> QED
    BY <2>2, <2>3
<1> QED
  BY <1>3, <1>5, <1>6

\* A step that changes no table, and nothing its request has to award.
LEMMA LocalUnseen ==
  ASSUME IInv, IInv', NEW r \in Reqs, NEW id \in OrderIds, id = req[r].id,
         \A q \in Reqs \ {r} : req'[q] = req[q],
         req'[r].id = id \/ req'[r] = Idle,
         UNCHANGED tables, overlapped' = overlapped,
         id \notin overlapped =>
           DueOf(req'[r], order[id], awards[id], customers)
             = DueOf(req[r], order[id], awards[id], customers)
  PROVE  Book' = Book /\ Dues' = Dues /\ Paid' = Paid
<1>1. UNCHANGED <<customers, unused, order, awards>>
  BY DEF tables
<1>2. \A o \in OrderIds \ {id} :
        /\ order'[o] = order[o] /\ awards'[o] = awards[o]
        /\ o \in unused' <=> o \in unused
  BY <1>1
<1>3. /\ Dues' = [Dues EXCEPT ![id] = Dues'[id]]
      /\ id \in overlapped => Dues' = Dues
      /\ id \notin overlapped =>
           /\ Dues[id] = DueOf(req[r], order[id], awards[id], customers)
           /\ Dues'[id] = DueOf(req'[r], order'[id], awards'[id], customers)
  BY <1>1, <1>2, RequestView
<1>4. Dues' = Dues
  <2>1. Dues = [o \in OrderIds |-> Dues[o]]
    BY DEF Dues
  <2>2. Dues'[id] = Dues[id]
    BY <1>1, <1>3
  <2> QED
    BY <1>3, <2>1, <2>2
<1>5. Book' = Book
  BY <1>1 DEF Book, Entered, Unentered, Goods
<1>6. Paid' = Paid
  BY <1>1 DEF Paid
<1> QED
  BY <1>4, <1>5, <1>6

\* Most steps are not noticed: they only move a request on.
LEMMA UnseenSteps ==
  ASSUME IInv, IInv', NEW r \in Reqs, Reading,
         req[r].pc # "idle", ~Settling(req[r]),
         \/ Done(r)
         \/ /\ req' = [req EXCEPT ![r] = req'[r]]
            /\ req'[r].id = req[r].id
            /\ ~Settling(req'[r])
  PROVE  UNCHANGED Promise!vars
<1>1. PICK id \in OrderIds : id = req[r].id
  BY StageOf
<1>2. UNCHANGED tables /\ UNCHANGED <<customers, overlapped, forgone>>
  BY DEF Reading, history, tables
<1>3. /\ ~Settling(req'[r])
      /\ req'[r].id = id \/ req'[r] = Idle
      /\ \A q \in Reqs \ {r} : req'[q] = req[q]
  BY <1>1, IdleType DEF Done, Settling, IInv, TypeOK
<1>4. \A row, aw, cs : DueOf(req'[r], row, aw, cs) = DueOf(req[r], row, aw, cs)
  BY <1>3 DEF DueOf
<1>5. Book' = Book /\ Dues' = Dues /\ Paid' = Paid
  BY <1>1, <1>2, <1>3, <1>4, LocalUnseen
<1> QED
  BY <1>2, <1>5 DEF Promise!vars

\* Reading, checking and refusing only move a request on, or end it.
LEMMA ReadingMoves ==
  ASSUME IInv, NEW r \in Reqs,
         \/ ResolveStore(r) \/ ReadMenu(r) \/ FindCustomer(r)
         \/ ReadCancel(r) \/ ReadClaim(r) \/ LinkOrder(r) \/ ReadClaimed(r)
         \/ ReadOrder(r) \/ ReadForReady(r) \/ WriteReady(r)
  PROVE  /\ req[r].pc # "idle" /\ ~Settling(req[r]) /\ Reading
         /\ \/ Done(r)
            \/ /\ req' = [req EXCEPT ![r] = req'[r]]
               /\ req'[r].id = req[r].id
               /\ ~Settling(req'[r])
<1>1. req \in [Reqs -> ReqRow] /\ req[r] \in ReqRow
  BY DEF IInv, TypeOK
<1>2. req[r].pc # "idle" /\ ~Settling(req[r]) /\ Reading
  BY DEF ResolveStore, ReadMenu, FindCustomer, ReadCancel, ReadClaim,
         LinkOrder, ReadClaimed, ReadOrder, ReadForReady, WriteReady, Throw,
         At, Settling
<1>3. \/ Done(r)
      \/ /\ req' = [req EXCEPT ![r] = req'[r]]
         /\ req'[r].id = req[r].id
         /\ ~Settling(req'[r])
  <2> DEFINE Moves == /\ req' = [req EXCEPT ![r] = req'[r]]
                      /\ req'[r].id = req[r].id
                      /\ ~Settling(req'[r])
  <2>1. ASSUME NEW pc \in {"write", "link", "order"}, Goto(r, pc)
        PROVE  Moves
    <3>1. /\ req' = [req EXCEPT ![r].pc = pc]
          /\ req' = [req EXCEPT ![r] = req'[r]]
          /\ req'[r] = [req[r] EXCEPT !.pc = pc]
      BY <1>1, <2>1 DEF Goto
    <3> QED
      BY <1>1, <3>1 DEF Settling, ReqRow
  <2>2. CASE ResolveStore(r) /\ ~Done(r)
    <3>1. PICK s \in Stores, pc \in {"customer", "read"} :
            req' = [req EXCEPT ![r].pc = pc, ![r].store = s]
      BY <2>2 DEF ResolveStore, Throw
    <3>2. req'[r] = [req[r] EXCEPT !.pc = pc, !.store = s]
          /\ req' = [req EXCEPT ![r] = req'[r]]
      BY <1>1, <3>1
    <3> QED
      BY <1>1, <3>2 DEF Settling, ReqRow
  <2>3. CASE ReadMenu(r) /\ ~Done(r)
    <3>1. PICK lines : req' = [req EXCEPT ![r].pc = "commit",
                                          ![r].lines = lines]
      BY <2>3 DEF ReadMenu, Throw
    <3>2. req'[r] = [req[r] EXCEPT !.pc = "commit", !.lines = lines]
          /\ req' = [req EXCEPT ![r] = req'[r]]
      BY <1>1, <3>1
    <3> QED
      BY <1>1, <3>2 DEF Settling, ReqRow
  <2>4. CASE FindCustomer(r)
    <3>1. PICK to : req' = [req EXCEPT ![r].pc = "commit", ![r].to = to]
      BY <2>4 DEF FindCustomer
    <3>2. req'[r] = [req[r] EXCEPT !.pc = "commit", !.to = to]
          /\ req' = [req EXCEPT ![r] = req'[r]]
      BY <1>1, <3>1
    <3> QED
      BY <1>1, <3>2 DEF Settling, ReqRow
  <2>5. CASE (ReadOrder(r) \/ ReadClaimed(r)) /\ ~Done(r)
    <3>1. PICK pc, seen :
            /\ pc \in {"write", "commit"}
            /\ req' = [req EXCEPT ![r].pc = pc, ![r].seen = seen]
      BY <2>5 DEF ReadOrder, ReadClaimed, Throw
    <3>2. req'[r] = [req[r] EXCEPT !.pc = pc, !.seen = seen]
          /\ req' = [req EXCEPT ![r] = req'[r]]
      BY <1>1, <3>1
    <3> QED
      BY <1>1, <3>1, <3>2 DEF Settling, ReqRow
  <2> HIDE DEF Moves
  <2>6. ASSUME ReadCancel(r) \/ ReadForReady(r) \/ WriteReady(r)
        PROVE  Done(r) \/ Moves
    BY <2>1, <2>6 DEF ReadCancel, ReadForReady, WriteReady, Throw
  <2>7. ASSUME ReadClaim(r) \/ LinkOrder(r)
        PROVE  Done(r) \/ Moves
    BY <2>1, <2>7 DEF ReadClaim, LinkOrder, Throw
  <2>8. Done(r) \/ Moves
    BY <2>2, <2>3, <2>4, <2>5, <2>6, <2>7 DEF Moves
  <2> QED
    BY <2>8 DEF Moves
<1> QED
  BY <1>2, <1>3

\* That is not noticed.
LEMMA ReadingUnseen ==
  ASSUME IInv, IInv', NEW r \in Reqs,
         \/ ResolveStore(r) \/ ReadMenu(r) \/ FindCustomer(r)
         \/ ReadCancel(r) \/ ReadClaim(r) \/ LinkOrder(r) \/ ReadClaimed(r)
         \/ ReadOrder(r) \/ ReadForReady(r) \/ WriteReady(r)
  PROVE  UNCHANGED Promise!vars
BY ReadingMoves, UnseenSteps

\* The points of an order in the book that are lost or none.
LEMMA ForgoesIt ==
  ASSUME IInv, NEW id \in OrderIds \ unused,
         Book' = Book, Paid' = Paid, customers' = customers,
         Dues' = [Dues EXCEPT ![id] = NothingDue],
         forgone' = forgone \cup {id}
  PROVE  Promise!Next
<1>1. Book[id].stage # "unused"
  BY DEF Book, Unentered, Entered
<1>2. Promise!Forgo(id)
  BY <1>1 DEF Promise!Forgo, Promise!Nothing, NothingDue
<1> QED
  BY <1>2 DEF Promise!Next

\* A request that ends without awarding forgoes what it had to award.
LEMMA EndForgoes ==
  ASSUME IInv, IInv', NEW r \in Reqs, Settling(req[r]), Done(r),
         UNCHANGED tables, UNCHANGED overlapped,
         forgone' = forgone \cup {req[r].id}
  PROVE  Promise!Next
<1>1. PICK id \in OrderIds \ unused : id = req[r].id
  BY StageOf DEF Settling
<1>2. UNCHANGED <<customers, unused, order, awards>>
  BY DEF tables
<1>3. /\ Dues' = [Dues EXCEPT ![id] = Dues'[id]]
      /\ id \in overlapped => Dues' = Dues
      /\ id \notin overlapped =>
           Dues'[id] = DueOf(Idle, order'[id], awards'[id], customers)
  <2>1. \A o \in OrderIds \ {id} :
          /\ order'[o] = order[o] /\ awards'[o] = awards[o]
          /\ o \in unused' <=> o \in unused
    BY <1>2
  <2>2. req'[r] = Idle /\ \A q \in Reqs \ {r} : req'[q] = req[q]
    BY DEF Done, IInv, TypeOK
  <2>3. /\ Dues' = [Dues EXCEPT ![id] = Dues'[id]]
        /\ id \in overlapped => Dues' = Dues
        /\ id \notin overlapped =>
             Dues'[id] = DueOf(req'[r], order'[id], awards'[id], customers)
    BY <1>1, <1>2, <2>1, <2>2, RequestView
  <2> QED
    BY <2>2, <2>3
<1>4. Dues'[id] = NothingDue
  <2>1. id \notin overlapped => Dues'[id] = NothingDue
    BY <1>3, IdleType DEF DueOf, Settling
  <2>2. id \in overlapped => Dues[id] = NothingDue
    BY DEF Dues, NothingDue
  <2> QED
    BY <1>3, <2>1, <2>2
<1>5. Book' = Book /\ Paid' = Paid
  BY <1>2 DEF Book, Entered, Unentered, Goods, Paid
<1> QED
  BY <1>1, <1>2, <1>3, <1>4, <1>5, ForgoesIt

\* A request that has nothing to award, or awards it as before, is unseen.
LEMMA KeepsDue ==
  ASSUME IInv, IInv', NEW r \in Reqs, NEW id \in OrderIds, id = req[r].id,
         \A q \in Reqs \ {r} : req'[q] = req[q],
         req'[r].id = id \/ req'[r] = Idle,
         UNCHANGED tables, overlapped' = overlapped, forgone' = forgone,
         id \notin overlapped =>
           DueOf(req'[r], order[id], awards[id], customers)
             = DueOf(req[r], order[id], awards[id], customers)
  PROVE  UNCHANGED Promise!vars
<1>1. Book' = Book /\ Dues' = Dues /\ Paid' = Paid
  BY LocalUnseen
<1> QED
  BY <1>1 DEF tables, Promise!vars

\* Looking up the owner settles who gets what was due to the owner.
LEMMA OwnerUnseen ==
  ASSUME IInv, IInv', NEW r \in Reqs, ReadOwner(r)
  PROVE  UNCHANGED Promise!vars
<1>1. PICK id \in OrderIds : id = req[r].id /\ req[r] \in ReqRow
  BY StageOf DEF ReadOwner
<1> DEFINE to == IF Exists(r) /\ Row(r).owner # None THEN Row(r).owner
                                                    ELSE Guest
<1>2. /\ req[r].pc = "owner"
      /\ req' = [req EXCEPT ![r].pc = "check", ![r].to = to]
      /\ UNCHANGED tables /\ overlapped' = overlapped /\ forgone' = forgone
  BY DEF ReadOwner, Reading, history
<1>3. /\ to = IF order[id] # None /\ order[id].owner # None
              THEN order[id].owner ELSE Guest
      /\ None \notin customers /\ Guest \notin customers
  BY <1>1, NullApart DEF Exists, Row, IInv, TypeOK
<1> HIDE DEF to
<1>4. /\ req'[r] = [req[r] EXCEPT !.pc = "check", !.to = to]
      /\ \A q \in Reqs \ {r} : req'[q] = req[q]
  BY <1>2 DEF IInv, TypeOK
<1>5. /\ req'[r].pc = "check" /\ req'[r].to = to /\ req'[r].id = id
      /\ req'[r].amount = req[r].amount
  BY <1>1, <1>4 DEF ReqRow
<1>6. DueOf(req'[r], order[id], awards[id], customers)
        = DueOf(req[r], order[id], awards[id], customers)
  BY <1>2, <1>3, <1>5 DEF DueOf, PayeeOf, Settling
<1> QED
  BY <1>1, <1>2, <1>4, <1>5, <1>6, KeepsDue

\* Looking up earlier awards is unseen, unless there are no points at all.
LEMMA CheckForgoes ==
  ASSUME IInv, IInv', NEW r \in Reqs, CheckAward(r)
  PROVE  Promise!Next \/ UNCHANGED Promise!vars
<1>1. PICK id \in OrderIds : id = req[r].id /\ req[r] \in ReqRow
  BY StageOf DEF CheckAward
<1>2. /\ req[r].pc = "check" /\ Settling(req[r])
      /\ UNCHANGED tables /\ overlapped' = overlapped
      /\ forgone' = IF req[r].amount <= 0 THEN forgone \cup {id} ELSE forgone
      /\ IF req[r].to = Guest \/ req[r].amount <= 0 \/ Awarded(id)
         THEN Done(r) ELSE Goto(r, "award")
  BY <1>1 DEF CheckAward, Settling
<1>3. CASE req[r].amount <= 0
  BY <1>1, <1>2, <1>3, EndForgoes
<1>4. CASE ~(req[r].amount <= 0)
  <2>1. forgone' = forgone
    BY <1>2, <1>4
  <2>2. CASE Done(r)
    <3>1. req'[r] = Idle /\ \A q \in Reqs \ {r} : req'[q] = req[q]
      BY <2>2 DEF Done, IInv, TypeOK
    <3>2. DueOf(req'[r], order[id], awards[id], customers) = NothingDue
      BY <3>1, IdleType DEF DueOf, Settling
    <3>3. req[r].to = Guest \/ Awarded(id)
      <4>1. ASSUME Goto(r, "award") PROVE FALSE
        <5>1. req'[r].pc = "award"
          BY <1>1, <4>1 DEF Goto, ReqRow, IInv, TypeOK
        <5> QED
          BY <3>1, <5>1, IdleType
      <4> QED
        BY <1>2, <1>4, <4>1
    <3>4. req[r].to = Guest => req[r].to \notin customers
      BY NullApart DEF IInv, TypeOK
    <3>5. DueOf(req[r], order[id], awards[id], customers) = NothingDue
      BY <1>2, <3>3, <3>4 DEF DueOf, PayeeOf, Awarded
    <3> QED
      BY <1>1, <1>2, <2>1, <3>1, <3>2, <3>5, KeepsDue
  <2>3. CASE Goto(r, "award")
    <3>1. "award" \in Places
      BY DEF Places
    <3>2. /\ req'[r].pc = "award" /\ req'[r].to = req[r].to
          /\ req'[r].id = id /\ req'[r].amount = req[r].amount
          /\ \A q \in Reqs \ {r} : req'[q] = req[q]
      BY <1>1, <2>3, <3>1, GotoMoves DEF IInv, TypeOK
    <3>3. DueOf(req'[r], order[id], awards[id], customers)
            = DueOf(req[r], order[id], awards[id], customers)
      BY <1>2, <3>2 DEF DueOf, PayeeOf, Settling
    <3> QED
      BY <1>1, <1>2, <2>1, <3>2, <3>3, KeepsDue
  <2> QED
    BY <1>2, <2>2, <2>3
<1> QED
  BY <1>3, <1>4

\* A failed award is forgone, and so is one that dies with the process.
LEMMA LossForgoes ==
  ASSUME IInv, IInv', NEW r \in Reqs, AwardFails(r) \/ Die(r)
  PROVE  Promise!Next \/ UNCHANGED Promise!vars
<1>1. req[r].pc # "idle" /\ Done(r) /\ UNCHANGED tables /\ UNCHANGED overlapped
  BY DEF AwardFails, Die
<1>2. CASE Settling(req[r])
  <2>1. forgone' = forgone \cup {req[r].id}
    BY <1>2 DEF Settling, AwardFails, Die
  <2> QED
    BY <1>1, <1>2, <2>1, EndForgoes
<1>3. CASE ~Settling(req[r])
  <2>1. Reading
    BY <1>1, <1>3 DEF Settling, AwardFails, Die, Reading, history
  <2> QED
    BY <1>1, <1>3, <2>1, UnseenSteps
<1> QED
  BY <1>2, <1>3

-----------------------------------------------------------------------------
\* What the book shows of a row has its type.
LEMMA EntryType ==
  ASSUME NEW row \in OrderRow
  PROVE  /\ Entered(row) \in Promise!Entry
         /\ Entered(row).stage \in {"open", "finished"}
         /\ Entered(row).stage = "finished" <=> row.status = "FINISHED"
         /\ Entered(row).owner = row.owner
         /\ Entered(row).goods = Goods(row)
<1>1. /\ Goods(row) \in Int
      /\ row.owner \in Customers \cup {Guest, None}
  BY DEF Goods, OrderRow
<1> QED
  BY <1>1 DEF Entered, Promise!Entry

\* The request that follows a write has to award what the order now owes.
LEMMA OwedIsDue ==
  ASSUME IInv, NEW id \in OrderIds \ overlapped, NEW row \in OrderRow, NEW q,
         \/ q = Idle /\ row.status # "FINISHED"
         \/ /\ Settling(q) /\ row.status = "FINISHED"
            /\ PayeeOf(q, row) = row.owner /\ q.amount = Goods(row)
  PROVE  Promise!Owed(id, Entered(row))
           = DueOf(q, row, awards[id], customers)
<1>1. Paid[id] = Promise!Nobody <=> \A u \in Customers : awards[id][u] = <<>>
  <2>1. awards[id] \in [Customers -> Seq(Nat \ {0})]
    BY DEF IInv, TypeOK
  <2>2. Paid[id] = awards[id]
    BY DEF Paid
  <2> QED
    BY <2>1, <2>2 DEF Promise!Nobody
<1>2. CASE q = Idle /\ row.status # "FINISHED"
  BY <1>2, EntryType, IdleType
     DEF Promise!Owed, Promise!Nothing, DueOf, NothingDue, Settling
<1>3. CASE /\ Settling(q) /\ row.status = "FINISHED"
           /\ PayeeOf(q, row) = row.owner /\ q.amount = Goods(row)
  BY <1>1, <1>3, EntryType
     DEF Promise!Owed, Promise!Nothing, DueOf, NothingDue
<1> QED
  BY <1>2, <1>3

\* A write of an order changes its entry, and what is due for it.
LEMMA WriteChanges ==
  ASSUME IInv, IInv', NEW r \in Reqs, NEW id \in OrderIds, id = req[r].id,
         ~Settling(req[r]),
         \A q \in Reqs \ {r} : req'[q] = req[q],
         req'[r].id = id \/ req'[r] = Idle,
         UNCHANGED <<customers, awards, history>>,
         \A o \in OrderIds \ {id} :
           order'[o] = order[o] /\ (o \in unused' <=> o \in unused),
         order'[id] \in OrderRow, id \notin unused',
         NEW due, id \notin overlapped =>
           due = DueOf(req'[r], order'[id], awards[id], customers)
  PROVE  /\ id \in overlapped => UNCHANGED Promise!vars
         /\ id \notin overlapped =>
              Promise!Change(id, due) /\ Book'[id] = Entered(order'[id])
<1>1. UNCHANGED overlapped /\ UNCHANGED forgone
  BY DEF history
<1>2. \A o \in OrderIds \ {id} :
        /\ order'[o] = order[o] /\ awards'[o] = awards[o]
        /\ o \in unused' <=> o \in unused
  OBVIOUS
<1>3. /\ Book' = [Book EXCEPT ![id] = Book'[id]]
      /\ Dues' = [Dues EXCEPT ![id] = Dues'[id]]
      /\ Paid' = [Paid EXCEPT ![id] = Paid'[id]]
      /\ id \in overlapped => Book' = Book /\ Dues' = Dues /\ Paid' = Paid
      /\ id \notin overlapped =>
           /\ Dues[id] = DueOf(req[r], order[id], awards[id], customers)
           /\ Dues'[id] = DueOf(req'[r], order'[id], awards'[id], customers)
  BY <1>1, <1>2, RequestView
<1>4. id \in overlapped => UNCHANGED Promise!vars
  BY <1>1, <1>3 DEF Promise!vars
<1>5. ASSUME id \notin overlapped
      PROVE  Promise!Change(id, due) /\ Book'[id] = Entered(order'[id])
  <2>1. Book'[id] = Entered(order'[id])
    <3>1. order'[id] # None
      BY NullApart
    <3> QED
      BY <1>1, <1>5, <3>1 DEF Book
  <2>2. Book'[id] \in Promise!Entry
    BY <2>1, EntryType
  <2>3. Dues[id] = Promise!Nothing
    BY <1>3, <1>5 DEF DueOf, NothingDue, Promise!Nothing
  <2>4. Dues'[id] = due
    BY <1>3, <1>5
  <2>5. Paid' = Paid
    BY <1>1 DEF Paid
  <2> QED
    BY <1>1, <1>3, <2>1, <2>2, <2>3, <2>4, <2>5 DEF Promise!Change
<1> QED
  BY <1>4, <1>5

\* An order that is placed or sold enters the book.
LEMMA CommitEnters ==
  ASSUME IInv, IInv', NEW r \in Reqs, CommitOrder(r) \/ CommitInStore(r),
         ~Throw(r)
  PROVE  Promise!Next \/ UNCHANGED Promise!vars
<1>1. \E id \in OrderIds, new \in OrderRow :
        /\ id = req[r].id /\ id \in unused
        /\ order' = [order EXCEPT ![id] = new]
        /\ unused' = unused \ {id}
        /\ new.owner \in customers \cup {Guest}
        /\ UNCHANGED <<customers, awards, history>>
        /\ \/ req'[r] = Idle /\ new.status # "FINISHED"
           \/ /\ Settling(req'[r]) /\ new.status = "FINISHED"
              /\ PayeeOf(req'[r], new) = new.owner
              /\ req'[r].amount = Goods(new)
        /\ req'[r].id = id \/ req'[r] = Idle
        /\ \A q \in Reqs \ {r} : req'[q] = req[q]
  <2>1. CASE CommitOrder(r)
    <3>1. PICK id \in OrderIds, new \in OrderRow :
            /\ id = req[r].id /\ id \in unused
            /\ order' = [order EXCEPT ![id] = new]
            /\ unused' = unused \ {id}
            /\ Done(r)
            /\ UNCHANGED <<customers, awards, history>>
            /\ new.owner \in customers \cup {Guest}
            /\ new.status = "CONFIRMED"
      BY <2>1, PlacedRow
    <3>2. req'[r] = Idle /\ \A q \in Reqs \ {r} : req'[q] = req[q]
      BY <3>1 DEF Done, IInv, TypeOK
    <3> QED
      BY <3>1, <3>2
  <2>2. CASE CommitInStore(r)
    <3>1. PICK id \in OrderIds, new \in OrderRow, row \in ReqRow :
            /\ id = req[r].id /\ id \in unused
            /\ order' = [order EXCEPT ![id] = new]
            /\ unused' = unused \ {id}
            /\ req' = [req EXCEPT ![r] = row]
            /\ UNCHANGED <<customers, awards, history>>
            /\ new.owner \in customers \cup {Guest}
            /\ new.status = "FINISHED" /\ new.fee = 0
            /\ row.pc = "check" /\ row.id = id
            /\ row.to = new.owner /\ row.amount = new.total
      BY <2>2, SoldRow
    <3>2. req'[r] = row /\ \A q \in Reqs \ {r} : req'[q] = req[q]
      BY <3>1 DEF IInv, TypeOK
    <3>3. Goods(new) = row.amount
      BY <3>1 DEF Goods, OrderRow
    <3>4. Settling(row) /\ PayeeOf(row, new) = new.owner
      BY <3>1 DEF Settling, PayeeOf
    <3> QED
      BY <3>1, <3>2, <3>3, <3>4
  <2> QED
    BY <2>1, <2>2
<1>2. PICK id \in OrderIds, new \in OrderRow :
        /\ id = req[r].id /\ id \in unused
        /\ order' = [order EXCEPT ![id] = new]
        /\ unused' = unused \ {id}
        /\ new.owner \in customers \cup {Guest}
        /\ UNCHANGED <<customers, awards, history>>
        /\ \/ req'[r] = Idle /\ new.status # "FINISHED"
           \/ /\ Settling(req'[r]) /\ new.status = "FINISHED"
              /\ PayeeOf(req'[r], new) = new.owner
              /\ req'[r].amount = Goods(new)
        /\ req'[r].id = id \/ req'[r] = Idle
        /\ \A q \in Reqs \ {r} : req'[q] = req[q]
  BY <1>1
<1>3. ~Settling(req[r])
  BY DEF CommitOrder, CommitInStore, At, Settling
<1>4. /\ order'[id] = new /\ id \notin unused'
      /\ \A o \in OrderIds \ {id} :
           order'[o] = order[o] /\ (o \in unused' <=> o \in unused)
  BY <1>2 DEF IInv, TypeOK
<1> DEFINE due == Promise!Owed(id, Entered(new))
<1>5. id \notin overlapped =>
        due = DueOf(req'[r], new, awards[id], customers)
  BY <1>2, OwedIsDue
<1> HIDE DEF due
<1>6. /\ id \in overlapped => UNCHANGED Promise!vars
      /\ id \notin overlapped =>
           Promise!Change(id, due) /\ Book'[id] = Entered(new)
  BY <1>2, <1>3, <1>4, <1>5, WriteChanges
<1>7. ASSUME id \notin overlapped
      PROVE  Promise!Next
  <2>1. Book[id].stage = "unused"
    BY <1>2, <1>7 DEF Book, Unentered
  <2>2. Promise!Enter(id)
    BY <1>2, <1>6, <1>7, <2>1, EntryType DEF Promise!Enter, due
  <2> QED
    BY <2>2 DEF Promise!Next
<1> QED
  BY <1>6, <1>7

\* The row an edit of o writes, and the request that awards it.
LEMMA EditedRow ==
  ASSUME IInv, NEW r \in Reqs, WriteUpdate(r), ~Throw(r)
  PROVE  \E id \in OrderIds \ unused, new \in OrderRow :
           /\ id = req[r].id /\ order[id] \in OrderRow
           /\ order' = [order EXCEPT ![id] = new]
           /\ UNCHANGED <<customers, unused, awards, history>>
           /\ new.owner = order[id].owner
           /\ \/ /\ req'[r] = Idle
                 /\ new.status = "FINISHED" => order[id].status = "FINISHED"
              \/ /\ req'[r].pc = "owner" /\ new.status = "FINISHED"
                 /\ PayeeOf(req'[r], new) = new.owner
                 /\ req'[r].amount = Goods(new) /\ req'[r].id = id
           /\ \A q \in Reqs \ {r} : req'[q] = req[q]
<1>1. PICK id \in OrderIds : id = req[r].id /\ id \notin unused
  BY StageOf DEF WriteUpdate, At
<1> DEFINE dto  == req[r].dto
           seen == req[r].seen
           new  == Updated(order[id], seen, dto)
           row  == IF dto.status = "FINISHED"
                   THEN ForAward("owner", id, None, Goods(new)) ELSE Idle
<1>2. /\ order[id] # None
      /\ order' = [order EXCEPT ![id] = new]
      /\ req' = [req EXCEPT ![r] = row]
      /\ UNCHANGED <<customers, unused, awards, history>>
  BY <1>1 DEF WriteUpdate, Exists, Row, ToAward, ForAward, Done
<1>3. /\ dto \in Edit /\ seen \in EditSeen /\ order[id] \in OrderRow
      /\ order[id].fee = FeeOf(order[id].type)
  <2>1. UpdateStage(req[r]) /\ req[r].pc = "write"
    BY StageOf DEF WriteUpdate, At
  <2> QED
    BY <1>1, <1>2, <2>1, OrdersAssumption
       DEF UpdateStage, IInv, TypeOK, FeeFollowsType
<1>4. /\ new \in OrderRow /\ new.owner = order[id].owner
      /\ new.status = Sent(dto.status, order[id].status)
  BY <1>3, UpdatedRow
<1> HIDE DEF new
<1>5. dto.status \in Statuses \cup {None}
  BY <1>3 DEF Edit
<1>6. req'[r] = row /\ \A q \in Reqs \ {r} : req'[q] = req[q]
  BY <1>2 DEF IInv, TypeOK
<1>7. CASE dto.status = "FINISHED"
  <2>1. new.status = "FINISHED"
    <3>1. None # "FINISHED"
      BY OrdersAssumption DEF Statuses
    <3> QED
      BY <1>4, <1>7, <3>1 DEF Sent
  <2>2. /\ row.pc = "owner" /\ row.id = id /\ row.amount = Goods(new)
    <3>1. Goods(new) \in Int /\ "owner" \in Places
      BY <1>4 DEF Goods, OrderRow, Places
    <3> QED
      BY <1>7, <3>1, AwardRow
  <2>3. new # None
    BY <1>4, NullApart
  <2>4. PayeeOf(row, new) = new.owner
    BY <2>2, <2>3 DEF PayeeOf
  <2> HIDE DEF row
  <2> QED
    BY <1>1, <1>2, <1>3, <1>4, <1>6, <2>1, <2>2, <2>4
<1>8. CASE dto.status # "FINISHED"
  <2>1. new.status = "FINISHED" => order[id].status = "FINISHED"
    BY <1>4, <1>8 DEF Sent
  <2> QED
    BY <1>1, <1>2, <1>3, <1>4, <1>6, <1>8, <2>1
<1> QED
  BY <1>7, <1>8

\* An edit finishes the order, or revises it.
LEMMA UpdateRevises ==
  ASSUME IInv, IInv', NEW r \in Reqs, WriteUpdate(r), ~Throw(r)
  PROVE  Promise!Next \/ UNCHANGED Promise!vars
<1>1. PICK id \in OrderIds \ unused, new \in OrderRow :
        /\ id = req[r].id /\ order[id] \in OrderRow
        /\ order' = [order EXCEPT ![id] = new]
        /\ UNCHANGED <<customers, unused, awards, history>>
        /\ new.owner = order[id].owner
        /\ \/ /\ req'[r] = Idle
              /\ new.status = "FINISHED" => order[id].status = "FINISHED"
           \/ /\ Settling(req'[r]) /\ new.status = "FINISHED"
              /\ PayeeOf(req'[r], new) = new.owner
              /\ req'[r].amount = Goods(new) /\ req'[r].id = id
        /\ \A q \in Reqs \ {r} : req'[q] = req[q]
  BY EditedRow DEF Settling
<1>2. ~Settling(req[r])
  BY DEF WriteUpdate, At, Settling
<1>3. /\ order'[id] = new /\ id \notin unused'
      /\ \A o \in OrderIds \ {id} :
           order'[o] = order[o] /\ (o \in unused' <=> o \in unused)
  BY <1>1 DEF IInv, TypeOK
<1> DEFINE due == DueOf(req'[r], new, awards[id], customers)
<1>4. due = DueOf(req'[r], new, awards[id], customers)
  OBVIOUS
<1> HIDE DEF due
<1>5. /\ id \in overlapped => UNCHANGED Promise!vars
      /\ id \notin overlapped =>
           Promise!Change(id, due) /\ Book'[id] = Entered(new)
  BY <1>1, <1>2, <1>3, <1>4, WriteChanges
<1>6. ASSUME id \notin overlapped
      PROVE  Promise!Next
  <2>1. Book[id] = Entered(order[id])
    <3>1. order[id] # None
      BY <1>1, NullApart
    <3> QED
      BY <1>1, <1>6, <3>1 DEF Book
  <2>2. CASE req'[r] # Idle
    <3>1. due = Promise!Owed(id, Entered(new)) /\ new.status = "FINISHED"
      BY <1>1, <1>4, <1>6, <2>2, OwedIsDue
    <3>2. Promise!Finish(id)
      BY <1>1, <1>5, <1>6, <2>1, <3>1, EntryType DEF Promise!Finish
    <3> QED
      BY <3>2 DEF Promise!Next
  <2>3. CASE req'[r] = Idle
    <3>1. ~Settling(req'[r])
      BY <2>3, IdleType DEF Settling
    <3>2. due = Promise!Nothing
      BY <1>4, <3>1 DEF DueOf, NothingDue, Promise!Nothing
    <3>3. Promise!Revise(id)
      BY <1>1, <1>5, <1>6, <2>1, <3>1, <3>2, EntryType DEF Promise!Revise
    <3> QED
      BY <3>3 DEF Promise!Next
  <2> QED
    BY <2>2, <2>3
<1> QED
  BY <1>5, <1>6

\* A cancellation revises the order.
LEMMA CancelRevises ==
  ASSUME IInv, IInv', NEW r \in Reqs, WriteCancel(r), ~Throw(r)
  PROVE  Promise!Next \/ UNCHANGED Promise!vars
<1>1. PICK id \in OrderIds : id = req[r].id /\ id \notin unused
  BY StageOf DEF WriteCancel, At
<1> DEFINE new == [order[id] EXCEPT !.status = "CANCELLED"]
<1>2. /\ order' = [order EXCEPT ![id] = new] /\ Done(r) /\ ~Settling(req[r])
      /\ UNCHANGED <<customers, unused, awards, history>>
      /\ order[id] # None
  BY <1>1 DEF WriteCancel, Exists, Row, At, Settling, IInv, TypeOK
<1>3. order[id] \in OrderRow
  BY <1>2 DEF IInv, TypeOK
<1>4. /\ new \in OrderRow /\ new.owner = order[id].owner
      /\ new.status = "CANCELLED"
  BY <1>3 DEF OrderRow, Statuses
<1> HIDE DEF new
<1>5. /\ order'[id] = new /\ id \notin unused'
      /\ \A o \in OrderIds \ {id} :
           order'[o] = order[o] /\ (o \in unused' <=> o \in unused)
      /\ req'[r] = Idle /\ \A q \in Reqs \ {r} : req'[q] = req[q]
  BY <1>1, <1>2 DEF Done, IInv, TypeOK
<1>6. Promise!Nothing = DueOf(req'[r], new, awards[id], customers)
  BY <1>5, IdleType DEF DueOf, NothingDue, Promise!Nothing, Settling
<1>7. /\ id \in overlapped => UNCHANGED Promise!vars
      /\ id \notin overlapped =>
           Promise!Change(id, Promise!Nothing) /\ Book'[id] = Entered(new)
  BY <1>1, <1>2, <1>4, <1>5, <1>6, WriteChanges
<1>8. ASSUME id \notin overlapped
      PROVE  Promise!Next
  <2>1. Book[id] = Entered(order[id])
    BY <1>1, <1>2, <1>8 DEF Book
  <2>2. Promise!Revise(id)
    BY <1>3, <1>4, <1>7, <1>8, <2>1, EntryType DEF Promise!Revise
  <2> QED
    BY <2>2 DEF Promise!Next
<1> QED
  BY <1>7, <1>8

\* A claim gives a guest's order to its customer.
LEMMA CommitClaims ==
  ASSUME IInv, IInv', NEW r \in Reqs, CommitClaim(r)
  PROVE  Promise!Next \/ UNCHANGED Promise!vars
<1>1. PICK id \in OrderIds \ unused, by \in Customers :
        /\ id = req[r].id /\ by = req[r].by /\ by \in customers
        /\ order[id] # None /\ order[id] \in OrderRow
        /\ id \notin overlapped => order[id].owner = Guest
  BY ClaimHolds DEF CommitClaim, Exists, Row
<1> DEFINE new == [order[id] EXCEPT !.owner = by]
<1>2. /\ order' = [order EXCEPT ![id] = new] /\ ~Settling(req[r])
      /\ UNCHANGED <<customers, unused, awards, history>>
      /\ req[r].kind = "claim" /\ req[r].pc = "commit"
  BY <1>1 DEF CommitClaim, At, Settling, IInv, TypeOK
<1>3. /\ new \in OrderRow /\ new.owner = by /\ new.status = order[id].status
      /\ Goods(new) = Goods(order[id])
  BY <1>1 DEF OrderRow, Goods
<1>4. Entered(new) = [Entered(order[id]) EXCEPT !.owner = by]
  BY <1>3 DEF Entered
<1> HIDE DEF new
<1>5. /\ order'[id] = new /\ id \notin unused'
      /\ \A o \in OrderIds \ {id} :
           order'[o] = order[o] /\ (o \in unused' <=> o \in unused)
  BY <1>1, <1>2 DEF IInv, TypeOK
<1>6. /\ \A q \in Reqs \ {r} : req'[q] = req[q]
      /\ req'[r] = Idle \/ req'[r].id = id
      /\ id \notin overlapped =>
           \/ req'[r] = Idle /\ new.status # "FINISHED"
           \/ /\ Settling(req'[r]) /\ new.status = "FINISHED"
              /\ PayeeOf(req'[r], new) = new.owner
              /\ req'[r].amount = Goods(new)
  <2> DEFINE seen == req[r].seen
  <2>1. seen \in ClaimSeen
    BY <1>2, StageOf DEF ClaimStage
  <2>2. PICK n \in Int : n = Goods(seen)
    BY <2>1 DEF ClaimSeen, Goods
  <2>3. id \notin overlapped =>
          /\ seen.status = order[id].status /\ Goods(seen) = Goods(order[id])
    <3>1. id \notin overlapped => seen = SeenByClaim(order[id])
      BY <1>1, <1>2 DEF IInv, RequestsOK, RelyOK, Row, Exists
    <3> QED
      BY <3>1 DEF SeenByClaim, Goods
  <2> HIDE DEF seen
  <2>4. req' = [req EXCEPT ![r] = IF seen.status = "FINISHED"
                                  THEN ForAward("check", id, by, n) ELSE Idle]
    BY <1>1, <2>2 DEF CommitClaim, ToAward, ForAward, Done, seen
  <2>5. /\ req'[r] = IF seen.status = "FINISHED"
                     THEN ForAward("check", id, by, n) ELSE Idle
        /\ \A q \in Reqs \ {r} : req'[q] = req[q]
    BY <2>4 DEF IInv, TypeOK
  <2>6. LET w == ForAward("check", id, by, n)
        IN  w.pc = "check" /\ w.id = id /\ w.to = by /\ w.amount = n
    <3>1. "check" \in Places
      BY DEF Places
    <3> QED
      BY <3>1, AwardRow
  <2> QED
    BY <1>3, <2>2, <2>3, <2>5, <2>6 DEF Settling, PayeeOf
<1> DEFINE due == Promise!Owed(id, Entered(new))
<1>7. id \notin overlapped =>
        due = DueOf(req'[r], new, awards[id], customers)
  BY <1>3, <1>6, OwedIsDue
<1> HIDE DEF due
<1>8. /\ id \in overlapped => UNCHANGED Promise!vars
      /\ id \notin overlapped =>
           Promise!Change(id, due) /\ Book'[id] = Entered(new)
  BY <1>1, <1>2, <1>3, <1>5, <1>6, <1>7, WriteChanges
<1>9. ASSUME id \notin overlapped
      PROVE  Promise!Next
  <2>1. Book[id] = Entered(order[id])
    BY <1>1, <1>9 DEF Book
  <2>2. Promise!Claim(id)
    BY <1>1, <1>3, <1>4, <1>8, <1>9, <2>1, EntryType DEF Promise!Claim, due
  <2> QED
    BY <2>2 DEF Promise!Next
<1> QED
  BY <1>8, <1>9

\* An award posts what is due.
LEMMA AwardPosts ==
  ASSUME IInv, IInv', NEW r \in Reqs, Award(r)
  PROVE  Promise!Next \/ UNCHANGED Promise!vars
<1>1. PICK id \in OrderIds, to \in Customers, n \in Nat \ {0} :
        /\ id = req[r].id /\ to = req[r].to /\ n = req[r].amount
        /\ id \notin unused
  BY StageOf DEF Award, AwardStage
<1>2. /\ req[r].pc = "award" /\ to \in customers
      /\ UNCHANGED <<customers, unused, order, overlapped, forgone>>
      /\ req'[r] = Idle /\ \A q \in Reqs \ {r} : req'[q] = req[q]
  BY <1>1 DEF Award, Done, history, IInv, TypeOK
<1>3. /\ awards[id] \in [Customers -> Seq(Nat \ {0})]
      /\ awards'[id] = [awards[id] EXCEPT ![to] = Append(awards[id][to], n)]
      /\ \A o \in OrderIds \ {id} : awards'[o] = awards[o]
  BY <1>1 DEF Award, IInv, TypeOK
<1>4. /\ Dues' = [Dues EXCEPT ![id] = Dues'[id]]
      /\ Paid' = [Paid EXCEPT ![id] = Paid'[id]]
      /\ id \in overlapped => Dues' = Dues /\ Paid' = Paid
      /\ id \notin overlapped =>
           /\ Dues[id] = DueOf(req[r], order[id], awards[id], customers)
           /\ Dues'[id] = DueOf(req'[r], order'[id], awards'[id], customers)
  <2>1. \A o \in OrderIds \ {id} :
          /\ order'[o] = order[o] /\ awards'[o] = awards[o]
          /\ o \in unused' <=> o \in unused
    BY <1>2, <1>3
  <2> QED
    BY <1>1, <1>2, <2>1, RequestView
<1>5. Book' = Book
  BY <1>2 DEF Book, Entered, Unentered, Goods
<1>6. CASE id \in overlapped
  BY <1>2, <1>4, <1>5, <1>6 DEF Promise!vars
<1>7. CASE id \notin overlapped
  <2>1. \A u \in Customers : awards[id][u] = <<>>
    BY <1>1, <1>2, <1>7 DEF IInv, RequestsOK, RelyOK, Awarded
  <2>2. Paid[id] = awards[id] /\ Paid'[id] = awards'[id]
    BY <1>2, <1>7 DEF Paid
  <2>3. Paid[id] = Promise!Nobody
    BY <1>3, <2>1, <2>2 DEF Promise!Nobody
  <2>4. Dues[id] = [to |-> to, amount |-> n]
    BY <1>1, <1>2, <1>4, <1>7, <2>1 DEF DueOf, PayeeOf, Settling
  <2>5. Dues[id] # Promise!Nothing
    BY <2>4 DEF Promise!Nothing
  <2>6. Dues'[id] = Promise!Nothing
    BY <1>2, <1>4, <1>7, IdleType
       DEF DueOf, NothingDue, Settling, Promise!Nothing
  <2>7. Paid'[id] = [Paid[id] EXCEPT ![Dues[id].to] =
                       Append(Paid[id][Dues[id].to], Dues[id].amount)]
    BY <1>3, <2>2, <2>4
  <2>8. Paid' = [Paid EXCEPT ![id] = [Paid[id] EXCEPT ![Dues[id].to] =
                       Append(Paid[id][Dues[id].to], Dues[id].amount)]]
    BY <1>4, <2>7
  <2>9. Dues' = [Dues EXCEPT ![id] = Promise!Nothing]
    BY <1>4, <2>6
  <2>10. forgone' = forgone
    BY <1>2
  <2>11. Promise!Post(id)
    BY <1>2, <1>5, <2>3, <2>5, <2>8, <2>9, <2>10 DEF Promise!Post
  <2> QED
    BY <2>11 DEF Promise!Next
<1> QED
  BY <1>6, <1>7

\* A deleted order leaves the book; what is due for it may still be posted.
LEMMA DeleteRemoves ==
  ASSUME IInv, IInv', NEW id \in OrderIds, AdminDelete(id)
  PROVE  Promise!Next \/ UNCHANGED Promise!vars
<1>1. /\ order[id] # None
      /\ UNCHANGED <<customers, unused, awards, req, overlapped, forgone>>
      /\ order'[id] = None
      /\ \A o \in OrderIds \ {id} : order'[o] = order[o]
  BY DEF AdminDelete, history, IInv, TypeOK
<1>2. Alone /\ Alone'
  BY DEF IInv
<1>3. \A o \in OrderIds \ {id} :
        Book'[o] = Book[o] /\ Dues'[o] = Dues[o] /\ Paid'[o] = Paid[o]
  <2> SUFFICES ASSUME NEW o \in OrderIds \ {id}
               PROVE  /\ Book'[o] = Book[o] /\ Dues'[o] = Dues[o]
                      /\ Paid'[o] = Paid[o]
    OBVIOUS
  <2> QED
    BY <1>1, <1>2, OtherOrders
<1>4. Paid' = Paid
  BY <1>1 DEF Paid
<1>5. CASE id \in overlapped
  <2>1. Book'[id] = Book[id] /\ Dues'[id] = Dues[id] /\ Paid'[id] = Paid[id]
    BY <1>1, <1>5 DEF Book, Dues, Paid, Unentered
  <2>2. Book' = Book /\ Dues' = Dues /\ Paid' = Paid
    BY <1>3, <2>1, OneOrder
  <2> QED
    BY <1>1, <2>2 DEF Promise!vars
<1>6. CASE id \notin overlapped
  <2>1. id \notin unused /\ order[id] \in OrderRow
    BY <1>1 DEF IInv, UnusedOK, TypeOK
  <2>2. Book[id] = Entered(order[id]) /\ Book'[id] = Unentered("removed")
    BY <1>1, <1>6, <2>1 DEF Book
  <2>3. Dues'[id] \in {Dues[id], Promise!Nothing}
    <3>1. CASE \E q \in Reqs : req[q].id = id
      <4>1. PICK q \in Reqs : req[q].id = id
        BY <3>1
      <4>2. /\ Dues[id] = DueOf(req[q], order[id], awards[id], customers)
            /\ Dues'[id] = DueOf(req[q], None, awards[id], customers)
        BY <1>1, <1>2, <1>6, <4>1, DueOfRequest, DueOfRequestAfter
      <4>3. None \notin customers
        BY NullApart DEF IInv, TypeOK
      <4> QED
        BY <4>2, <4>3 DEF DueOf, PayeeOf, NothingDue, Promise!Nothing
    <3>2. CASE ~\E q \in Reqs : req[q].id = id
      BY <1>1, <3>2, DueOfNone
    <3> QED
      BY <3>1, <3>2
  <2>4. /\ Book' = [Book EXCEPT ![id] = Book'[id]]
        /\ Dues' = [Dues EXCEPT ![id] = Dues'[id]]
    BY <1>3, OneOrder
  <2>5. Promise!Remove(id)
    BY <1>1, <1>4, <2>1, <2>2, <2>3, <2>4, EntryType
       DEF Promise!Remove, Unentered, Promise!Blank
  <2> QED
    BY <2>5 DEF Promise!Next
<1> QED
  BY <1>5, <1>6

\* A request that arrives for an order in hand contends for it.
LEMMA StartContends ==
  ASSUME IInv, IInv', NEW r \in Reqs, NEW id \in OrderIds, Start(r, id)
  PROVE  Promise!Next \/ UNCHANGED Promise!vars
<1>1. PICK kind, pc, by, dto :
        /\ Arrive(r, kind, pc, id, by, dto)
        /\ pc \in {"menu", "post", "read"}
  BY DEF Start
<1>2. /\ req[r].pc = "idle"
      /\ UNCHANGED <<customers, unused, order, awards, forgone>>
      /\ overlapped' = IF Handling(id) # {} THEN overlapped \cup {id}
                                            ELSE overlapped
      /\ req' = [req EXCEPT ![r].pc = pc, ![r].kind = kind, ![r].id = id,
                            ![r].by = by, ![r].dto = dto]
  BY <1>1 DEF Arrive, tables
<1>3. /\ req[r] \in ReqRow /\ StageOK(r) /\ Alone /\ Alone'
      /\ \A q \in Reqs \ {r} : req'[q] = req[q]
  BY <1>2 DEF IInv, TypeOK, RequestsOK
<1>4. req[r].id = None
  BY <1>2, <1>3 DEF StageOK, PlaceStage, InStoreStage, CancelStage,
                    ClaimStage, ReadyStage, UpdateStage, AwardStage
<1>5. req'[r].pc = pc /\ req'[r].id = id
  <2>1. req'[r] = [req[r] EXCEPT !.pc = pc, !.kind = kind, !.id = id,
                                 !.by = by, !.dto = dto]
    BY <1>2 DEF IInv, TypeOK
  <2> QED
    BY <1>3, <2>1 DEF ReqRow
<1>6. \A o \in OrderIds \ {id} :
        Book'[o] = Book[o] /\ Dues'[o] = Dues[o] /\ Paid'[o] = Paid[o]
  <2> SUFFICES ASSUME NEW o \in OrderIds \ {id}
               PROVE  /\ Book'[o] = Book[o] /\ Dues'[o] = Dues[o]
                      /\ Paid'[o] = Paid[o]
    OBVIOUS
  <2>1. o \in overlapped' <=> o \in overlapped
    BY <1>2
  <2>2. \A q \in Reqs : o \in {req[q].id, req'[q].id} => req'[q] = req[q]
    BY <1>3, <1>4, <1>5, NullApart
  <2> QED
    BY <1>2, <1>3, <2>1, <2>2, OtherOrders
<1>7. CASE overlapped' = overlapped
  <2>1. Book'[id] = Book[id] /\ Paid'[id] = Paid[id]
    BY <1>2, <1>7 DEF Book, Paid, Unentered, Entered, Goods
  <2>2. CASE id \in overlapped
    <3>1. Dues'[id] = Dues[id]
      BY <1>7, <2>2 DEF Dues
    <3> QED
      BY <1>2, <1>6, <2>1, <3>1, OneOrder DEF Promise!vars
  <2>3. CASE id \notin overlapped
    <3>1. Handling(id) = {}
      BY <1>2, <1>7, <2>3
    <3>2. /\ \A q \in Reqs : req[q].id # id
          /\ \A q \in Reqs : req'[q].id = id => ~Settling(req'[q])
      BY <1>1, <1>3, <1>5, <3>1 DEF Handling, Settling
    <3>3. Dues[id] = NothingDue /\ Dues'[id] = NothingDue
      BY <3>2, DueOfNone
    <3> QED
      BY <1>2, <1>6, <2>1, <3>3, OneOrder DEF Promise!vars
  <2> QED
    BY <2>2, <2>3
<1>8. CASE overlapped' # overlapped
  <2>1. id \in overlapped'
    BY <1>2, <1>8
  <2>2. /\ Book'[id] = Promise!Blank("contended")
        /\ Dues'[id] = Promise!Nothing
        /\ Paid'[id] = Promise!Nobody
    BY <2>1 DEF Book, Dues, Paid, Unentered, Promise!Blank, Promise!Nothing,
                Promise!Nobody
  <2>3. /\ Book' = [Book EXCEPT ![id] = Book'[id]]
        /\ Dues' = [Dues EXCEPT ![id] = Dues'[id]]
        /\ Paid' = [Paid EXCEPT ![id] = Paid'[id]]
    BY <1>6, OneOrder
  <2>4. Promise!Contend(id)
    BY <1>2, <2>2, <2>3 DEF Promise!Contend
  <2> QED
    BY <2>4 DEF Promise!Next
<1> QED
  BY <1>7, <1>8

\* What an award owes when the account of u goes: u's award goes with it, and
\* no other award takes the place of the points that u had.
LEMMA DueAfterClosing ==
  ASSUME IInv, PayeeOK, NEW u \in Customers, DeleteCustomer(u),
         NEW q \in Reqs, NEW o \in OrderIds \ overlapped, req[q].id = o
  PROVE  DueOf(req[q], order'[o], awards'[o], customers')
           = LET due == DueOf(req[q], order[o], awards[o], customers)
             IN  IF due.to = u THEN NothingDue ELSE due
<1> DEFINE due   == DueOf(req[q], order[o], awards[o], customers)
           after == DueOf(req[q], order'[o], awards'[o], customers')
           p     == PayeeOf(req[q], order[o])
<1>1. /\ customers' = customers \ {u} /\ u \in customers
      /\ order'[o] = IF order[o] # None /\ order[o].owner = u
                     THEN [order[o] EXCEPT !.owner = None] ELSE order[o]
      /\ awards'[o] = [awards[o] EXCEPT ![u] = <<>>]
      /\ awards[o] \in [Customers -> Seq(Nat \ {0})]
  BY DEF DeleteCustomer, IInv, TypeOK
<1>2. /\ None \notin customers /\ None # u /\ customers \subseteq Customers
  BY NullApart DEF IInv, TypeOK
<1>3. PayeeOf(req[q], order'[o])
        = IF req[q].pc = "owner" /\ p = u THEN None ELSE p
  <2>1. order[o] \in OrderRow \cup {None}
    BY DEF IInv, TypeOK
  <2>2. CASE order[o] # None /\ order[o].owner = u
    <3>1. /\ order'[o] = [order[o] EXCEPT !.owner = None]
          /\ order[o] \in OrderRow
      BY <1>1, <2>1, <2>2
    <3>2. order'[o] \in OrderRow /\ order'[o].owner = None
      BY <3>1 DEF OrderRow
    <3>3. order'[o] # None
      BY <3>2, NullApart
    <3> QED
      BY <2>2, <3>2, <3>3 DEF PayeeOf
  <2>3. CASE ~(order[o] # None /\ order[o].owner = u)
    BY <1>1, <1>2, <2>3 DEF PayeeOf
  <2> QED
    BY <2>2, <2>3
<1>4. \A v \in Customers : awards'[o][v] = IF v = u THEN <<>> ELSE awards[o][v]
  BY <1>1
<1>5. /\ Settling(req[q]) /\ p \in customers \ {u}
      => (awards[o][u] = <<>>)
  <2> SUFFICES ASSUME Settling(req[q]), p \in customers \ {u},
                      awards[o][u] # <<>>
               PROVE  FALSE
    OBVIOUS
  <2>1. CASE req[q].pc = "owner"
    <3>1. order[o] # None /\ order[o].owner = p
      BY <1>2, <2>1 DEF PayeeOf
    <3> QED
      BY <3>1 DEF IInv, OneAward
  <2>2. CASE req[q].pc = "check"
    <3>1. req[q].to = p /\ p \in Customers
      BY <1>2, <2>2 DEF PayeeOf
    <3> QED
      BY <2>2, <3>1 DEF PayeeOK
  <2>3. CASE req[q].pc = "award"
    BY <2>3 DEF IInv, RequestsOK, RelyOK, Awarded
  <2> QED
    BY <2>1, <2>2, <2>3 DEF Settling
<1>6. due = IF /\ Settling(req[q]) /\ p \in customers /\ req[q].amount > 0
               /\ \A v \in Customers : awards[o][v] = <<>>
            THEN [to |-> p, amount |-> req[q].amount] ELSE NothingDue
  BY DEF DueOf
<1>7. after = IF /\ Settling(req[q]) /\ p \in customers \ {u}
                 /\ req[q].amount > 0
                 /\ \A v \in Customers : awards[o][v] = <<>>
              THEN [to |-> p, amount |-> req[q].amount] ELSE NothingDue
  <2>1. PayeeOf(req[q], order'[o]) \in customers' <=> p \in customers \ {u}
    BY <1>1, <1>2, <1>3
  <2>2. p \in customers \ {u} => PayeeOf(req[q], order'[o]) = p
    BY <1>3
  <2>3. Settling(req[q]) /\ p \in customers \ {u} =>
          ((\A v \in Customers : awards'[o][v] = <<>>)
             <=> (\A v \in Customers : awards[o][v] = <<>>))
    BY <1>4, <1>5
  <2> HIDE DEF p
  <2> QED
    BY <2>1, <2>2, <2>3 DEF DueOf
<1>8. NothingDue.to = None
  BY DEF NothingDue
<1> HIDE DEF p
<1>9. after = IF due.to = u THEN NothingDue ELSE due
  BY <1>2, <1>6, <1>7, <1>8
<1> QED
  BY <1>9

\* An account that is deleted is closed.
LEMMA DeleteCloses ==
  ASSUME IInv, IInv', PayeeOK, NEW u \in Customers, DeleteCustomer(u)
  PROVE  Promise!Next
<1>1. /\ customers' = customers \ {u} /\ u \in customers
      /\ UNCHANGED <<unused, req, overlapped, forgone>>
      /\ \A o \in OrderIds :
           /\ order'[o] = IF order[o] # None /\ order[o].owner = u
                          THEN [order[o] EXCEPT !.owner = None] ELSE order[o]
           /\ awards'[o] = [awards[o] EXCEPT ![u] = <<>>]
  BY DEF DeleteCustomer, history
<1>2. None # u /\ Alone /\ Alone'
  BY NullApart DEF IInv
<1>3. Book' = [o \in OrderIds |-> IF Book[o].owner = u
                                  THEN [Book[o] EXCEPT !.owner = None]
                                  ELSE Book[o]]
  <2> SUFFICES ASSUME NEW o \in OrderIds
               PROVE  Book'[o] = IF Book[o].owner = u
                                 THEN [Book[o] EXCEPT !.owner = None]
                                 ELSE Book[o]
    BY DEF Book
  <2>1. CASE order[o] = None \/ o \in unused \cup overlapped
    <3>1. order[o] = None => order'[o] = None
      BY <1>1
    <3>2. Book'[o] = Book[o]
      BY <1>1, <2>1, <3>1 DEF Book, Unentered
    <3>3. Book[o].owner = None
      BY <2>1 DEF Book, Unentered
    <3> QED
      BY <1>2, <3>2, <3>3
  <2>2. CASE order[o] # None /\ o \notin unused \cup overlapped
    <3>1. order[o] \in OrderRow
      BY <2>2 DEF IInv, TypeOK
    <3>2. Book[o] = Entered(order[o])
      BY <2>2 DEF Book
    <3>3. CASE order[o].owner = u
      <4>1. /\ order'[o] = [order[o] EXCEPT !.owner = None]
            /\ order'[o] \in OrderRow
        BY <1>1, <2>2, <3>1, <3>3 DEF OrderRow
      <4>2. Book'[o] = Entered(order'[o])
        BY <1>1, <2>2, <4>1, NullApart DEF Book
      <4>3. Entered(order'[o]) = [Entered(order[o]) EXCEPT !.owner = None]
        BY <3>1, <4>1 DEF Entered, Goods, OrderRow
      <4> QED
        BY <3>1, <3>2, <3>3, <4>2, <4>3, EntryType
    <3>4. CASE order[o].owner # u
      <4>1. order'[o] = order[o]
        BY <1>1, <3>4
      <4>2. Book'[o] = Entered(order[o])
        BY <1>1, <2>2, <4>1 DEF Book
      <4> QED
        BY <3>1, <3>2, <3>4, <4>2, EntryType
    <3> QED
      BY <3>3, <3>4
  <2> QED
    BY <2>1, <2>2
<1>4. Dues' = [o \in OrderIds |-> IF Dues[o].to = u
                                  THEN Promise!Nothing ELSE Dues[o]]
  <2> SUFFICES ASSUME NEW o \in OrderIds
               PROVE  Dues'[o] = IF Dues[o].to = u
                                 THEN NothingDue ELSE Dues[o]
    BY DEF Dues, NothingDue, Promise!Nothing
  <2>1. NothingDue.to # u
    BY <1>2 DEF NothingDue
  <2>2. CASE o \in overlapped
    <3>1. Dues[o] = NothingDue /\ Dues'[o] = NothingDue
      BY <1>1, <2>2 DEF Dues, NothingDue
    <3> QED
      BY <2>1, <3>1
  <2>3. CASE o \notin overlapped /\ \E q \in Reqs : req[q].id = o
    <3>1. PICK q \in Reqs : req[q].id = o
      BY <2>3
    <3>2. /\ Dues[o] = DueOf(req[q], order[o], awards[o], customers)
          /\ Dues'[o] = DueOf(req[q], order'[o], awards'[o], customers')
      BY <1>1, <1>2, <2>3, <3>1, DueOfRequest, DueOfRequestAfter
    <3> QED
      BY <2>3, <3>1, <3>2, DueAfterClosing
  <2>4. CASE ~\E q \in Reqs : req[q].id = o
    <3>1. Dues[o] = NothingDue /\ Dues'[o] = NothingDue
      BY <1>1, <2>4, DueOfNone
    <3> QED
      BY <2>1, <3>1
  <2> QED
    BY <2>2, <2>3, <2>4
<1>5. Paid' = [o \in OrderIds |-> [Paid[o] EXCEPT ![u] = <<>>]]
  <2> SUFFICES ASSUME NEW o \in OrderIds
               PROVE  Paid'[o] = [Paid[o] EXCEPT ![u] = <<>>]
    BY DEF Paid
  <2>1. CASE o \in overlapped
    BY <1>1, <2>1 DEF Paid
  <2>2. CASE o \notin overlapped
    BY <1>1, <2>2 DEF Paid
  <2> QED
    BY <2>1, <2>2
<1>6. Promise!Close(u)
  BY <1>1, <1>3, <1>4, <1>5 DEF Promise!Close
<1> QED
  BY <1>6 DEF Promise!Next

-----------------------------------------------------------------------------
\* Between the look-up and the award the payee stays the only one awarded.
LEMMA PayeeInvariant ==
  ASSUME IInv, IInv', PayeeOK, [Next]_vars
  PROVE  PayeeOK'
<1> SUFFICES ASSUME NEW q \in Reqs, req'[q].pc = "check",
                    req'[q].id \notin overlapped', req'[q].to \in Customers,
                    NEW v \in Customers \ {req'[q].to}
             PROVE  awards'[req'[q].id][v] = <<>>
  BY DEF PayeeOK
<1>1. PICK id \in OrderIds : id = req'[q].id
  <2>1. StageOK(q)'
    BY DEF IInv, RequestsOK
  <2>2. AwardStage(req'[q]) /\ req'[q].id \in OrderIds
    BY <2>1 DEF StageOK, PlaceStage, InStoreStage, CancelStage, ClaimStage,
                ReadyStage, UpdateStage
  <2> QED
    BY <2>2
<1>2. Alone /\ Alone' /\ req \in [Reqs -> ReqRow]
  BY DEF IInv, TypeOK
\* The request has been waiting, and the step awards no other customer.
<1>3. ASSUME req'[q] = req[q], id \notin overlapped,
             awards[id][v] = <<>> => awards'[id][v] = <<>>
      PROVE  awards'[id][v] = <<>>
  BY <1>1, <1>2, <1>3 DEF PayeeOK
\* What a request of its own does.
<1>4. ASSUME Step(q)
      PROVE  awards'[id][v] = <<>>
  <2>1. ~Done(q)
    BY <1>2, IdleType DEF Done
  <2>2. ~Throw(q)
    BY <2>1 DEF Throw
  <2>3. CASE ReadOwner(q)
    <3> DEFINE to == IF Exists(q) /\ Row(q).owner # None THEN Row(q).owner
                                                        ELSE Guest
    <3>1. /\ req' = [req EXCEPT ![q].pc = "check", ![q].to = to]
          /\ UNCHANGED <<awards, overlapped>>
      BY <2>3 DEF ReadOwner, Reading, tables, history
    <3> HIDE DEF to
    <3>2. req'[q].to = to /\ req'[q].id = req[q].id
      BY <1>2, <3>1 DEF ReqRow
    <3>3. to \in Customers => order[id] # None /\ order[id].owner = to
      BY <1>1, <3>2, NullApart DEF to, Exists, Row
    <3> QED
      BY <1>1, <1>2, <3>1, <3>2, <3>3 DEF IInv, OneAward
  <2>4. CASE CommitInStore(q)
    <3>1. PICK o \in OrderIds, row \in ReqRow :
            /\ o \in unused /\ req' = [req EXCEPT ![q] = row] /\ row.id = o
            /\ UNCHANGED awards
      BY <2>2, <2>4, SoldRow
    <3>2. o = id
      BY <1>1, <1>2, <3>1
    <3> QED
      BY <3>1, <3>2 DEF IInv, UnusedOK, Awarded
  <2>5. CASE CommitClaim(q)
    <3>1. /\ req[q].id \notin overlapped => order[req[q].id].owner = Guest
          /\ Exists(q) /\ req[q].id \in OrderIds
          /\ UNCHANGED <<awards, overlapped>>
      BY <2>5, ClaimHolds DEF CommitClaim, Row, history
    <3>2. req'[q].id = req[q].id
      <4>1. PICK by \in Customers, n \in Int :
              by = req[q].by /\ n = Goods(req[q].seen)
        <5>1. req[q].seen \in ClaimSeen /\ req[q].by \in Customers
          BY <2>5, StageOf DEF CommitClaim, At, ClaimStage
        <5> QED
          BY <5>1 DEF ClaimSeen, Goods
      <4>2. req' = [req EXCEPT ![q] = ForAward("check", req[q].id, by, n)]
        BY <2>1, <2>5, <4>1 DEF CommitClaim, ToAward, ForAward
      <4>3. "check" \in Places
        BY DEF Places
      <4> QED
        BY <1>2, <3>1, <4>2, <4>3, AwardRow
    <3> QED
      BY <1>1, <1>2, <3>1, <3>2, NullApart DEF IInv, OneAward, Exists, Row
  <2>6. CASE WriteUpdate(q)
    <3>1. req'[q] = Idle \/ req'[q].pc = "owner"
      BY <2>2, <2>6, EditedRow
    <3> QED
      BY <3>1, IdleType
  <2>7. CASE CheckAward(q)
    <3>1. Goto(q, "award")
      BY <2>1, <2>7 DEF CheckAward
    <3>2. req'[q].pc = "award"
      BY <1>2, <3>1 DEF Goto, ReqRow
    <3> QED
      BY <3>2
  <2>8. CASE \/ CommitOrder(q) \/ WriteCancel(q) \/ Award(q) \/ AwardFails(q)
    BY <2>1, <2>2, <2>8 DEF CommitOrder, WriteCancel, Award, AwardFails
  <2>9. CASE \/ ResolveStore(q) \/ ReadMenu(q) \/ FindCustomer(q)
             \/ ReadCancel(q) \/ ReadClaim(q) \/ LinkOrder(q) \/ ReadClaimed(q)
             \/ ReadOrder(q) \/ ReadForReady(q) \/ WriteReady(q)
    BY <2>1, <2>9, ReadingMoves DEF Settling
  <2> QED
    BY <1>4, <2>3, <2>4, <2>5, <2>6, <2>7, <2>8, <2>9 DEF Step
\* What others do.
<1>5. ASSUME NEW r \in Reqs \ {q}, Step(r)
      PROVE  awards'[id][v] = <<>>
  <2>1. req'[q] = req[q] /\ overlapped' = overlapped
    BY <1>2, <1>5
       DEF Step, ResolveStore, ReadMenu, CommitOrder, FindCustomer,
           CommitInStore, ReadCancel, WriteCancel, ReadClaim, LinkOrder,
           ReadClaimed, CommitClaim, ReadOrder, WriteUpdate, ReadOwner,
           CheckAward, Award, AwardFails, ReadForReady, WriteReady,
           Throw, Done, Goto, ToAward, Reading, history
  <2>2. req[r].id # id
    BY <1>1, <1>2, <2>1 DEF Alone
  <2>3. awards'[id] = awards[id]
    <3>1. CASE Award(r)
      BY <1>2, <2>2, <3>1 DEF Award, IInv, TypeOK
    <3>2. CASE ~Award(r)
      BY <1>5, <3>2
         DEF Step, ResolveStore, ReadMenu, CommitOrder, FindCustomer,
             CommitInStore, ReadCancel, WriteCancel, ReadClaim, LinkOrder,
             ReadClaimed, CommitClaim, ReadOrder, WriteUpdate, ReadOwner,
             CheckAward, AwardFails, ReadForReady, WriteReady,
             Throw, Reading, tables
    <3> QED
      BY <3>1, <3>2
  <2> QED
    BY <1>1, <1>3, <2>1, <2>3
<1>6. ASSUME NEW r \in Reqs, NEW o \in OrderIds, Start(r, o)
      PROVE  awards'[id][v] = <<>>
  <2>1. PICK kind, pc, by, dto :
          /\ Arrive(r, kind, pc, o, by, dto)
          /\ pc \in {"menu", "post", "read"}
    BY <1>6 DEF Start
  <2>2. /\ req' = [req EXCEPT ![r].pc = pc, ![r].kind = kind, ![r].id = o,
                              ![r].by = by, ![r].dto = dto]
        /\ UNCHANGED awards /\ overlapped \subseteq overlapped'
    BY <2>1 DEF Arrive, tables
  <2>3. req'[r].pc = pc
    BY <1>2, <2>2 DEF ReqRow
  <2>4. req'[q] = req[q]
    BY <1>2, <2>1, <2>2, <2>3
  <2> QED
    BY <1>1, <1>3, <2>2, <2>4
<1>7. ASSUME NEW r \in Reqs, Die(r)
      PROVE  awards'[id][v] = <<>>
  <2>1. Done(r) /\ UNCHANGED <<awards, overlapped>>
    BY <1>7 DEF Die, tables
  <2>2. req'[q] = req[q]
    BY <1>2, <2>1, IdleType DEF Done
  <2> QED
    BY <1>1, <1>3, <2>1, <2>2
<1>8. ASSUME Around \/ UNCHANGED vars
      PROVE  awards'[id][v] = <<>>
  <2>1. UNCHANGED <<req, overlapped>>
    BY <1>8 DEF Around, AdminDelete, DeleteCustomer, history, vars
  <2>2. awards[id][v] = <<>> => awards'[id][v] = <<>>
    <3>1. CASE \E u \in Customers : DeleteCustomer(u)
      <4>1. PICK u \in Customers : DeleteCustomer(u)
        BY <3>1
      <4>2. awards'[id] = [awards[id] EXCEPT ![u] = <<>>]
        BY <1>2, <4>1 DEF DeleteCustomer
      <4> QED
        BY <1>2, <4>2 DEF IInv, TypeOK
    <3>2. CASE UNCHANGED awards
      BY <3>2
    <3> QED
      BY <1>8, <3>1, <3>2 DEF Around, AdminDelete, vars
  <2> QED
    BY <1>1, <1>3, <2>1, <2>2
<1>9. awards'[id][v] = <<>>
  BY <1>4, <1>5, <1>6, <1>7, <1>8 DEF Next
<1> QED
  BY <1>1, <1>9

\* Every step is a step of the promise, or none.
LEMMA StepKeepsPromise ==
  ASSUME IInv, IInv', PayeeOK, [Next]_vars
  PROVE  Promise!Next \/ UNCHANGED Promise!vars
<1>1. ASSUME NEW r \in Reqs, Step(r)
      PROVE  Promise!Next \/ UNCHANGED Promise!vars
  <2>1. CASE \/ ResolveStore(r) \/ ReadMenu(r) \/ FindCustomer(r)
             \/ ReadCancel(r) \/ ReadClaim(r) \/ LinkOrder(r) \/ ReadClaimed(r)
             \/ ReadOrder(r) \/ ReadForReady(r) \/ WriteReady(r)
    BY <2>1, ReadingUnseen
  <2>2. ASSUME Throw(r), \/ CommitOrder(r) \/ CommitInStore(r)
                         \/ WriteCancel(r) \/ WriteUpdate(r)
        PROVE  UNCHANGED Promise!vars
    <3>1. req[r].pc # "idle" /\ ~Settling(req[r]) /\ Done(r) /\ Reading
      BY <2>2 DEF CommitOrder, CommitInStore, WriteCancel, WriteUpdate, At,
                  Settling, Throw
    <3> QED
      BY <3>1, UnseenSteps
  <2>3. CASE CommitOrder(r) \/ CommitInStore(r)
    BY <2>2, <2>3, CommitEnters
  <2>4. CASE WriteCancel(r)
    BY <2>2, <2>4, CancelRevises
  <2>5. CASE WriteUpdate(r)
    BY <2>2, <2>5, UpdateRevises
  <2>6. CASE CommitClaim(r)
    BY <2>6, CommitClaims
  <2>7. CASE ReadOwner(r)
    BY <2>7, OwnerUnseen
  <2>8. CASE CheckAward(r)
    BY <2>8, CheckForgoes
  <2>9. CASE Award(r)
    BY <2>9, AwardPosts
  <2>10. CASE AwardFails(r)
    BY <2>10, LossForgoes
  <2> QED
    BY <1>1, <2>1, <2>3, <2>4, <2>5, <2>6, <2>7, <2>8, <2>9, <2>10 DEF Step
<1>2. ASSUME NEW r \in Reqs, (\E o \in OrderIds : Start(r, o)) \/ Die(r)
      PROVE  Promise!Next \/ UNCHANGED Promise!vars
  BY <1>2, StartContends, LossForgoes
<1>3. CASE Around
  BY <1>3, DeleteRemoves, DeleteCloses DEF Around
<1>4. CASE UNCHANGED vars
  <2>1. UNCHANGED <<customers, unused, order, awards, req, overlapped, forgone>>
    BY <1>4 DEF vars
  <2>2. Book' = Book /\ Paid' = Paid
    BY <2>1 DEF Book, Paid, Entered, Unentered, Goods
  <2>3. Dues' = Dues
    BY <2>1 DEF Dues, Awarded, Awarding, Handling, Payee, Exists, Row
  <2> QED
    BY <2>1, <2>2, <2>3 DEF Promise!vars
<1> QED
  BY <1>1, <1>2, <1>3, <1>4 DEF Next

\* The orders nobody contends for earn points as OrderRewards promises: due
\* when they are finished, sold or claimed, and then posted once or forgone.
THEOREM RewardsPromised == Spec => ImplementsRewards
<1>1. Init => Promise!Init /\ PayeeOK
  <2> SUFFICES ASSUME Init PROVE Promise!Init /\ PayeeOK
    OBVIOUS
  <2>1. \A r \in Reqs : req[r].pc = "idle" /\ req[r].id = None
    BY IdleType DEF Init
  <2>2. PayeeOK
    BY <2>1 DEF PayeeOK
  <2>3. Book = [o \in OrderIds |-> Promise!Blank("unused")]
    BY DEF Init, Book, Unentered, Promise!Blank
  <2>4. Paid = [o \in OrderIds |-> Promise!Nobody]
    BY DEF Init, Paid, Promise!Nobody
  <2>5. \A o \in OrderIds : Dues[o] = NothingDue
    BY <2>1, DueOfNone, NullApart DEF Settling
  <2>6. Dues = [o \in OrderIds |-> Promise!Nothing]
    BY <2>5 DEF Dues, NothingDue, Promise!Nothing
  <2> QED
    BY <2>2, <2>3, <2>4, <2>6 DEF Init, Promise!Init
<1>2. IInv /\ IInv' /\ PayeeOK /\ [Next]_vars =>
        PayeeOK' /\ [Promise!Next]_(Promise!vars)
  BY PayeeInvariant, StepKeepsPromise
<1> QED
  BY <1>1, <1>2, OrdersInvariant, PTL
     DEF Spec, ImplementsRewards, Promise!Spec
=============================================================================
