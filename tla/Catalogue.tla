----------------------------- MODULE Catalogue ------------------------------
(***************************************************************************)
(* The menu and the rewards: categories and the items in them, each in an  *)
(* order of positions that makes room for new ones, and the rewards that   *)
(* items can be redeemed as (menu-categories, menu-items, points-reward).  *)
(*                                                                         *)
(* Creating or moving a category or an item is a transaction of two        *)
(* statements at READ COMMITTED: the first shifts what stands at or after  *)
(* the position, the second writes the row.  The first one finds its rows  *)
(* at once, waits for those another transaction has changed and looks at   *)
(* these, but at no new ones, again.  Nothing is seen of a transaction     *)
(* until it commits.  Where a lookup only throws what the constraints of   *)
(* the tables throw later as well, the two are one step.                   *)
(***************************************************************************)
EXTENDS Naturals, FiniteSets

CONSTANTS Categories, Items, Rewards,  \* ids
          Menu,                        \* the list of the categories
          MaxPosition,                 \* bound of the positions
          Reqs,                        \* slots for requests in flight
          None                         \* null

\* What is ordered, and the lists: the menu, and each category.
Entries == Categories \cup Items
Lists == {Menu} \cup Categories
Positions == 0..MaxPosition
Place == [list : Lists, pos : Positions]

ASSUME CatalogueAssumption ==
  /\ Categories \cap Items = {}
  /\ MaxPosition \in Nat
  /\ Menu \notin Entries \cup {None}
  /\ None \notin Entries \cup Rewards \cup Reqs \cup Nat \cup Place

VARIABLES place,      \* the list and the position of each category and item
          reward,     \* the item of each reward
          req,        \* the requests in flight
          disturbed,  \* history: lists whose order may be spoiled
          contested   \* history: items two requests wanted a reward for

vars == <<place, reward, req, disturbed, contested>>

Idle == [pc |-> "idle", id |-> None, to |-> None, pos |-> None, list |-> None,
         rows |-> {}, reward |-> None, item |-> None]

Init ==
  /\ place = [e \in Entries |-> None]
  /\ reward = [w \in Rewards |-> None]
  /\ req = [r \in Reqs |-> Idle]
  /\ disturbed = {}
  /\ contested = {}

-----------------------------------------------------------------------------
(* Requests and rows. *)

At(r, pc) == req[r].pc = pc
Done(r) == req' = [req EXCEPT ![r] = Idle]

\* The handler throws, or the process dies: its transaction is rolled back.
Throw(r) == Done(r) /\ UNCHANGED <<place, reward, disturbed, contested>>
Die(r) == ~At(r, "idle") /\ Throw(r)

Exists(e) == place[e] # None
HasList(l) == l \in {Menu} \cup {c \in Categories : Exists(c)}

\* Ids are never used twice; one that nothing refers to stands for a new one.
Unused(e) ==
  /\ ~Exists(e)
  /\ \A q \in Reqs : /\ e \notin {req[q].id, req[q].list, req[q].to, req[q].item}
                     /\ e \notin req[q].rows
UnusedReward(w) == reward[w] = None /\ \A q \in Reqs : req[q].reward # w

\* The rows that transactions have changed, which others wait for.
Locked(r) == UNION {req[q].rows : q \in {p \in Reqs \ {r} : At(p, "write")}}

\* Two requests that change the order of a list at once.
Overlap(r, l) == \E q \in Reqs \ {r} : req[q].list = l

-----------------------------------------------------------------------------
(* create of a category or an item; update of one. *)

\* Mutant: what stands at the position itself stays.
After(l, pos, id) ==
  {e \in Entries \ {id} : Exists(e) /\ place[e].list = l /\ place[e].pos > pos}

\* What stands at or after a position.
AtOrAfter(l, pos, id) ==
  {e \in Entries \ {id} : Exists(e) /\ place[e].list = l /\ place[e].pos >= pos}

\* create: the first statement finds what it will shift.
StartCreate(r, l, pos) ==
  /\ At(r, "idle")
  /\ HasList(l)
  /\ req' = [req EXCEPT ![r].pc = "shift", ![r].list = l, ![r].to = l,
                        ![r].pos = pos, ![r].rows = AtOrAfter(l, pos, None)]
  /\ disturbed' = IF Overlap(r, l) THEN disturbed \cup {l} ELSE disturbed
  /\ UNCHANGED <<place, reward, contested>>

\* update: what the row was is read before the transaction.  A category or a
\* position that is not sent stays; without a new position nothing is shifted.
StartUpdate(r, e, to, pos) ==
  /\ At(r, "idle")
  /\ Exists(e)
  /\ to = None \/ (e \in Items /\ HasList(to))
  /\ LET l == IF to = None THEN place[e].list ELSE to
         shifts == pos # None /\ pos # place[e].pos
     IN  /\ req' = [req EXCEPT ![r].pc = IF shifts THEN "find" ELSE "write",
                               ![r].id = e, ![r].to = to, ![r].pos = pos,
                               ![r].list = IF shifts THEN l ELSE None]
         /\ disturbed' = IF Overlap(r, l) THEN disturbed \cup {l} ELSE disturbed
  /\ UNCHANGED <<place, reward, contested>>

FindRows(r) ==
  /\ At(r, "find")
  /\ req' = [req EXCEPT ![r].pc = "shift",
                        ![r].rows = AtOrAfter(req[r].list, req[r].pos, req[r].id)]
  /\ UNCHANGED <<place, reward, disturbed, contested>>

\* The rows are changed when nobody else is changing them, if they are still
\* where they have to be.
ShiftRows(r) ==
  /\ At(r, "shift")
  /\ req[r].rows \cap Locked(r) = {}
  /\ LET rows == req[r].rows
                 \cap AtOrAfter(req[r].list, req[r].pos, req[r].id)
     IN  /\ \A e \in rows : place[e].pos < MaxPosition
         /\ req' = [req EXCEPT ![r].pc = "write", ![r].rows = rows]
  /\ UNCHANGED <<place, reward, disturbed, contested>>

\* The order with the rows shifted.
Shifted(r) ==
  [e \in Entries |-> IF e \in req[r].rows
                     THEN [place[e] EXCEPT !.pos = @ + 1] ELSE place[e]]

\* The new row, and the commit; its category must exist.
WriteNew(r) ==
  /\ At(r, "write")
  /\ req[r].id = None
  /\ IF HasList(req[r].to)
     THEN /\ \E e \in IF req[r].to = Menu THEN Categories ELSE Items :
                /\ Unused(e)
                /\ place' = [Shifted(r) EXCEPT ![e] = [list |-> req[r].to,
                                                       pos |-> req[r].pos]]
          /\ Done(r)
          /\ UNCHANGED <<reward, disturbed, contested>>
     ELSE Throw(r)

\* The row, which must still be there, with what was sent, and the commit.  A
\* row that comes to another place that was not cleared spoils the order.
WriteOld(r) ==
  /\ At(r, "write")
  /\ req[r].id # None
  /\ req[r].id \notin Locked(r)
  /\ LET e == req[r].id
         new == [list |-> IF req[r].to = None THEN place[e].list ELSE req[r].to,
                 pos |-> IF req[r].pos = None THEN place[e].pos ELSE req[r].pos]
     IN  IF Exists(e) /\ (req[r].to = None \/ HasList(req[r].to))
         THEN /\ place' = [Shifted(r) EXCEPT ![e] = new]
              /\ disturbed' = IF new = place[e] \/ new.list = req[r].list
                              THEN disturbed ELSE disturbed \cup {new.list}
              /\ Done(r)
              /\ UNCHANGED <<reward, contested>>
         ELSE Throw(r)

-----------------------------------------------------------------------------
(* remove. *)

\* Mutant: a category goes without its items.
RemoveCategoryOnly(c) ==
  /\ Exists(c)
  /\ c \notin Locked(None)
  /\ place' = [place EXCEPT ![c] = None]
  /\ disturbed' = disturbed \ {c}
  /\ UNCHANGED <<reward, req, contested>>

\* A category with items stays, even if one came after they were counted.
RemoveCategory(c) ==
  /\ Exists(c)
  /\ c \notin Locked(None)
  /\ \A e \in Items : Exists(e) => place[e].list # c
  /\ place' = [place EXCEPT ![c] = None]
  /\ disturbed' = disturbed \ {c}
  /\ UNCHANGED <<reward, req, contested>>

\* The rewards of an item go with it.
RemoveItem(e) ==
  /\ Exists(e)
  /\ e \notin Locked(None)
  /\ place' = [place EXCEPT ![e] = None]
  /\ reward' = [w \in Rewards |-> IF reward[w] = e THEN None ELSE reward[w]]
  /\ contested' = contested \ {e}
  /\ UNCHANGED <<req, disturbed>>

-----------------------------------------------------------------------------
(* create, update and remove of a reward. *)

\* Mutant: only a new reward has to be the only one of its item.
TakenByNew(w, item) == w = None /\ \E v \in Rewards : reward[v] = item

\* Another reward of the item.
TakenByOther(w, item) == \E v \in Rewards \ {w} : reward[v] = item

\* The item is there, and has no other reward.
StartReward(r, w, item) ==
  /\ At(r, "idle")
  /\ w \in {None} \cup {v \in Rewards : reward[v] # None}
  /\ Exists(item)
  /\ ~TakenByOther(w, item)
  /\ req' = [req EXCEPT ![r].pc = "reward", ![r].reward = w, ![r].item = item]
  /\ contested' = IF \E q \in Reqs : req[q].item = item
                  THEN contested \cup {item} ELSE contested
  /\ UNCHANGED <<place, reward, disturbed>>

\* The row is created or updated; the item must still be there.
WriteReward(r) ==
  /\ At(r, "reward")
  /\ \E w \in Rewards :
       LET old == req[r].reward
       IN  /\ IF old = None THEN UnusedReward(w) ELSE w = old
           /\ IF Exists(req[r].item) /\ (old = None \/ reward[w] # None)
              THEN /\ reward' = [reward EXCEPT ![w] = req[r].item]
                   /\ Done(r)
                   /\ UNCHANGED <<place, disturbed, contested>>
              ELSE Throw(r)

RemoveReward(w) ==
  /\ reward[w] # None
  /\ reward' = [reward EXCEPT ![w] = None]
  /\ UNCHANGED <<place, req, disturbed, contested>>

-----------------------------------------------------------------------------
\* The handlers, from the arrival of a request on.
CreateEntry(r) == ShiftRows(r) \/ WriteNew(r)
UpdateEntry(r) == FindRows(r) \/ ShiftRows(r) \/ WriteOld(r)

Step(r) == CreateEntry(r) \/ UpdateEntry(r) \/ WriteReward(r)

Next ==
  \/ \E r \in Reqs :
        \/ \E l \in Lists, pos \in Positions : StartCreate(r, l, pos)
        \/ \E e \in Entries, to \in Categories \cup {None},
              pos \in Positions \cup {None} : StartUpdate(r, e, to, pos)
        \/ \E w \in Rewards \cup {None}, item \in Items : StartReward(r, w, item)
        \/ Step(r)
        \/ Die(r)
  \/ \E c \in Categories : RemoveCategory(c)
  \/ \E e \in Items : RemoveItem(e)
  \/ \E w \in Rewards : RemoveReward(w)

Spec == Init /\ [][Next]_vars

-----------------------------------------------------------------------------
(* Properties. *)

ReqRow ==
  [pc : {"idle", "find", "shift", "write", "reward"},
   id : Entries \cup {None}, to : Lists \cup {None},
   pos : Positions \cup {None}, list : Lists \cup {None},
   rows : SUBSET Entries, reward : Rewards \cup {None}, item : Items \cup {None}]

\* Rows and requests have their types; categories are in the menu, items in a
\* category that exists, and rewards are for items that exist.
TypeOK ==
  /\ place \in [Entries -> Place \cup {None}]
  /\ \A c \in Categories : Exists(c) => place[c].list = Menu
  /\ \A e \in Items :
       Exists(e) => place[e].list \in Categories /\ Exists(place[e].list)
  /\ reward \in [Rewards -> Items \cup {None}]
  /\ \A w \in Rewards : reward[w] # None => Exists(reward[w])
  /\ req \in [Reqs -> ReqRow]
  /\ disturbed \subseteq Lists
  /\ contested \subseteq Items

\* No two categories, and no two items of a category, are at one position,
\* whatever is created, moved and removed elsewhere meanwhile; unless two
\* requests changed the list at once, or one moved an item there without
\* making room for it.
PositionsDistinct ==
  \A e, f \in Entries :
     Exists(e) /\ place[e] = place[f] => e = f \/ place[e].list \in disturbed

\* An item has at most one reward, unless two requests wanted one for it at
\* once.
OneRewardPerItem ==
  \A v, w \in Rewards :
     reward[v] # None /\ reward[v] = reward[w] => v = w \/ reward[v] \in contested
=============================================================================
