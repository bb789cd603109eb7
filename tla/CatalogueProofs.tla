-------------------------- MODULE CatalogueProofs ---------------------------
(***************************************************************************)
(* Proofs about Catalogue, for any number of categories, items, positions, *)
(* rewards and requests.                                                   *)
(*                                                                         *)
(* A position is free once the rows at or after it are shifted and locked, *)
(* and stays free as long as nobody else changes the list: that is what a  *)
(* request has between its two statements, and what an overlap takes away. *)
(***************************************************************************)
EXTENDS Catalogue, TLAPS

\* Where a request may be, and what it has in its variables there.
Shifting(q) ==
  /\ q.pc \in {"find", "shift", "write"}
  /\ q.list \in Lists /\ q.pos \in Positions
  /\ q.pc = "find" => q.id # None
  /\ q.id = None => q.to = q.list
  /\ q.id \in Categories => q.to = None
  /\ q.id \in Items => q.to # Menu
  /\ q.to # None => q.to = q.list

Keeping(q) ==
  /\ q.pc = "write"
  /\ q.id # None /\ q.list = None /\ q.rows = {}
  /\ q.id \in Categories => q.to = None
  /\ q.id \in Items => q.to # Menu

Rewarding(q) ==
  /\ q.pc = "reward"
  /\ q.item \in Items
  /\ q.id = None /\ q.list = None /\ q.to = None /\ q.rows = {}

StageOK(q) == q = Idle \/ Shifting(q) \/ Keeping(q) \/ Rewarding(q)

\* Only requests about rewards are about items and rewards.
Apart(q) == q.pc # "reward" => q.item = None /\ q.reward = None

\* What a transaction has changed, nobody else changes.
LockedOK(r) ==
  At(r, "write") =>
    /\ \A e \in req[r].rows : /\ Exists(e) /\ e # req[r].id
                              /\ place[e].list = req[r].list
                              /\ place[e].pos >= req[r].pos
                              /\ place[e].pos < MaxPosition
    /\ \A q \in Reqs \ {r} : At(q, "write") => req[q].rows \cap req[r].rows = {}

\* In a list that only one request changes, it has found what it has to shift.
ClearedOK(r) ==
  LET l == req[r].list
  IN  l \notin disturbed /\ HasList(l) =>
        /\ \A q \in Reqs : req[q].list = l => q = r
        /\ req[r].pc \in {"shift", "write"} =>
             AtOrAfter(l, req[r].pos, req[r].id) \subseteq req[r].rows

\* An item that only one request wants a reward for has no other one.
OnlyOK(r) ==
  LET item == req[r].item
  IN  At(r, "reward") /\ item \notin contested /\ Exists(item) =>
        /\ \A q \in Reqs : req[q].item = item => q = r
        /\ \A v \in Rewards : reward[v] = item => v = req[r].reward

RequestOK(r) ==
  /\ StageOK(req[r]) /\ Apart(req[r])
  /\ LockedOK(r) /\ ClearedOK(r) /\ OnlyOK(r)

\* The inductive invariant.
IInv ==
  /\ TypeOK
  /\ PositionsDistinct
  /\ OneRewardPerItem
  /\ \A r \in Reqs : RequestOK(r)

-----------------------------------------------------------------------------
\* A slot with no request has its type.
LEMMA IdleType ==
  /\ Idle \in ReqRow /\ Idle.pc = "idle" /\ Idle.rows = {}
  /\ Idle.id = None /\ Idle.to = None /\ Idle.pos = None /\ Idle.list = None
  /\ Idle.reward = None /\ Idle.item = None
BY DEF Idle, ReqRow

\* The null value is no row, and no list has it as its name.
LEMMA NullApart ==
  /\ None \notin Place /\ None \notin Entries /\ None \notin Lists
  /\ None \notin Items /\ None \notin Categories /\ None \notin Rewards
  /\ None \notin Positions /\ ~HasList(None)
<1>1. None \notin Place
  BY CatalogueAssumption
<1>2. /\ None \notin Entries /\ None \notin Rewards /\ None \notin Positions
      /\ Menu # None
  BY CatalogueAssumption DEF Positions
<1> QED
  BY <1>1, <1>2 DEF Entries, Lists, HasList

\* The invariant holds at the start.
LEMMA InitInvariant == Init => IInv
<1> SUFFICES ASSUME Init PROVE IInv
  OBVIOUS
<1> USE IdleType, NullApart DEF Init
<1>1. TypeOK
  BY DEF TypeOK, Exists, Entries
<1>2. PositionsDistinct /\ OneRewardPerItem
  BY DEF PositionsDistinct, OneRewardPerItem, Exists
<1>3. ASSUME NEW r \in Reqs PROVE RequestOK(r)
  BY DEF RequestOK, StageOK, Apart, LockedOK, ClearedOK, OnlyOK, At
<1> QED
  BY <1>1, <1>2, <1>3 DEF IInv

\* The rows that others have changed.
LEMMA LockedBy ==
  ASSUME NEW r
  PROVE  \A e : e \in Locked(r) <=>
                  \E q \in Reqs \ {r} : At(q, "write") /\ e \in req[q].rows
BY DEF Locked

\* What a request is, at each place of the program.
LEMMA StageOf ==
  ASSUME IInv, NEW r \in Reqs
  PROVE  /\ req[r] \in ReqRow /\ StageOK(req[r]) /\ Apart(req[r])
         /\ At(r, "idle") => req[r] = Idle
         /\ req[r].pc \in {"find", "shift"} => Shifting(req[r])
         /\ At(r, "write") => Shifting(req[r]) \/ Keeping(req[r])
         /\ At(r, "reward") => Rewarding(req[r])
<1>1. req[r] \in ReqRow /\ StageOK(req[r]) /\ Apart(req[r])
  BY DEF IInv, TypeOK, RequestOK
<1> QED
  BY <1>1, IdleType DEF At, StageOK, Shifting, Keeping, Rewarding

\* What stands at or after a position.
LEMMA Standing ==
  ASSUME NEW l, NEW pos, NEW id
  PROVE  /\ \A e : e \in AtOrAfter(l, pos, id) <=>
                     /\ e \in Entries /\ e # id /\ Exists(e)
                     /\ place[e].list = l /\ place[e].pos >= pos
         /\ AtOrAfter(l, pos, id) \subseteq Entries
BY DEF AtOrAfter

\* A step that changes no row of the lists and none of the rewards.
LEMMA LocalStep ==
  ASSUME IInv, NEW r \in Reqs, NEW row \in ReqRow,
         req' = [req EXCEPT ![r] = row], UNCHANGED <<place, reward>>,
         disturbed \subseteq disturbed', disturbed' \subseteq Lists,
         contested \subseteq contested', contested' \subseteq Items,
         StageOK(row), Apart(row),
         row.pc = "write" =>
           /\ row.rows \subseteq AtOrAfter(row.list, row.pos, row.id)
           /\ row.rows \cap Locked(r) = {}
           /\ \A e \in row.rows : place[e].pos < MaxPosition,
         row.list \notin disturbed' /\ HasList(row.list) =>
           /\ \A q \in Reqs \ {r} : req[q].list # row.list
           /\ row.pc \in {"shift", "write"} =>
                AtOrAfter(row.list, row.pos, row.id) \subseteq row.rows,
         row.pc = "reward" /\ row.item \notin contested' /\ Exists(row.item) =>
           /\ \A q \in Reqs \ {r} : req[q].item # row.item
           /\ \A v \in Rewards : reward[v] = row.item => v = row.reward
  PROVE  IInv'
<1>1. /\ req' \in [Reqs -> ReqRow] /\ req'[r] = row
      /\ \A q \in Reqs \ {r} : req'[q] = req[q]
  BY DEF IInv, TypeOK
<1>2. \A e : Exists(e)' <=> Exists(e)
  BY DEF Exists
<1>3. TypeOK'
  BY <1>1, <1>2 DEF IInv, TypeOK
<1>4. PositionsDistinct' /\ OneRewardPerItem'
  <2>1. PositionsDistinct /\ OneRewardPerItem
    BY DEF IInv
  <2>2. PositionsDistinct'
    BY <1>2, <2>1 DEF PositionsDistinct
  <2>3. OneRewardPerItem'
    BY <2>1 DEF OneRewardPerItem
  <2> QED
    BY <2>2, <2>3
<1>5. \A l : HasList(l)' <=> HasList(l)
  BY <1>2 DEF HasList
<1>6. \A q \in Reqs : RequestOK(q)
  BY DEF IInv
<1>7. \A e : e \in Locked(r) <=>
               \E q \in Reqs \ {r} : At(q, "write") /\ e \in req[q].rows
  BY LockedBy
<1>8. ASSUME NEW q \in Reqs PROVE RequestOK(q)'
  <2>1. StageOK(req[q])' /\ Apart(req[q])'
    <3>1. StageOK(req'[q]) /\ Apart(req'[q])
      BY <1>1, <1>6 DEF RequestOK
    <3> QED
      BY <3>1 DEF StageOK, Shifting, Keeping, Rewarding, Apart
  <2>2. LockedOK(q)'
    <3>1. CASE q = r
      <4>1. row.pc = "write" => \A e \in row.rows :
              /\ Exists(e) /\ e # row.id /\ place[e].list = row.list
              /\ place[e].pos >= row.pos /\ place[e].pos < MaxPosition
        BY Standing
      <4>2. row.pc = "write" => \A x \in Reqs \ {r} :
              At(x, "write") => req[x].rows \cap row.rows = {}
        BY <1>7
      <4> QED
        BY <1>1, <1>2, <3>1, <4>1, <4>2 DEF LockedOK, At
    <3>2. CASE q # r
      <4>1. LockedOK(q)
        BY <1>6 DEF RequestOK
      <4>2. At(q, "write") /\ row.pc = "write" => row.rows \cap req[q].rows = {}
        BY <1>7, <3>2
      <4> QED
        BY <1>1, <1>2, <3>2, <4>1, <4>2 DEF LockedOK, At
    <3> QED
      BY <3>1, <3>2
  <2>3. ClearedOK(q)'
    <3> DEFINE l == req'[q].list
    <3> SUFFICES ASSUME l \notin disturbed', HasList(l)
                 PROVE  /\ \A x \in Reqs : req'[x].list = l => x = q
                        /\ \A e \in Entries :
                             /\ req'[q].pc \in {"shift", "write"}
                             /\ e # req'[q].id /\ Exists(e)
                             /\ place[e].list = l /\ place[e].pos >= req'[q].pos
                             => e \in req'[q].rows
      BY <1>2, <1>5 DEF ClearedOK, AtOrAfter
    <3>1. CASE q = r
      BY <1>1, <3>1, Standing
    <3>2. CASE q # r
      <4>1. l = req[q].list /\ l \notin disturbed
        BY <1>1, <3>2
      <4>2. /\ \A x \in Reqs : req[x].list = l => x = q
            /\ req[q].pc \in {"shift", "write"} =>
                 AtOrAfter(l, req[q].pos, req[q].id) \subseteq req[q].rows
        BY <1>6, <4>1 DEF RequestOK, ClearedOK
      <4>3. row.list # l
        BY <3>2, <4>1
      <4> QED
        BY <1>1, <3>2, <4>1, <4>2, <4>3, Standing
    <3> QED
      BY <3>1, <3>2
  <2>4. OnlyOK(q)'
    <3> DEFINE item == req'[q].item
    <3> SUFFICES ASSUME At(q, "reward")', item \notin contested', Exists(item)
                 PROVE  /\ \A x \in Reqs : req'[x].item = item => x = q
                        /\ \A v \in Rewards :
                             reward[v] = item => v = req'[q].reward
      BY <1>2 DEF OnlyOK
    <3>1. CASE q = r
      BY <1>1, <3>1 DEF At
    <3>2. CASE q # r
      <4>1. /\ item = req[q].item /\ item \notin contested /\ At(q, "reward")
        BY <1>1, <3>2 DEF At
      <4>2. /\ \A x \in Reqs : req[x].item = item => x = q
            /\ \A v \in Rewards : reward[v] = item => v = req[q].reward
        BY <1>6, <4>1 DEF RequestOK, OnlyOK
      <4>3. item # None
        BY <4>1, StageOf, NullApart DEF Rewarding
      <4>4. row.item # item
        BY <3>2, <4>1, <4>3 DEF Apart
      <4> QED
        BY <1>1, <3>2, <4>1, <4>2, <4>4
    <3> QED
      BY <3>1, <3>2
  <2> QED
    BY <2>1, <2>2, <2>3, <2>4 DEF RequestOK
<1> QED
  BY <1>3, <1>4, <1>8 DEF IInv

\* The handler throws, or the process dies: nothing of it remains.
LEMMA ThrowStep ==
  ASSUME IInv, NEW r \in Reqs, Throw(r)
  PROVE  IInv'
<1>1. /\ req' = [req EXCEPT ![r] = Idle]
      /\ UNCHANGED <<place, reward, disturbed, contested>>
  BY DEF Throw, Done
<1>2. StageOK(Idle) /\ Apart(Idle)
  BY IdleType DEF StageOK, Apart
<1>3. disturbed \subseteq Lists /\ contested \subseteq Items
  BY DEF IInv, TypeOK
<1> QED
  BY <1>1, <1>2, <1>3, IdleType, NullApart, LocalStep

-----------------------------------------------------------------------------
(* Requests that arrive, and what they find. *)

\* A new category or item is asked for.
LEMMA StartCreateStep ==
  ASSUME IInv, NEW r \in Reqs, NEW l \in Lists, NEW pos \in Positions,
         StartCreate(r, l, pos)
  PROVE  IInv'
<1> DEFINE rows == AtOrAfter(l, pos, None)
           one  == [Idle EXCEPT !.pc = "shift", !.list = l]
           two  == [one EXCEPT !.to = l, !.pos = pos]
           row  == [two EXCEPT !.rows = rows]
<1>1. req[r] = Idle
  BY StageOf DEF StartCreate
<1>2. req' = [req EXCEPT ![r] = row]
  BY <1>1, IdleType DEF StartCreate, IInv, TypeOK, ReqRow
<1>3. rows \in SUBSET Entries
  BY Standing
<1>4. /\ one \in ReqRow /\ one.pc = "shift" /\ one.list = l
      /\ one.id = None /\ one.reward = None /\ one.item = None
  BY IdleType DEF ReqRow
<1> HIDE DEF one
<1>5. /\ two \in ReqRow /\ two.pc = "shift" /\ two.list = l /\ two.id = None
      /\ two.to = l /\ two.pos = pos /\ two.reward = None /\ two.item = None
  BY <1>4 DEF ReqRow
<1> HIDE DEF two
<1> HIDE DEF rows
<1>6. /\ row \in ReqRow /\ row.pc = "shift" /\ row.list = l /\ row.id = None
      /\ row.to = l /\ row.pos = pos /\ row.rows = rows
      /\ row.reward = None /\ row.item = None
  BY <1>3, <1>5 DEF ReqRow
<1> HIDE DEF row
<1>7. StageOK(row) /\ Apart(row)
  BY <1>6, NullApart DEF StageOK, Shifting, Apart, Entries
<1>8. /\ disturbed' = IF Overlap(r, l) THEN disturbed \cup {l} ELSE disturbed
      /\ UNCHANGED <<place, reward, contested>>
      /\ disturbed \subseteq Lists /\ contested \subseteq Items
  BY DEF StartCreate, IInv, TypeOK
<1>9. l \notin disturbed' => \A q \in Reqs \ {r} : req[q].list # l
  BY <1>8 DEF Overlap
<1> QED
  BY <1>2, <1>6, <1>7, <1>8, <1>9, LocalStep DEF rows

\* A change of a category or an item is asked for.
LEMMA StartUpdateStep ==
  ASSUME IInv, NEW r \in Reqs, NEW e \in Entries,
         NEW to \in Categories \cup {None}, NEW pos \in Positions \cup {None},
         StartUpdate(r, e, to, pos)
  PROVE  IInv'
<1> DEFINE l      == IF to = None THEN place[e].list ELSE to
           shifts == pos # None /\ pos # place[e].pos
           pc     == IF shifts THEN "find" ELSE "write"
           list   == IF shifts THEN l ELSE None
           one  == [Idle EXCEPT !.pc = pc, !.id = e]
           two  == [one EXCEPT !.to = to, !.pos = pos]
           row  == [two EXCEPT !.list = list]
<1>1. req[r] = Idle /\ Exists(e) /\ (to = None \/ e \in Items)
  BY StageOf DEF StartUpdate
<1>2. req' = [req EXCEPT ![r] = row]
  BY <1>1, IdleType DEF StartUpdate, IInv, TypeOK, ReqRow
<1>3. l \in Lists
  <2>1. place[e] \in Place
    BY <1>1 DEF Exists, IInv, TypeOK
  <2> QED
    BY <2>1 DEF Place, Lists
<1>4. /\ one \in ReqRow /\ one.pc = pc /\ one.id = e /\ one.list = None
      /\ one.rows = {} /\ one.reward = None /\ one.item = None
  BY IdleType DEF ReqRow
<1> HIDE DEF one
<1>5. /\ two \in ReqRow /\ two.pc = pc /\ two.id = e /\ two.list = None
      /\ two.rows = {} /\ two.reward = None /\ two.item = None
      /\ two.to = to /\ two.pos = pos
  BY <1>4 DEF ReqRow, Lists
<1> HIDE DEF two
<1>6. list \in Lists \cup {None}
  BY <1>3
<1> HIDE DEF list
<1>7. /\ row \in ReqRow /\ row.pc = pc /\ row.id = e /\ row.list = list
      /\ row.rows = {} /\ row.reward = None /\ row.item = None
      /\ row.to = to /\ row.pos = pos
  BY <1>5, <1>6 DEF ReqRow
<1> HIDE DEF row
<1>8. StageOK(row) /\ Apart(row)
  <2>1. e # None /\ (e \in Categories => to = None) /\ to # Menu
    BY <1>1, NullApart, CatalogueAssumption DEF Entries
  <2>2. CASE shifts
    <3>1. row.pc = "find" /\ row.list = l /\ row.pos \in Positions
      BY <1>7, <2>2 DEF list
    <3> QED
      BY <1>3, <1>7, <2>1, <3>1 DEF StageOK, Shifting, Apart
  <2>3. CASE ~shifts
    <3>1. row.pc = "write" /\ row.list = None
      BY <1>7, <2>3 DEF list
    <3> QED
      BY <1>7, <2>1, <3>1 DEF StageOK, Keeping, Apart
  <2> QED
    BY <2>2, <2>3
<1>9. /\ disturbed' = IF Overlap(r, l) THEN disturbed \cup {l} ELSE disturbed
      /\ UNCHANGED <<place, reward, contested>>
      /\ disturbed \subseteq Lists /\ contested \subseteq Items
  BY DEF StartUpdate, IInv, TypeOK
<1>10. disturbed \subseteq disturbed' /\ disturbed' \subseteq Lists
  BY <1>3, <1>9
<1>11. row.list \notin disturbed' /\ HasList(row.list) =>
         /\ row.pc \notin {"shift", "write"}
         /\ \A q \in Reqs \ {r} : req[q].list # row.list
  <2> SUFFICES ASSUME row.list \notin disturbed', HasList(row.list)
               PROVE  /\ row.pc \notin {"shift", "write"}
                      /\ \A q \in Reqs \ {r} : req[q].list # row.list
    OBVIOUS
  <2>1. shifts /\ row.list = l
    BY <1>7, NullApart DEF list
  <2> QED
    BY <1>7, <1>9, <2>1 DEF Overlap
<1>12. row.pc # "reward"
  BY <1>7
<1> QED
  BY <1>2, <1>7, <1>8, <1>9, <1>10, <1>11, <1>12, LocalStep

\* The first statement of an update finds its rows.
LEMMA FindRowsStep ==
  ASSUME IInv, NEW r \in Reqs, FindRows(r)
  PROVE  IInv'
<1> DEFINE rows == AtOrAfter(req[r].list, req[r].pos, req[r].id)
           one  == [req[r] EXCEPT !.pc = "shift"]
           row  == [one EXCEPT !.rows = rows]
<1>1. At(r, "find") /\ req[r] \in ReqRow /\ Shifting(req[r]) /\ Apart(req[r])
  BY StageOf DEF FindRows, At
<1>2. req' = [req EXCEPT ![r] = row] /\ UNCHANGED <<place, reward>>
  BY <1>1 DEF FindRows, IInv, TypeOK, ReqRow
<1>3. rows \in SUBSET Entries
  BY Standing
<1>4. /\ one \in ReqRow /\ one.pc = "shift" /\ one.list = req[r].list
      /\ one.id = req[r].id /\ one.to = req[r].to /\ one.pos = req[r].pos
      /\ one.reward = req[r].reward /\ one.item = req[r].item
  BY <1>1 DEF ReqRow
<1> HIDE DEF one, rows
<1>5. /\ row \in ReqRow /\ row.pc = "shift" /\ row.list = req[r].list
      /\ row.id = req[r].id /\ row.to = req[r].to /\ row.pos = req[r].pos
      /\ row.reward = req[r].reward /\ row.item = req[r].item
      /\ row.rows = rows
  BY <1>3, <1>4 DEF ReqRow
<1> HIDE DEF row
<1>6. StageOK(row) /\ Apart(row)
  BY <1>1, <1>5 DEF StageOK, Shifting, Apart, At
<1>7. /\ disturbed' = disturbed /\ contested' = contested
      /\ disturbed \subseteq Lists /\ contested \subseteq Items
  BY DEF FindRows, IInv, TypeOK
<1>8. row.list \notin disturbed /\ HasList(row.list) =>
        \A q \in Reqs \ {r} : req[q].list # row.list
  BY <1>5 DEF IInv, RequestOK, ClearedOK
<1>9. AtOrAfter(row.list, row.pos, row.id) = row.rows
  BY <1>5 DEF rows
<1> QED
  BY <1>2, <1>5, <1>6, <1>7, <1>8, <1>9, LocalStep

\* The rows are locked and shifted: those that are still where they were.
LEMMA ShiftRowsStep ==
  ASSUME IInv, NEW r \in Reqs, ShiftRows(r)
  PROVE  IInv'
<1> DEFINE all  == AtOrAfter(req[r].list, req[r].pos, req[r].id)
           rows == req[r].rows \cap all
           one  == [req[r] EXCEPT !.pc = "write"]
           row  == [one EXCEPT !.rows = rows]
<1>1. At(r, "shift") /\ req[r] \in ReqRow /\ Shifting(req[r]) /\ Apart(req[r])
  BY StageOf DEF ShiftRows, At
<1>2. /\ req' = [req EXCEPT ![r] = row] /\ UNCHANGED <<place, reward>>
      /\ \A e \in rows : place[e].pos < MaxPosition
      /\ req[r].rows \cap Locked(r) = {}
  BY <1>1 DEF ShiftRows, IInv, TypeOK, ReqRow
<1>3. rows \in SUBSET Entries
  BY Standing
<1>4. /\ one \in ReqRow /\ one.pc = "write" /\ one.list = req[r].list
      /\ one.id = req[r].id /\ one.to = req[r].to /\ one.pos = req[r].pos
      /\ one.reward = req[r].reward /\ one.item = req[r].item
  BY <1>1 DEF ReqRow
<1>5. rows \cap Locked(r) = {} /\ rows \subseteq all /\ rows \subseteq req[r].rows
  BY <1>2
<1>6. req[r].list \notin disturbed /\ HasList(req[r].list) => all \subseteq rows
  BY <1>1 DEF IInv, RequestOK, ClearedOK, At
<1> HIDE DEF one, rows
<1>7. /\ row \in ReqRow /\ row.pc = "write" /\ row.list = req[r].list
      /\ row.id = req[r].id /\ row.to = req[r].to /\ row.pos = req[r].pos
      /\ row.reward = req[r].reward /\ row.item = req[r].item
      /\ row.rows = rows
  BY <1>3, <1>4 DEF ReqRow
<1> HIDE DEF row
<1>8. StageOK(row) /\ Apart(row)
  BY <1>1, <1>7 DEF StageOK, Shifting, Apart, At
<1>9. /\ disturbed' = disturbed /\ contested' = contested
      /\ disturbed \subseteq Lists /\ contested \subseteq Items
  BY DEF ShiftRows, IInv, TypeOK
<1>10. row.list \notin disturbed /\ HasList(row.list) =>
         /\ \A q \in Reqs \ {r} : req[q].list # row.list
         /\ all \subseteq row.rows
  BY <1>6, <1>7 DEF IInv, RequestOK, ClearedOK
<1>11. AtOrAfter(row.list, row.pos, row.id) = all
  BY <1>7
<1> HIDE DEF all
<1> QED
  BY <1>2, <1>5, <1>7, <1>8, <1>9, <1>10, <1>11, LocalStep

\* A reward is asked for, or that one is for another item.
LEMMA StartRewardStep ==
  ASSUME IInv, NEW r \in Reqs, NEW w \in Rewards \cup {None}, NEW item \in Items,
         StartReward(r, w, item)
  PROVE  IInv'
<1> DEFINE one  == [Idle EXCEPT !.pc = "reward", !.reward = w]
           row  == [one EXCEPT !.item = item]
<1>1. req[r] = Idle
  BY StageOf DEF StartReward
<1>2. req' = [req EXCEPT ![r] = row] /\ UNCHANGED <<place, reward, disturbed>>
  BY <1>1, IdleType DEF StartReward, IInv, TypeOK, ReqRow
<1>3. /\ one \in ReqRow /\ one.pc = "reward" /\ one.reward = w
      /\ one.id = None /\ one.to = None /\ one.list = None /\ one.rows = {}
  BY IdleType DEF ReqRow
<1> HIDE DEF one
<1>4. /\ row \in ReqRow /\ row.pc = "reward" /\ row.reward = w
      /\ row.item = item
      /\ row.id = None /\ row.to = None /\ row.list = None /\ row.rows = {}
  BY <1>3 DEF ReqRow
<1> HIDE DEF row
<1>5. StageOK(row) /\ Apart(row)
  BY <1>4 DEF StageOK, Rewarding, Apart
<1>6. /\ contested' = IF \E q \in Reqs : req[q].item = item
                      THEN contested \cup {item} ELSE contested
      /\ disturbed \subseteq Lists /\ contested \subseteq Items
  BY DEF StartReward, IInv, TypeOK
<1>7. item \notin contested' => \A q \in Reqs : req[q].item # item
  BY <1>6
<1>8. \A v \in Rewards : reward[v] = item => v = w
  BY DEF StartReward, TakenByOther
<1>9. contested \subseteq contested' /\ contested' \subseteq Items
  BY <1>6
<1> QED
  BY <1>2, <1>4, <1>5, <1>6, <1>7, <1>8, <1>9, NullApart, LocalStep

-----------------------------------------------------------------------------
(* Transactions that commit. *)

\* The rows another one has changed, as a transaction sees them.
LEMMA RowsOf ==
  ASSUME IInv, NEW r \in Reqs, At(r, "write")
  PROVE  /\ req[r].rows \subseteq Entries
         /\ \A e \in req[r].rows : /\ place[e] \in Place /\ e # req[r].id
                                   /\ place[e].list = req[r].list
                                   /\ place[e].pos >= req[r].pos
                                   /\ place[e].pos + 1 \in Positions
<1>1. req[r].rows \subseteq Entries
  BY StageOf DEF ReqRow
<1>2. \A e \in req[r].rows : /\ place[e] \in Place /\ e # req[r].id
                             /\ place[e].list = req[r].list
                             /\ place[e].pos >= req[r].pos
                             /\ place[e].pos < MaxPosition
  <2>1. LockedOK(r)
    BY DEF IInv, RequestOK
  <2> QED
    BY <1>1, <2>1 DEF LockedOK, Exists, IInv, TypeOK
<1>3. \A p \in Positions : p < MaxPosition => p + 1 \in Positions
  BY CatalogueAssumption DEF Positions
<1> QED
  BY <1>1, <1>2, <1>3 DEF Place

\* What the order is with the rows of a transaction shifted.
LEMMA ShiftedIs ==
  ASSUME IInv, NEW r \in Reqs, At(r, "write")
  PROVE  /\ Shifted(r) \in [Entries -> Place \cup {None}]
         /\ \A e \in Entries \ req[r].rows : Shifted(r)[e] = place[e]
         /\ \A e \in req[r].rows : /\ Shifted(r)[e] \in Place
                                   /\ Shifted(r)[e].list = place[e].list
                                   /\ Shifted(r)[e].pos = place[e].pos + 1
<1>1. \A e \in Entries : Shifted(r)[e] = IF e \in req[r].rows
                           THEN [place[e] EXCEPT !.pos = @ + 1] ELSE place[e]
  BY DEF Shifted
<1>2. ASSUME NEW e \in req[r].rows
      PROVE  /\ Shifted(r)[e] \in Place
             /\ Shifted(r)[e].list = place[e].list
             /\ Shifted(r)[e].pos = place[e].pos + 1
  <2>1. place[e] \in Place /\ place[e].pos + 1 \in Positions /\ e \in Entries
    BY RowsOf
  <2> QED
    BY <1>1, <2>1 DEF Place
<1>3. req[r].rows \subseteq Entries
  BY RowsOf
<1>4. place \in [Entries -> Place \cup {None}]
  BY DEF IInv, TypeOK
<1>5. \A e \in Entries : Shifted(r)[e] \in Place \cup {None}
  BY <1>1, <1>2, <1>4
<1>6. DOMAIN Shifted(r) = Entries
  BY DEF Shifted
<1> QED
  BY <1>1, <1>2, <1>3, <1>5, <1>6 DEF Shifted

\* The row of a category or an item is written, with those that were shifted
\* for it: at the place that was cleared, or where the order may be spoiled.
LEMMA WriteStep ==
  ASSUME IInv, NEW r \in Reqs, At(r, "write"),
         NEW e \in Entries, NEW new \in Place,
         place' = [Shifted(r) EXCEPT ![e] = new],
         req' = [req EXCEPT ![r] = Idle],
         UNCHANGED <<reward, contested>>,
         disturbed \subseteq disturbed', disturbed' \subseteq Lists,
         e \notin Locked(r), e \notin req[r].rows, req[r].id \in {None, e},
         Exists(e) \/ Unused(e), HasList(new.list),
         e \in Categories => new.list = Menu,
         e \in Items => new.list \in Categories,
         new = place[e] \/ new.list \in disturbed' \/ new.list = req[r].list,
         req[r].list # None => new.pos = req[r].pos
  PROVE  IInv'
<1> DEFINE rows == req[r].rows
<1>1. /\ req' \in [Reqs -> ReqRow] /\ req'[r] = Idle
      /\ \A q \in Reqs \ {r} : req'[q] = req[q]
  BY IdleType DEF IInv, TypeOK
<1>2. /\ place' \in [Entries -> Place \cup {None}] /\ place'[e] = new
      /\ \A f \in Entries \ (rows \cup {e}) : place'[f] = place[f]
      /\ \A f \in rows : /\ place'[f] \in Place
                         /\ place'[f].list = place[f].list
                         /\ place'[f].pos = place[f].pos + 1
  BY ShiftedIs, RowsOf
<1>3. /\ place \in [Entries -> Place \cup {None}] /\ new # None
      /\ rows \subseteq Entries
      /\ \A f \in rows : /\ place[f] \in Place /\ place[f].list = req[r].list
                         /\ place[f].pos >= req[r].pos
  BY RowsOf, NullApart DEF IInv, TypeOK
<1>4. \A f \in Entries : Exists(f)' <=> Exists(f) \/ f = e
  BY <1>2, <1>3, NullApart DEF Exists
<1>5. \A l : HasList(l) => HasList(l)'
  BY <1>4 DEF HasList, Entries
<1>6. \A f \in Entries \ {e} : Exists(f) => place'[f].list = place[f].list
  BY <1>2
<1>7. rows # {} => req[r].list # None /\ Shifting(req[r])
  BY StageOf, NullApart DEF Keeping, Shifting
<1>8. TypeOK'
  <2>1. \A c \in Categories : Exists(c)' => place'[c].list = Menu
    BY <1>2, <1>4, <1>6 DEF IInv, TypeOK, Entries
  <2>2. ASSUME NEW f \in Items, place'[f] # None
        PROVE  place'[f].list \in Categories /\ place'[place'[f].list] # None
    <3>1. place'[f].list \in Categories /\ HasList(place'[f].list)
      <4>1. CASE f = e
        BY <1>2, <2>2, <4>1
      <4>2. CASE f # e
        <5>1. f \in Entries /\ Exists(f) /\ place'[f].list = place[f].list
          BY <1>4, <1>6, <2>2, <4>2 DEF Exists, Entries
        <5> QED
          BY <2>2, <5>1 DEF IInv, TypeOK, HasList
      <4> QED
        BY <4>1, <4>2
    <3> DEFINE c == place'[f].list
    <3>2. c \in Categories /\ c # Menu /\ HasList(c)
      BY <3>1, CatalogueAssumption DEF Entries
    <3> HIDE DEF c
    <3>3. c \in Entries /\ Exists(c)
      BY <3>2 DEF HasList, Entries
    <3>4. place'[c] # None
      BY <1>4, <3>3 DEF Exists
    <3> QED
      BY <3>1, <3>4 DEF c
  <2>3. \A w \in Rewards : reward[w] # None =>
          reward[w] \in Entries /\ place'[reward[w]] # None
    BY <1>4 DEF IInv, TypeOK, Entries, Exists
  <2> QED
    BY <1>1, <1>2, <2>1, <2>2, <2>3 DEF IInv, TypeOK, Exists
<1>9. ASSUME NEW f \in Entries, NEW g \in Entries, f # g, Exists(f)',
             place'[f] = place'[g], place'[f].list \notin disturbed', g # e
      PROVE  FALSE
  <2> DEFINE l == place'[f].list
  <2>1. l \notin disturbed /\ Exists(g) /\ place[g].list = l /\ place[g] \in Place
    BY <1>2, <1>3, <1>4, <1>6, <1>9 DEF Exists
  <2>2. HasList(l)
    <3>1. CASE g \in Categories
      BY <2>1, <3>1 DEF HasList, IInv, TypeOK
    <3>2. CASE g \in Items
      BY <2>1, <3>2 DEF HasList, IInv, TypeOK
    <3> QED
      BY <3>1, <3>2 DEF Entries
  <2>3. l = req[r].list =>
          \A h \in Entries \ {e} : /\ Exists(h) /\ place[h].list = l
                                   /\ place[h].pos >= req[r].pos
                                   => h \in rows
    <3>1. l = req[r].list =>
            AtOrAfter(req[r].list, req[r].pos, req[r].id) \subseteq rows
      BY <2>1, <2>2 DEF IInv, RequestOK, ClearedOK, At
    <3>2. req[r].id \notin Entries \ {e}
      BY NullApart
    <3> QED
      BY <3>1, <3>2, Standing
  <2>4. ASSUME NEW x \in Entries, NEW y \in Entries, Exists(x),
               x # y, place[x] = place[y], place[x].list = l
        PROVE  FALSE
    BY <2>1, <2>4 DEF IInv, PositionsDistinct
  <2>5. place[g].pos \in Nat /\ (rows # {} => req[r].pos \in Nat)
    BY <1>7, <2>1 DEF Place, Positions, Shifting
  <2>6. CASE f = e
    <3>1. place'[g] = new /\ new.list = l
      BY <1>2, <1>9, <2>6
    <3>2. CASE g \in rows
      <4>1. new.pos = place[g].pos + 1 /\ place[g].pos >= req[r].pos
        BY <1>2, <1>3, <3>1, <3>2
      <4>2. new.pos = req[r].pos
        BY <1>7, <3>2
      <4> QED
        BY <1>7, <2>5, <3>2, <4>1, <4>2
    <3>3. CASE g \notin rows
      <4>1. place[g] = new
        BY <1>2, <1>9, <3>1, <3>3
      <4>2. new # place[e]
        BY <1>9, <2>1, <2>4, <2>6, <4>1
      <4>3. new.list = req[r].list /\ l = req[r].list
        BY <1>9, <3>1, <4>2
      <4>4. new.pos = req[r].pos
        BY <1>3, <4>3, NullApart
      <4>5. place[g].pos >= req[r].pos
        BY <2>5, <4>1, <4>4
      <4> QED
        BY <1>9, <2>1, <2>3, <3>3, <4>3, <4>5
    <3> QED
      BY <3>2, <3>3
  <2>7. CASE f # e
    <3>1. /\ Exists(f) /\ place[f].list = l /\ place[f] \in Place
          /\ place[f].pos \in Nat
      BY <1>2, <1>3, <1>4, <1>6, <1>9, <2>7 DEF Exists, Place, Positions
    <3>2. \A x, y \in Entries \ {e} :
            x \in rows /\ y \notin rows /\ place'[x] = place'[y]
            /\ place[x].pos \in Nat /\ place[x].list = l
            /\ Exists(y) /\ place[y].list = l => FALSE
      <4> SUFFICES ASSUME NEW x \in rows, NEW y \in Entries \ ({e} \cup rows),
                          place'[x] = place'[y], place[x].pos \in Nat,
                          place[x].list = l, Exists(y), place[y].list = l
                   PROVE  FALSE
        OBVIOUS
      <4>1. l = req[r].list /\ place[y].pos = place[x].pos + 1
        BY <1>2, <1>3
      <4>2. place[x].pos >= req[r].pos /\ req[r].pos \in Nat
        BY <1>3, <2>5
      <4>3. place[y].pos >= req[r].pos
        BY <4>1, <4>2
      <4> QED
        BY <2>3, <4>1, <4>3
    <3>3. CASE f \in rows /\ g \in rows
      <4>1. place[f].pos + 1 = place[g].pos + 1
        BY <1>2, <1>9, <3>3
      <4>2. place[f] = place[g]
        BY <2>1, <2>5, <3>1, <4>1 DEF Place
      <4> QED
        BY <1>9, <2>4, <3>1, <4>2
    <3>4. CASE f \notin rows /\ g \notin rows
      <4>1. place[f] = place[g]
        BY <1>2, <1>9, <2>7, <3>4
      <4> QED
        BY <1>9, <2>4, <3>1, <4>1
    <3> QED
      BY <1>9, <2>1, <2>5, <2>7, <3>1, <3>2, <3>3, <3>4
  <2> QED
    BY <2>6, <2>7
<1>10. PositionsDistinct'
  <2> SUFFICES ASSUME NEW f \in Entries, NEW g \in Entries, f # g, Exists(f)',
                      place'[f] = place'[g], place'[f].list \notin disturbed'
               PROVE  FALSE
    BY DEF PositionsDistinct
  <2>1. CASE g # e
    BY <1>9, <2>1
  <2>2. CASE g = e
    <3>1. Exists(g)' /\ place'[g].list \notin disturbed' /\ f # e
      BY <2>2 DEF Exists
    <3> QED
      BY <1>9, <3>1
  <2> QED
    BY <2>1, <2>2
<1>11. OneRewardPerItem'
  <2>1. OneRewardPerItem
    BY DEF IInv
  <2> QED
    BY <2>1 DEF OneRewardPerItem
<1>12. ASSUME NEW q \in Reqs PROVE RequestOK(q)'
  <2>1. CASE q = r
    <3>1. req'[q] = Idle
      BY <1>1, <2>1
    <3> QED
      BY <3>1, IdleType, NullApart DEF RequestOK, StageOK, Apart, LockedOK,
                                       ClearedOK, OnlyOK, At, HasList
  <2>2. CASE q # r
    <3>1. req'[q] = req[q] /\ RequestOK(q)
      BY <1>1, <2>2 DEF IInv
    <3>2. StageOK(req[q])' /\ Apart(req[q])'
      BY <3>1 DEF RequestOK, StageOK, Shifting, Keeping, Rewarding, Apart
    <3>3. LockedOK(q)'
      <4> SUFFICES ASSUME At(q, "write")
                   PROVE  /\ \A f \in req[q].rows :
                               /\ place'[f] # None /\ f # req[q].id
                               /\ place'[f].list = req[q].list
                               /\ place'[f].pos >= req[q].pos
                               /\ place'[f].pos < MaxPosition
                          /\ \A x \in Reqs \ {q} : At(x, "write")' =>
                               req'[x].rows \cap req[q].rows = {}
        BY <3>1 DEF LockedOK, At, Exists
      <4>1. LockedOK(q)
        BY <3>1 DEF RequestOK
      <4>2. ASSUME NEW f \in req[q].rows
            PROVE  f \in Entries \ (rows \cup {e})
        BY <2>2, <4>1, <4>2, LockedBy, RowsOf DEF LockedOK
      <4>3. \A f \in req[q].rows : place'[f] = place[f]
        BY <1>2, <4>2
      <4>4. \A x \in Reqs : req'[x].rows \subseteq req[x].rows
        BY <1>1, IdleType
      <4>5. \A x \in Reqs : At(x, "write")' => At(x, "write")
        BY <1>1, IdleType DEF At
      <4> QED
        BY <4>1, <4>3, <4>4, <4>5 DEF LockedOK, Exists
    <3>4. ClearedOK(q)'
      <4> DEFINE l == req[q].list
      <4> SUFFICES ASSUME l \notin disturbed', HasList(l)'
                   PROVE  /\ \A x \in Reqs : req'[x].list = l => x = q
                          /\ \A f \in Entries :
                               /\ req[q].pc \in {"shift", "write"}
                               /\ f # req[q].id /\ place'[f] # None
                               /\ place'[f].list = l
                               /\ place'[f].pos >= req[q].pos
                               => f \in req[q].rows
        BY <3>1 DEF ClearedOK, AtOrAfter, Exists
      <4>1. HasList(l) /\ l \notin disturbed
        <5>1. l # e \/ Exists(e)
          BY DEF Unused
        <5>2. l = Menu \/ (l \in Categories /\ place'[l] # None)
          BY <3>1 DEF HasList, Exists
        <5> HIDE DEF l
        <5>3. l \in Categories /\ place'[l] # None => place[l] # None
          BY <1>4, <5>1 DEF Exists, Entries
        <5> QED
          BY <5>2, <5>3 DEF HasList, Exists
      <4>2. /\ \A x \in Reqs : req[x].list = l => x = q
            /\ req[q].pc \in {"shift", "write"} =>
                 AtOrAfter(l, req[q].pos, req[q].id) \subseteq req[q].rows
        BY <3>1, <4>1 DEF RequestOK, ClearedOK
      <4>3. req[r].list # l /\ l # None
        BY <2>2, <4>1, <4>2, NullApart
      <4>4. \A x \in Reqs : req'[x].list = l => x = q
        BY <1>1, <4>2, <4>3, IdleType
      <4>5. ASSUME NEW f \in Entries, place'[f] # None, place'[f].list = l
            PROVE  Exists(f) /\ place'[f] = place[f]
        <5>1. CASE f = e
          <6>1. new = place[e]
            BY <1>2, <4>3, <4>5, <5>1
          <6> QED
            BY <1>2, <1>3, <5>1, <6>1 DEF Exists
        <5>2. CASE f # e
          <6>1. Exists(f) /\ place[f].list = l
            BY <1>4, <1>6, <4>5, <5>2 DEF Exists
          <6>2. f \notin rows
            BY <1>3, <4>3, <6>1
          <6> QED
            BY <1>2, <5>2, <6>1, <6>2
        <5> QED
          BY <5>1, <5>2
      <4> QED
        BY <4>2, <4>4, <4>5, Standing
    <3>5. OnlyOK(q)'
      <4> DEFINE item == req[q].item
      <4> SUFFICES ASSUME At(q, "reward"), item \notin contested,
                          place'[item] # None
                   PROVE  /\ \A x \in Reqs : req'[x].item = item => x = q
                          /\ \A v \in Rewards :
                               reward[v] = item => v = req[q].reward
        BY <3>1 DEF OnlyOK, At, Exists
      <4>1. item \in Entries /\ item # None
        BY StageOf, NullApart DEF Rewarding, Entries
      <4>2. item # e \/ Exists(e)
        BY DEF Unused
      <4>3. Exists(item)
        BY <1>4, <4>1, <4>2 DEF Exists
      <4>4. /\ \A x \in Reqs : req[x].item = item => x = q
            /\ \A v \in Rewards : reward[v] = item => v = req[q].reward
        BY <3>1, <4>3 DEF RequestOK, OnlyOK
      <4> QED
        BY <1>1, <4>1, <4>4, IdleType
    <3> QED
      BY <3>2, <3>3, <3>4, <3>5 DEF RequestOK
  <2> QED
    BY <2>1, <2>2
<1> QED
  BY <1>8, <1>10, <1>11, <1>12 DEF IInv

\* A new category or item.
LEMMA WriteNewStep ==
  ASSUME IInv, NEW r \in Reqs, WriteNew(r)
  PROVE  IInv'
<1>1. At(r, "write") /\ req[r].id = None /\ Shifting(req[r])
  BY StageOf DEF WriteNew, Keeping
<1>2. CASE Throw(r)
  BY <1>2, ThrowStep
<1>3. CASE ~Throw(r)
  <2> DEFINE new == [list |-> req[r].to, pos |-> req[r].pos]
  <2>1. PICK e \in IF req[r].to = Menu THEN Categories ELSE Items :
          /\ Unused(e)
          /\ place' = [Shifted(r) EXCEPT ![e] = new]
          /\ HasList(req[r].to)
          /\ req' = [req EXCEPT ![r] = Idle]
          /\ UNCHANGED <<reward, disturbed, contested>>
    BY <1>3 DEF WriteNew, Done
  <2>2. /\ req[r].to = req[r].list /\ req[r].to \in Lists
        /\ req[r].pos \in Positions
    BY <1>1 DEF Shifting
  <2>3. new \in Place /\ new.list = req[r].list /\ new.pos = req[r].pos
    BY <2>2 DEF Place
  <2> HIDE DEF new
  <2>4. e \in Entries /\ e \notin Locked(r) /\ e \notin req[r].rows
    BY <2>1, LockedBy DEF Unused, Entries
  <2>5. /\ e \in Categories => new.list = Menu
        /\ e \in Items => new.list \in Categories
    BY <2>1, <2>2, <2>3, CatalogueAssumption DEF Lists
  <2>6. disturbed \subseteq disturbed' /\ disturbed' \subseteq Lists
    BY <2>1 DEF IInv, TypeOK
  <2>7. HasList(new.list)
    BY <2>1, <2>2, <2>3
  <2>8. UNCHANGED <<reward, contested>>
    BY <2>1
  <2> QED
    BY <1>1, <2>1, <2>3, <2>4, <2>5, <2>6, <2>7, <2>8, WriteStep
<1> QED
  BY <1>2, <1>3

\* A category or an item with another place, or the one it had.
LEMMA WriteOldStep ==
  ASSUME IInv, NEW r \in Reqs, WriteOld(r)
  PROVE  IInv'
<1> DEFINE e   == req[r].id
           to  == req[r].to
           new == [list |-> IF to = None THEN place[e].list ELSE to,
                   pos |-> IF req[r].pos = None THEN place[e].pos
                           ELSE req[r].pos]
<1>1. /\ At(r, "write") /\ e # None /\ e \notin Locked(r)
      /\ Shifting(req[r]) \/ Keeping(req[r])
      /\ req[r] \in ReqRow
  BY StageOf DEF WriteOld
<1>2. CASE Throw(r)
  BY <1>2, ThrowStep
<1>3. CASE ~Throw(r)
  <2>1. /\ Exists(e) /\ (to = None \/ HasList(to))
        /\ place' = [Shifted(r) EXCEPT ![e] = new]
        /\ disturbed' = IF new = place[e] \/ new.list = req[r].list
                        THEN disturbed ELSE disturbed \cup {new.list}
        /\ req' = [req EXCEPT ![r] = Idle]
        /\ UNCHANGED <<reward, contested>>
    BY <1>3 DEF WriteOld, Done
  <2>2. e \in Entries /\ place[e] \in Place /\ e \notin req[r].rows
    BY <1>1, <2>1, RowsOf DEF ReqRow, Exists, IInv, TypeOK
  <2>3. new \in Place
    BY <1>1, <2>2 DEF Place, ReqRow
  <2>4. HasList(new.list)
    <3>1. CASE to = None
      BY <2>1, <2>2, <3>1 DEF HasList, IInv, TypeOK, Entries
    <3>2. CASE to # None
      BY <2>1, <3>2
    <3> QED
      BY <3>1, <3>2
  <2>5. /\ e \in Categories => new.list = Menu
        /\ e \in Items => new.list \in Categories
    <3>1. CASE to = None
      BY <2>1, <3>1 DEF IInv, TypeOK
    <3>2. CASE to # None
      BY <1>1, <2>3, <3>2 DEF Shifting, Keeping, Place, Lists
    <3> QED
      BY <3>1, <3>2
  <2>6. req[r].list # None => new.pos = req[r].pos
    BY <1>1, NullApart DEF Shifting, Keeping
  <2> HIDE DEF new
  <2>7. new.list \in Lists
    BY <2>3 DEF Place
  <2>8. /\ disturbed \subseteq disturbed' /\ disturbed' \subseteq Lists
        /\ new = place[e] \/ new.list \in disturbed' \/ new.list = req[r].list
    BY <2>1, <2>7 DEF IInv, TypeOK
  <2> HIDE DEF e
  <2>9. req[r].id \in {None, e}
    BY DEF e
  <2> QED
    BY <1>1, <2>1, <2>2, <2>3, <2>4, <2>5, <2>6, <2>8, <2>9, WriteStep
<1> QED
  BY <1>2, <1>3

\* A category without items goes, or an item with its rewards.
LEMMA RemoveStep ==
  ASSUME IInv, NEW e \in Entries, e \notin Locked(None),
         \A f \in Items : Exists(f) => place[f].list # e,
         place' = [place EXCEPT ![e] = None],
         reward' = [w \in Rewards |-> IF reward[w] = e THEN None ELSE reward[w]],
         disturbed' = disturbed \ {e}, contested' = contested \ {e},
         UNCHANGED req
  PROVE  IInv'
<1>1. /\ place' \in [Entries -> Place \cup {None}] /\ place'[e] = None
      /\ \A f \in Entries \ {e} : place'[f] = place[f]
      /\ \A f \in Entries : place'[f] # None =>
           f # e /\ Exists(f) /\ place'[f] = place[f]
  BY DEF IInv, TypeOK, Exists
<1>2. /\ reward' \in [Rewards -> Items \cup {None}]
      /\ \A w \in Rewards : reward'[w] # None =>
           reward'[w] = reward[w] /\ reward[w] # e
  BY DEF IInv, TypeOK
<1>3. TypeOK'
  <2>1. ASSUME NEW f \in Items, place'[f] # None
        PROVE  place'[f].list \in Categories /\ place'[place'[f].list] # None
    <3>1. /\ Exists(f) /\ place'[f] = place[f] /\ place[f].list # e
          /\ place[f].list \in Categories /\ Exists(place[f].list)
      BY <1>1, <2>1 DEF IInv, TypeOK, Entries
    <3> QED
      BY <1>1, <3>1 DEF Exists, Entries
  <2>2. \A c \in Categories : place'[c] # None => place'[c].list = Menu
    BY <1>1 DEF IInv, TypeOK, Entries
  <2>3. \A w \in Rewards : reward'[w] # None => place'[reward'[w]] # None
    <3> SUFFICES ASSUME NEW w \in Rewards, reward'[w] # None
                 PROVE  place'[reward[w]] # None
      BY <1>2
    <3>1. /\ reward[w] # e /\ reward[w] \in Items /\ Exists(reward[w])
      BY <1>2 DEF IInv, TypeOK
    <3> QED
      BY <1>1, <3>1 DEF Exists, Entries
  <2>4. disturbed' \subseteq Lists /\ contested' \subseteq Items
    BY DEF IInv, TypeOK
  <2>5. req' \in [Reqs -> ReqRow]
    BY DEF IInv, TypeOK
  <2> QED
    BY <1>1, <1>2, <2>1, <2>2, <2>3, <2>4, <2>5 DEF TypeOK, Exists
<1>4. PositionsDistinct'
  <2> SUFFICES ASSUME NEW f \in Entries, NEW g \in Entries, f # g,
                      place'[f] # None, place'[f] = place'[g],
                      place'[f].list \notin disturbed'
               PROVE  FALSE
    BY DEF PositionsDistinct, Exists
  <2>1. /\ Exists(f) /\ place[f] = place[g] /\ f \in Entries
        /\ place[f].list \notin disturbed \/ place[f].list = e
    BY <1>1
  <2>2. place[f].list # e
    <3>1. CASE f \in Items
      BY <2>1, <3>1
    <3>2. CASE f \in Categories
      BY <2>1, <3>2, CatalogueAssumption DEF IInv, TypeOK
    <3> QED
      BY <3>1, <3>2 DEF Entries
  <2> QED
    BY <2>1, <2>2 DEF IInv, PositionsDistinct
<1>5. OneRewardPerItem'
  <2> SUFFICES ASSUME NEW v \in Rewards, NEW w \in Rewards, v # w,
                      reward'[v] # None, reward'[v] = reward'[w],
                      reward'[v] \notin contested'
               PROVE  FALSE
    BY DEF OneRewardPerItem
  <2>1. /\ reward[v] # None /\ reward[v] = reward[w]
        /\ reward[v] \notin contested
    BY <1>2
  <2> QED
    BY <2>1 DEF IInv, OneRewardPerItem
<1>6. ASSUME NEW q \in Reqs PROVE RequestOK(q)'
  <2>1. RequestOK(q)
    BY DEF IInv
  <2>2. StageOK(req[q])' /\ Apart(req[q])'
    BY <2>1 DEF RequestOK, StageOK, Shifting, Keeping, Rewarding, Apart
  <2>3. LockedOK(q)'
    <3> SUFFICES ASSUME At(q, "write")
                 PROVE  /\ \A f \in req[q].rows :
                             /\ place'[f] # None /\ f # req[q].id
                             /\ place'[f].list = req[q].list
                             /\ place'[f].pos >= req[q].pos
                             /\ place'[f].pos < MaxPosition
                        /\ \A x \in Reqs \ {q} : At(x, "write") =>
                             req[x].rows \cap req[q].rows = {}
      BY DEF LockedOK, At, Exists
    <3>1. LockedOK(q) /\ q \in Reqs \ {None}
      BY <2>1, CatalogueAssumption DEF RequestOK
    <3>2. \A f \in req[q].rows : f \in Entries /\ f # e
      BY <3>1, LockedBy, RowsOf
    <3>3. \A f \in req[q].rows : place'[f] = place[f]
      BY <1>1, <3>2
    <3> QED
      BY <3>1, <3>3 DEF LockedOK, Exists
  <2>4. ClearedOK(q)'
    <3> DEFINE l == req[q].list
    <3> SUFFICES ASSUME l \notin disturbed',
                        l = Menu \/ (l \in Categories /\ place'[l] # None)
                 PROVE  /\ \A x \in Reqs : req[x].list = l => x = q
                        /\ \A f \in Entries :
                             /\ req[q].pc \in {"shift", "write"}
                             /\ f # req[q].id /\ place'[f] # None
                             /\ place'[f].list = l
                             /\ place'[f].pos >= req[q].pos
                             => f \in req[q].rows
      BY DEF ClearedOK, AtOrAfter, Exists, HasList
    <3>1. HasList(l) /\ l \notin disturbed
      BY <1>1, CatalogueAssumption DEF HasList, Entries, Exists
    <3>2. /\ \A x \in Reqs : req[x].list = l => x = q
          /\ req[q].pc \in {"shift", "write"} =>
               AtOrAfter(l, req[q].pos, req[q].id) \subseteq req[q].rows
      BY <2>1, <3>1 DEF RequestOK, ClearedOK
    <3> QED
      BY <1>1, <3>2, Standing
  <2>5. OnlyOK(q)'
    <3> DEFINE item == req[q].item
    <3> SUFFICES ASSUME At(q, "reward"), item \notin contested',
                        place'[item] # None
                 PROVE  /\ \A x \in Reqs : req[x].item = item => x = q
                        /\ \A v \in Rewards :
                             reward'[v] = item => v = req[q].reward
      BY DEF OnlyOK, At, Exists
    <3>1. item \in Entries /\ item # None
      BY StageOf, NullApart DEF Rewarding, Entries
    <3>2. Exists(item) /\ item \notin contested
      BY <1>1, <3>1
    <3>3. /\ \A x \in Reqs : req[x].item = item => x = q
          /\ \A v \in Rewards : reward[v] = item => v = req[q].reward
      BY <2>1, <3>2 DEF RequestOK, OnlyOK
    <3> QED
      BY <1>2, <3>1, <3>3
  <2> QED
    BY <2>2, <2>3, <2>4, <2>5 DEF RequestOK
<1> QED
  BY <1>3, <1>4, <1>5, <1>6 DEF IInv

\* What is removed: a category,
LEMMA RemoveCategoryStep ==
  ASSUME IInv, NEW c \in Categories, RemoveCategory(c)
  PROVE  IInv'
<1>1. /\ c \in Entries /\ c \notin Items /\ c # None
      /\ c \notin Locked(None) /\ place' = [place EXCEPT ![c] = None]
      /\ \A f \in Items : Exists(f) => place[f].list # c
      /\ disturbed' = disturbed \ {c} /\ UNCHANGED <<reward, req, contested>>
  BY NullApart, CatalogueAssumption DEF RemoveCategory, Entries
<1>2. /\ contested' = contested \ {c}
      /\ reward' = [w \in Rewards |-> IF reward[w] = c THEN None ELSE reward[w]]
  BY <1>1 DEF IInv, TypeOK
<1> QED
  BY <1>1, <1>2, RemoveStep

\* or an item.
LEMMA RemoveItemStep ==
  ASSUME IInv, NEW e \in Items, RemoveItem(e)
  PROVE  IInv'
<1>1. /\ e \in Entries /\ e \notin Lists
      /\ e \notin Locked(None) /\ place' = [place EXCEPT ![e] = None]
      /\ reward' = [w \in Rewards |-> IF reward[w] = e THEN None ELSE reward[w]]
      /\ contested' = contested \ {e} /\ UNCHANGED <<req, disturbed>>
  BY CatalogueAssumption DEF RemoveItem, Entries, Lists
<1>2. disturbed' = disturbed \ {e}
  BY <1>1 DEF IInv, TypeOK
<1>3. \A f \in Items : Exists(f) => place[f].list # e
  BY <1>1 DEF IInv, TypeOK, Lists
<1> QED
  BY <1>1, <1>2, <1>3, RemoveStep

-----------------------------------------------------------------------------
(* Rewards. *)

\* A reward that is written, or removed: the places stay.
LEMMA RewardStep ==
  ASSUME IInv, NEW w \in Rewards, NEW item \in Items \cup {None},
         reward' = [reward EXCEPT ![w] = item],
         req' \in [Reqs -> ReqRow],
         UNCHANGED <<place, disturbed, contested>>,
         item # None => Exists(item),
         \A q \in Reqs : req'[q] = req[q] \/ req'[q] = Idle,
         item # None /\ item \notin contested =>
           /\ \A v \in Rewards : reward[v] = item => v = w
           /\ \A q \in Reqs : req'[q].item # item
  PROVE  IInv'
<1>1. /\ reward' \in [Rewards -> Items \cup {None}] /\ reward'[w] = item
      /\ \A v \in Rewards \ {w} : reward'[v] = reward[v]
  BY DEF IInv, TypeOK
<1>2. \A e : Exists(e)' <=> Exists(e)
  BY DEF Exists
<1>3. TypeOK'
  <2>1. \A v \in Rewards : reward'[v] # None => place[reward'[v]] # None
    BY <1>1 DEF IInv, TypeOK, Exists
  <2> QED
    BY <1>1, <2>1 DEF IInv, TypeOK, Exists
<1>4. PositionsDistinct'
  BY DEF IInv, PositionsDistinct, Exists
<1>5. OneRewardPerItem'
  <2> SUFFICES ASSUME NEW u \in Rewards, NEW v \in Rewards, u # v,
                      reward'[u] # None, reward'[u] = reward'[v],
                      reward'[u] \notin contested
               PROVE  FALSE
    BY DEF OneRewardPerItem
  <2>1. CASE u # w /\ v # w
    BY <1>1, <2>1 DEF IInv, OneRewardPerItem
  <2>2. CASE u = w \/ v = w
    BY <1>1, <2>2
  <2> QED
    BY <2>1, <2>2
<1>6. ASSUME NEW q \in Reqs PROVE RequestOK(q)'
  <2>1. RequestOK(q)
    BY DEF IInv
  <2>2. CASE req'[q] = Idle
    BY <2>2, IdleType, NullApart DEF RequestOK, StageOK, Apart, LockedOK,
                                     ClearedOK, OnlyOK, At, HasList
  <2>3. CASE req'[q] # Idle
    <3>1. req'[q] = req[q]
      BY <2>3
    <3>2. StageOK(req[q])' /\ Apart(req[q])'
      BY <2>1, <3>1 DEF RequestOK, StageOK, Shifting, Keeping, Rewarding,
                        Apart
    <3>3. LockedOK(q)'
      <4>1. LockedOK(q)
        BY <2>1 DEF RequestOK
      <4>2. \A x \in Reqs : /\ req'[x].rows \subseteq req[x].rows
                            /\ At(x, "write")' => At(x, "write")
        BY IdleType DEF At
      <4> QED
        BY <3>1, <4>1, <4>2 DEF LockedOK, At, Exists
    <3>4. ClearedOK(q)'
      <4> SUFFICES ASSUME req[q].list \notin disturbed, HasList(req[q].list)
                   PROVE  /\ \A x \in Reqs :
                               req'[x].list = req[q].list => x = q
                          /\ req[q].pc \in {"shift", "write"} =>
                               AtOrAfter(req[q].list, req[q].pos, req[q].id)
                                 \subseteq req[q].rows
        BY <3>1 DEF ClearedOK, AtOrAfter, Exists, HasList
      <4>1. /\ \A x \in Reqs : req[x].list = req[q].list => x = q
            /\ req[q].pc \in {"shift", "write"} =>
                 AtOrAfter(req[q].list, req[q].pos, req[q].id)
                   \subseteq req[q].rows
        BY <2>1 DEF RequestOK, ClearedOK
      <4> QED
        BY <4>1, IdleType, NullApart
    <3>5. OnlyOK(q)'
      <4> SUFFICES ASSUME At(q, "reward"), req[q].item \notin contested,
                          Exists(req[q].item)
                   PROVE  /\ \A x \in Reqs :
                               req'[x].item = req[q].item => x = q
                          /\ \A v \in Rewards : reward'[v] = req[q].item =>
                                                  v = req[q].reward
        BY <3>1 DEF OnlyOK, At, Exists
      <4>1. /\ \A x \in Reqs : req[x].item = req[q].item => x = q
            /\ \A v \in Rewards : reward[v] = req[q].item =>
                                    v = req[q].reward
        BY <2>1 DEF RequestOK, OnlyOK
      <4>2. req[q].item # None
        BY StageOf, NullApart DEF Rewarding
      <4>3. req[q].item # item
        BY <3>1, <4>2
      <4> QED
        BY <1>1, <4>1, <4>2, <4>3, IdleType
    <3> QED
      BY <3>2, <3>3, <3>4, <3>5 DEF RequestOK
  <2> QED
    BY <2>2, <2>3
<1> QED
  BY <1>3, <1>4, <1>5, <1>6 DEF IInv

\* A reward is created or updated.
LEMMA WriteRewardStep ==
  ASSUME IInv, NEW r \in Reqs, WriteReward(r)
  PROVE  IInv'
<1> DEFINE item == req[r].item
<1>1. At(r, "reward") /\ Rewarding(req[r])
  BY StageOf DEF WriteReward
<1>2. CASE Throw(r)
  BY <1>2, ThrowStep
<1>3. CASE ~Throw(r)
  <2>1. PICK w \in Rewards :
          /\ IF req[r].reward = None THEN UnusedReward(w) ELSE w = req[r].reward
          /\ Exists(item)
          /\ reward' = [reward EXCEPT ![w] = item]
          /\ req' = [req EXCEPT ![r] = Idle]
          /\ UNCHANGED <<place, disturbed, contested>>
    BY <1>3 DEF WriteReward, Done
  <2>2. item \in Items /\ item # None
    BY <1>1, NullApart DEF Rewarding
  <2>3. /\ req' \in [Reqs -> ReqRow] /\ req'[r] = Idle
        /\ \A q \in Reqs \ {r} : req'[q] = req[q]
    BY <2>1, IdleType DEF IInv, TypeOK
  <2>4. item \notin contested =>
          /\ \A q \in Reqs : req[q].item = item => q = r
          /\ \A v \in Rewards : reward[v] = item => v = req[r].reward
    BY <1>1, <2>1 DEF IInv, RequestOK, OnlyOK
  <2>5. item \notin contested =>
          /\ \A v \in Rewards : reward[v] = item => v = w
          /\ \A q \in Reqs : req'[q].item # item
    BY <2>1, <2>2, <2>3, <2>4, IdleType, NullApart
  <2> HIDE DEF item
  <2> QED
    BY <2>1, <2>2, <2>3, <2>5, RewardStep
<1> QED
  BY <1>2, <1>3

\* A reward is removed.
LEMMA RemoveRewardStep ==
  ASSUME IInv, NEW w \in Rewards, RemoveReward(w)
  PROVE  IInv'
<1>1. /\ reward' = [reward EXCEPT ![w] = None]
      /\ UNCHANGED <<place, req, disturbed, contested>>
      /\ req \in [Reqs -> ReqRow]
  BY DEF RemoveReward, IInv, TypeOK
<1> QED
  BY <1>1, RewardStep

-----------------------------------------------------------------------------
\* Every step of the handlers preserves the invariant.
LEMMA NextInvariant ==
  ASSUME IInv, [Next]_vars
  PROVE  IInv'
<1>1. ASSUME NEW r \in Reqs, NEW l \in Lists, NEW pos \in Positions,
             StartCreate(r, l, pos)
      PROVE  IInv'
  BY <1>1, StartCreateStep
<1>2. ASSUME NEW r \in Reqs, NEW e \in Entries,
             NEW to \in Categories \cup {None},
             NEW pos \in Positions \cup {None}, StartUpdate(r, e, to, pos)
      PROVE  IInv'
  BY <1>2, StartUpdateStep
<1>3. ASSUME NEW r \in Reqs, NEW w \in Rewards \cup {None}, NEW item \in Items,
             StartReward(r, w, item)
      PROVE  IInv'
  BY <1>3, StartRewardStep
<1>4. ASSUME NEW r \in Reqs, Step(r)
      PROVE  IInv'
  BY <1>4, FindRowsStep, ShiftRowsStep, WriteNewStep, WriteOldStep,
     WriteRewardStep DEF Step, CreateEntry, UpdateEntry
<1>5. ASSUME NEW r \in Reqs, Die(r)
      PROVE  IInv'
  BY <1>5, ThrowStep DEF Die
<1>6. ASSUME NEW c \in Categories, RemoveCategory(c)
      PROVE  IInv'
  BY <1>6, RemoveCategoryStep
<1>7. ASSUME NEW e \in Items, RemoveItem(e)
      PROVE  IInv'
  BY <1>7, RemoveItemStep
<1>8. ASSUME NEW w \in Rewards, RemoveReward(w)
      PROVE  IInv'
  BY <1>8, RemoveRewardStep
<1>9. CASE UNCHANGED vars
  <2>1. UNCHANGED <<place, reward, req, disturbed, contested>>
    BY <1>9 DEF vars
  <2>2. TypeOK' /\ PositionsDistinct' /\ OneRewardPerItem'
    BY <2>1 DEF IInv, TypeOK, PositionsDistinct, OneRewardPerItem, Exists
  <2>3. ASSUME NEW r \in Reqs PROVE RequestOK(r)'
    <3>1. RequestOK(r)
      BY DEF IInv
    <3> QED
      BY <2>1, <3>1 DEF RequestOK, StageOK, Shifting, Keeping, Rewarding,
                        Apart, LockedOK, ClearedOK, OnlyOK, At, Exists,
                        HasList, AtOrAfter
  <2> QED
    BY <2>2, <2>3 DEF IInv
<1> QED
  BY <1>1, <1>2, <1>3, <1>4, <1>5, <1>6, <1>7, <1>8, <1>9 DEF Next

-----------------------------------------------------------------------------
\* The inductive invariant holds in every state the program reaches.
THEOREM CatalogueInvariant == Spec => []IInv
<1>1. Init => IInv
  BY InitInvariant
<1>2. IInv /\ [Next]_vars => IInv'
  BY NextInvariant
<1> QED
  BY <1>1, <1>2, PTL DEF Spec

\* Rows and requests have their types; an item is in a category that exists,
\* and a reward is for an item that exists, whatever is removed meanwhile.
THEOREM CatalogueTypeCorrect == Spec => []TypeOK
<1>1. IInv => TypeOK
  BY DEF IInv
<1> QED
  BY <1>1, CatalogueInvariant, PTL

\* No two categories and no two items of a category are at one position, in
\* every list that was never changed by two requests at once: the shift of the
\* first statement is still right when the second one writes.
THEOREM OrderIsStrict == Spec => []PositionsDistinct
<1>1. IInv => PositionsDistinct
  BY DEF IInv
<1> QED
  BY <1>1, CatalogueInvariant, PTL

\* No item is redeemed as two rewards, unless two requests wanted it at once:
\* the check of create and of update is still true when they write.
THEOREM RewardsDoNotCollide == Spec => []OneRewardPerItem
<1>1. IInv => OneRewardPerItem
  BY DEF IInv
<1> QED
  BY <1>1, CatalogueInvariant, PTL
=============================================================================
