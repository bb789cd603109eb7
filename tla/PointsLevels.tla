---------------------------- MODULE PointsLevels ----------------------------
(***************************************************************************)
(* The loyalty levels as the points engine reads them: resolveLevel of     *)
(* points-engine.service.ts over the rows of points_levels.                *)
(*                                                                         *)
(* A catalogue maps every level id to its row, or to None when there is no *)
(* such row.  A row has the points the level starts at (minPeriodPoints),  *)
(* its earn rate in halves and its sortOrder.  Stored points are whole     *)
(* hundredths, the precision of numeric(10,2).  What the engine computes   *)
(* before the database rounds it is in half hundredths: a half is the one  *)
(* fraction on which rounding up and rounding down disagree.               *)
(***************************************************************************)
EXTENDS Integers, Sequences, SequencesExt

CONSTANTS LevelIds,     \* ids a points_levels row can have
          None          \* SQL null: no row, no id

ASSUME LevelNoneAssumption == None \notin LevelIds

ASSUME LevelIdsAssumption == IsFiniteSet(LevelIds)

LevelRow == [min : Nat, rate : Nat, sort : Nat]

Catalogue == [LevelIds -> LevelRow \cup {None}]

LevelsOf(cat) == {l \in LevelIds : cat[l] # None}

\* Mutant: the rows come in descending sortOrder.
SortedLevelsDescending(cat) ==
  {s \in SetToSeqs(LevelsOf(cat)) :
     \A i, j \in DOMAIN s : i < j => cat[s[i]].sort >= cat[s[j]].sort}

\* findMany({ orderBy: { sortOrder: 'asc' } }): the rows in ascending
\* sortOrder.  Rows of equal sortOrder come in any order.
SortedLevels(cat) ==
  {s \in SetToSeqs(LevelsOf(cat)) :
     \A i, j \in DOMAIN s : i < j => cat[s[i]].sort <= cat[s[j]].sort}

\* Mutant: a level needs more than its minimum.
ReachedBeyond(cat, l, points) == 2 * cat[l].min < points

\* minPeriodPoints <= periodPointsEarned, points in half hundredths.
Reached(cat, l, points) == 2 * cat[l].min <= points

\* The loop keeps the last level it passes and breaks at the first one that
\* is not reached: it has passed n levels of s when it ends.
StopsAfter(cat, s, n, points) ==
  /\ \A i \in 1 .. n : Reached(cat, s[i], points)
  /\ n + 1 \in DOMAIN s => ~Reached(cat, s[n + 1], points)

\* The levels resolveLevel may return: None if no level is passed, one level
\* when the sort orders are distinct, else one for each order of the rows.
ResolveLevel(cat, points) ==
  {l \in LevelIds \cup {None} :
     \E s \in SortedLevels(cat) : \E n \in {0} \cup DOMAIN s :
        /\ StopsAfter(cat, s, n, points)
        /\ l = IF n = 0 THEN None ELSE s[n]}

-----------------------------------------------------------------------------
(* What the levels promise, for one catalogue. *)

DistinctSorts(cat) ==
  \A k, l \in LevelsOf(cat) : cat[k].sort = cat[l].sort => k = l

\* A higher level in the display order never starts lower.  Nothing in the code
\* sees to it: where a level ordered before starts higher, the loop stops there
\* and withholds a level whose minimum is reached.
Aligned(cat) ==
  \A k, l \in LevelsOf(cat) :
     cat[k].sort < cat[l].sort <=> cat[k].min < cat[l].min

\* The textbook rule: the level with the greatest minimum not above the
\* points.
HighestWon(cat, points) ==
  LET won == {l \in LevelsOf(cat) : 2 * cat[l].min <= points}
      top == {l \in won : \A k \in won : cat[k].min <= cat[l].min}
  IN  ResolveLevel(cat, points) = IF won = {} THEN {None} ELSE top

\* Whoever has a level with some points has one no lower with more.
NeverLower(cat, points, more) ==
  \A old \in ResolveLevel(cat, points) \ {None},
     new \in ResolveLevel(cat, more) :
        new # None /\ cat[new].sort >= cat[old].sort
=============================================================================
