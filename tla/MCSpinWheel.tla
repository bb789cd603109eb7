----------------------------- MODULE MCSpinWheel -----------------------------
(***************************************************************************)
(* A small instance of SpinWheel: one customer, two requests at a time.    *)
(***************************************************************************)
EXTENDS SpinWheel, TLC

CONSTANTS u1, p1, p2, p3

OwnKeys == [u \in Users |-> u]

Points(weight) ==
  [type |-> "points", value |-> 3, weight |-> weight, active |-> TRUE]
Factor(value, weight) ==
  [type |-> "multiplier", value |-> value, weight |-> weight, active |-> TRUE]
Off(row) == [row EXCEPT !.active = FALSE]

\* Entries whose percentages are stored as they are checked, and one whose
\* percentage is rounded up when it is stored only.
Row(p, row) == [id |-> p, row |-> row, checked |-> row.weight]
RowUp(p, row) == [id |-> p, row |-> row, checked |-> row.weight - 1]

\* One prize takes the whole wheel.
OnePrize == [p \in PrizeIds |-> IF p = p1 THEN Points(10) ELSE None]

\* A new prize alone; another one; two prizes, one of which the engine
\* refuses; the first one twice and one that is switched off.
MCConfigs ==
  {[prizes |-> <<Row(p2, Factor(2, 10))>>, cooldown |-> 2],
   [prizes |-> <<RowUp(p3, Points(11))>>, cooldown |-> 1],
   [prizes |-> <<RowUp(p1, Points(6)), Row(p2, Factor(1, 5))>>, cooldown |-> 1],
   [prizes |-> <<Row(p1, Points(5)), Row(p1, Factor(2, 5)),
                 Row(p2, Off(Factor(3, 5)))>>, cooldown |-> 1]}
=============================================================================
