------------------------- MODULE MCOneTimePasswords -------------------------
(***************************************************************************)
(* A small instance of OneTimePasswords, with two requests in flight.      *)
(* CHANGE_PHONE: the limits, for two phones behind one address, of which   *)
(* one also asks from elsewhere.  The others: one phone whose codes are    *)
(* asked for and entered.                                                  *)
(***************************************************************************)
EXTENDS OneTimePasswords, TLC

CONSTANTS p1, p2, a1

Limits(purp) == purp = "CHANGE_PHONE"

MCSources ==
  [purp \in Purposes |-> IF Limits(purp)
                         THEN {<<p1, a1>>, <<p2, a1>>}
                         ELSE {<<p1, None>>}]

MCEntering == [purp \in Purposes |-> IF Limits(purp) THEN {} ELSE {p1}]

Symmetry == Permutations(Reqs)

(* What no step reads any more is left out when states are compared: the   *)
(* attempts and the age of a row that is not pending, and the histories    *)
(* of a row that nothing can be added to; but whether these are within     *)
(* their bounds is not.                                                    *)
Pending(id) == IsRow(id) /\ otps[id].status = "PENDING"

Seen(id, pcs) ==
  \E r \in Reqs : /\ req[r].pc \in pcs /\ req[r].seen # None
                 /\ req[r].seen.id = id

ViewedRow(id) ==
  IF IsRow(id) /\ ~Pending(id)
  THEN [otps[id] EXCEPT !.attempts = 0, !.late = FALSE]
  ELSE otps[id]

View ==
  <<GuessesBounded, CodeUsesBounded, purpose, req, sent, crowded,
    [id \in Ids |->
       <<ViewedRow(id),
         IF IsRow(id) /\ (Pending(id) \/ Seen(id, {"wrong"}))
         THEN wrong[id] ELSE 0,
         IF Pending(id) \/ Seen(id, {"mark", "accept"})
         THEN uses[id] ELSE 0,
         (Pending(id) \/ Seen(id, {"mark", "accept"})) /\ id \in left>>]>>
=============================================================================
