---------------------------- MODULE MCCatalogue -----------------------------
(***************************************************************************)
(* A small instance of Catalogue: two categories, two items, two rewards,  *)
(* two positions, two requests in flight.                                  *)
(***************************************************************************)
EXTENDS Catalogue, TLC

Symmetry ==
  Permutations(Categories) \cup Permutations(Items) \cup Permutations(Rewards)
  \cup Permutations(Reqs)

\* Bound: behaviours go on until two lists are out of order, two items are
\* contested, or one of each.
OneSpoiled == Cardinality(disturbed) + Cardinality(contested) < 2
=============================================================================
