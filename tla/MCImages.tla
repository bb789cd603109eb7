------------------------------ MODULE MCImages ------------------------------
(***************************************************************************)
(* A small instance of Images: a store, an advertisement and a menu item,  *)
(* two images, two names of files and two requests in flight.              *)
(***************************************************************************)
EXTENDS Images, TLC

Symmetry == Permutations(Paths) \cup Permutations(Reqs) \cup Permutations(ImageIds)
=============================================================================
