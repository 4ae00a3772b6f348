----------------------------- MODULE MCRetrieve -----------------------------
(***************************************************************************)
(* Retrieve with two requests of any kind and two writers.                 *)
(***************************************************************************)
EXTENDS Retrieve, TLC

RetrieveSymmetry == Permutations(Writers) \cup Permutations(Requests)
=============================================================================
