----------------------------- MODULE MCServices ------------------------------
(***************************************************************************)
(* Services with two scripts, and two files of users that have one name.   *)
(***************************************************************************)
EXTENDS Services, TLC

MCNameOf == <<"a", "a">>

ScriptSymmetry == Permutations(Scripts)
=============================================================================
