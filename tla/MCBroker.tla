------------------------------ MODULE MCBroker ------------------------------
(***************************************************************************)
(* Broker with two directory names per run, a writer source and a          *)
(* detector.  Run numbers are printed in binary without padding, so that   *)
(* run 1 is a prefix of runs 2 and 3 as 1000 is of 10000.                  *)
(***************************************************************************)
EXTENDS Broker, TLC

(* No action tells one directory name from another.                        *)
SuffixSymmetry == Permutations(Suffixes)
=============================================================================
