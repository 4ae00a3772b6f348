------------------------------- MODULE MCDaq --------------------------------
(***************************************************************************)
(* Daq with one source, the run number 0 or one handed out, and one name   *)
(* per run.                                                                *)
(***************************************************************************)
EXTENDS Daq, TLC

WriterSymmetry == Permutations(Writers)
=============================================================================
