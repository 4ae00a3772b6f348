-------------------------- MODULE MCDetectorControl --------------------------
(***************************************************************************)
(* DetectorControl with two requests of any kind, for one detector, and    *)
(* two writers.                                                            *)
(***************************************************************************)
EXTENDS DetectorControl, TLC

ControlSymmetry == Permutations(Writers) \cup Permutations(Requests)
=============================================================================
