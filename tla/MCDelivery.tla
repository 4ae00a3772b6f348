----------------------------- MODULE MCDelivery -----------------------------
(***************************************************************************)
(* Delivery with two requests for two files and two writers.               *)
(***************************************************************************)
EXTENDS Delivery, TLC

CONSTANTS r1, r2

MCFileOf == (r1 :> "f1") @@ (r2 :> "f2")

=============================================================================
