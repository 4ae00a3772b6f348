------------------------------- MODULE Ledger -------------------------------
(***************************************************************************)
(* What the broker promises the clients of one pgroup about its numbers:   *)
(* the run numbers it hands out grow, an acquisition it has answered with  *)
(* "ok" keeps its place (directory and step) and its unique number for     *)
(* itself, a run has one directory, and a closed pgroup gets neither new   *)
(* numbered acquisitions nor a way back.  How the numbers are kept in      *)
(* files, and what a failed request leaves behind, is the business of      *)
(* module Broker, which implements this one.                               *)
(***************************************************************************)
EXTENDS Integers, Sequences

CONSTANT Numbers  \* the run numbers there are

VARIABLES
  granted,   \* the run numbers handed out, in the order they were
  ledger,    \* the acquisitions answered with "ok"
  shut       \* the pgroup is closed for writing

ledgerVars == <<granted, ledger, shut>>

Init ==
  /\ granted = <<>>
  /\ ledger = {}
  /\ shut = FALSE

Grant ==
  /\ \E n \in Numbers :
       /\ \A i \in DOMAIN granted : granted[i] < n
       /\ granted' = Append(granted, n)
  /\ UNCHANGED <<ledger, shut>>

(* Run 0 is the value a fresh LAST_RUN file starts from: the broker accepts *)
(* it in a request although it never hands it out.                         *)
Known(run) == run = 0 \/ \E i \in DOMAIN granted : granted[i] = run

Accept(e) ==
  /\ ~shut
  /\ Known(e.dir[1])
  /\ \A f \in ledger :
       /\ f.uniq < e.uniq
       /\ f.dir = e.dir => f.acq < e.acq
       /\ f.dir[1] = e.dir[1] => f.dir = e.dir
  /\ ledger' = ledger \cup {e}
  /\ UNCHANGED <<granted, shut>>

Close ==
  /\ ~shut
  /\ shut' = TRUE
  /\ UNCHANGED <<granted, ledger>>

Next == Grant \/ Close \/ \E e \in ledger' : Accept(e)

Spec == Init /\ [][Next]_ledgerVars

=============================================================================
