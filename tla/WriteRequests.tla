--------------------------- MODULE WriteRequests ----------------------------
(***************************************************************************)
(* The life of write requests as the broker and its users may rely on it:  *)
(* a request is taken by one writer at a time and settled once, for good;  *)
(* requests are only lost all together, when nobody is left to take them.  *)
(* Module Delivery implements this one.                                    *)
(***************************************************************************)
EXTENDS Integers, FiniteSets

CONSTANTS
  Requests,
  Capacity    \* how many requests can be worked on at a time

VARIABLE stage

Stages == {"unsent", "waiting", "taken", "done", "refused", "lost"}

In(s) == {r \in Requests : stage[r] = s}

Init == stage = [r \in Requests |-> "unsent"]

Move(r, from, to) == stage[r] = from /\ stage' = [stage EXCEPT ![r] = to]

Submit(r) == Move(r, "unsent", "waiting") \/ Move(r, "unsent", "lost")

Take(r) == Move(r, "waiting", "taken") /\ Cardinality(In("taken")) < Capacity

GiveBack(r) == Move(r, "taken", "waiting")

Settle(r) == Move(r, "taken", "done") \/ Move(r, "taken", "refused")

LoseAll ==
  /\ Cardinality(In("taken")) <= 1
  /\ stage' = [r \in Requests |-> IF stage[r] \in {"waiting", "taken"}
                                    THEN "lost" ELSE stage[r]]

Next ==
  \/ \E r \in Requests : Submit(r) \/ Take(r) \/ GiveBack(r) \/ Settle(r)
  \/ LoseAll

Spec == Init /\ [][Next]_stage

=============================================================================
