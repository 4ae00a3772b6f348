------------------------- MODULE WriteRequestsProofs -------------------------
(***************************************************************************)
(* What follows from WriteRequests alone, for any requests.  Delivery is   *)
(* proved to implement it, so that it holds of the writers' threads and    *)
(* the broker's queue too (DeliveryProofs).                                *)
(***************************************************************************)
EXTENDS WriteRequests, TLAPS

Settled == {"done", "refused", "lost"}

(* A request that was confirmed, refused or lost stays so: it is neither    *)
(* taken again nor given a second verdict.                                  *)
SettledForGood ==
  [][\A r \in Requests : stage[r] \in Settled => stage'[r] = stage[r]]_stage

(* A move takes one request from one stage to another.                      *)
LEMMA Moves ==
  ASSUME stage \in [Requests -> Stages], NEW r \in Requests,
         NEW from \in Stages, NEW to \in Stages, Move(r, from, to)
  PROVE  /\ stage' \in [Requests -> Stages]
         /\ stage[r] = from /\ stage'[r] = to
         /\ \A q \in Requests \ {r} : stage'[q] = stage[q]
  BY DEF Move

LEMMA TypeStep ==
  ASSUME stage \in [Requests -> Stages], [Next]_stage
  PROVE  stage' \in [Requests -> Stages]
<1>1. ASSUME NEW r \in Requests, Submit(r) \/ Take(r) \/ GiveBack(r) \/ Settle(r)
      PROVE  stage' \in [Requests -> Stages]
  BY <1>1, Moves DEF Submit, Take, GiveBack, Settle, Stages
<1>2. CASE LoseAll
  BY <1>2 DEF LoseAll, Stages
<1> QED
  BY <1>1, <1>2 DEF Next

LEMMA SettledStep ==
  ASSUME stage \in [Requests -> Stages], [Next]_stage, NEW q \in Requests,
         stage[q] \in Settled
  PROVE  stage'[q] = stage[q]
<1>1. ASSUME NEW r \in Requests, Submit(r) \/ Take(r) \/ GiveBack(r) \/ Settle(r)
      PROVE  stage'[q] = stage[q]
  <2>1. PICK from \in {"unsent", "waiting", "taken"}, to \in Stages : Move(r, from, to)
    BY <1>1 DEF Submit, Take, GiveBack, Settle, Stages
  <2>2. stage[r] = from /\ \A p \in Requests \ {r} : stage'[p] = stage[p]
    BY <2>1, Moves DEF Stages
  <2>3. q # r
    BY <2>2 DEF Settled
  <2> QED
    BY <2>2, <2>3
<1>2. CASE LoseAll
  BY <1>2 DEF LoseAll, Settled
<1>3. CASE UNCHANGED stage
  BY <1>3
<1> QED
  BY <1>1, <1>2, <1>3 DEF Next

(* A request is settled once, or lost once, and for good.                   *)
THEOREM Final == Spec => SettledForGood
<1> DEFINE TypeOK == stage \in [Requests -> Stages]
<1>1. Init => TypeOK
  BY DEF Init, Stages
<1>2. TypeOK /\ [Next]_stage => TypeOK'
  BY TypeStep
<1>3. TypeOK /\ [Next]_stage
        => [\A r \in Requests : stage[r] \in Settled => stage'[r] = stage[r]]_stage
  BY SettledStep
<1> QED
  BY <1>1, <1>2, <1>3, PTL DEF Spec, SettledForGood
=============================================================================
