------------------------ MODULE DetectorControlProofs ------------------------
(***************************************************************************)
(* The theorems about DetectorControl, for any number of detectors,        *)
(* requests, writers and events.  Each property has an invariant of its    *)
(* own that implies it, and a lemma that every step preserves that; all    *)
(* of them rest on Typed.                                                  *)
(***************************************************************************)
EXTENDS DetectorControl, TLAPS

Places == {"idle"} \cup Thread \cup Ends

(* What the actors hold: a writer that is not idle a request, of which it   *)
(* knows how many attempts there were, the slow broker a call.  Every       *)
(* attempt but the last one at a request took an event to end.              *)
ActorsOK ==
  /\ ask \in [Requests -> Asks]
  /\ stage \in [Requests -> W!Stages]
  /\ pc \in [Actors -> Places]
  /\ held \in [Writers -> Requests \cup {NoRequest}]
  /\ attempt \in [Requests -> Nat]
  /\ mine \in [Writers -> Nat]
  /\ linked \in [Writers -> BOOLEAN]
  /\ todo \in [Writers -> SUBSET Detectors]
  /\ call \in Calls \cup {NoRequest}
  /\ events \in 0..MaxEvents
  /\ pc[SlowBroker] # "idle" => call \in Calls
  /\ \A w \in Writers : pc[w] = "idle" => held[w] = NoRequest /\ mine[w] = 0 /\ linked[w]
  /\ \A w \in Writers : pc[w] # "idle" =>
       /\ held[w] \in Requests
       /\ mine[w] \in 1..attempt[held[w]]
       /\ todo[w] \subseteq ask[held[w]].detectors
  /\ \A r \in Requests :
       attempt[r] <= events + (IF stage[r] \in {"unsent", "waiting"} THEN 0 ELSE 1)

EffectsOK ==
  /\ original \in [Writers -> [Detectors -> Gains]]
  /\ trigger \in {"running", "stopped"}
  /\ gain \in [Detectors -> Gains]
  /\ acquiring \subseteq Detectors
  /\ inPedestal \subseteq Detectors
  /\ record \in [Requests -> {0, Torn} \cup Attempts]
  /\ sent \subseteq Requests \X Detectors \X Attempts
  /\ wanted \in [Detectors -> Gains]
  /\ strayed \in BOOLEAN
  /\ unsettled \subseteq Detectors
  /\ abandoned \subseteq Detectors
  /\ orphaned \subseteq Requests

Typed == ActorsOK /\ EffectsOK

(* Some switch of d's gain mode, and then only one, knows what its user     *)
(* wants.                                                                   *)
GainOK ==
  \A d \in Detectors \ unsettled :
    /\ (\A w \in Writers : ~Switching(w, d)) => gain[d] = wanted[d]
    /\ \A w \in Writers : Switching(w, d) => original[w][d] = wanted[d]
    /\ \A v, w \in Writers : Switching(v, d) /\ Switching(w, d) => v = w

WillDisable(w, d) ==
  /\ \/ pc[w] \in {"enable", "resume", "halt again"}
     \/ pc[w] = "disable" /\ d \in todo[w]
  /\ d \in Of(w)

WillStart(w, d) ==
  /\ \/ pc[w] \in (ByMode \ {"resume again"}) \cup PowerOn
     \/ pc[w] = "resume again" /\ d \in todo[w]
  /\ d \in Of(w)

DetectorsOK ==
  \A d \in Detectors \ abandoned :
    /\ d \in inPedestal => \E w \in Writers : WillDisable(w, d)
    /\ d \notin acquiring => \E w \in Writers : WillStart(w, d)

(* Two attempts at a request differ, and what one sent is what it recorded  *)
(* before.                                                                  *)
RangeOK ==
  /\ \A v, w \in Writers :
       pc[v] # "idle" /\ pc[w] # "idle" /\ held[v] = held[w] /\ mine[v] = mine[w] => v = w
  /\ \A w \in Writers :
       pc[w] = "send" /\ attempt[held[w]] = 1 => record[held[w]] = 1
  /\ \A m \in sent :
       /\ m[3] <= attempt[m[1]]
       /\ attempt[m[1]] = 1 => record[m[1]] = 1
       /\ \A w \in Writers :
            pc[w] # "idle" /\ held[w] = m[1] /\ mine[w] = m[3]
              => pc[w] \in {"send", "succeeded", "failed"}

Recorded(w, done) ==
  /\ record[held[w]] = mine[w]
  /\ \A d \in done : <<held[w], d, mine[w]>> \in sent

(* While no writer goes on with a request it lost, the one that works on it *)
(* is the only one, and records its pulse ids and sends them before it      *)
(* succeeds.                                                                *)
WorkOK(w) ==
  /\ linked[w]
  /\ stage[held[w]] = "taken"
  /\ \A v \in Writers : pc[v] # "idle" /\ held[v] = held[w] => v = w
  /\ pc[w] \in {"record", "save"} => todo[w] = Of(w)
  /\ pc[w] = "send" => Recorded(w, Of(w) \ todo[w])
  /\ pc[w] = "succeeded" /\ ask[held[w]].kind # "power on" => Recorded(w, Of(w))

PowerOnOK(w) ==
  pc[w] \in Stops \cup PowerOn \cup Starts => ask[held[w]].kind = "power on"

SentOK ==
  /\ \A w \in Writers : PowerOnOK(w)
  /\ \A w \in Writers : pc[w] # "idle" /\ held[w] \notin orphaned => WorkOK(w)
  /\ ConfirmedIsSent

-----------------------------------------------------------------------------
(* The writers' detectors are those of their requests.                      *)
LEMMA OfWriter ==
  ASSUME NEW w \in Writers
  PROVE  Of(w) = ask[held[w]].detectors /\ Of(w)' = ask'[held'[w]].detectors
  BY ControlAssumption DEF Of

(* Typed is stronger than TypeOK.                                           *)
LEMMA TypedTypes == Typed => TypeOK
<1> SUFFICES ASSUME Typed PROVE TypeOK
  OBVIOUS
<1> USE ControlAssumption DEF Typed, ActorsOK, EffectsOK
<1>1. attempt \in [Requests -> 0..(MaxEvents + 1)]
  <2>1. ASSUME NEW r \in Requests PROVE attempt[r] \in 0..(MaxEvents + 1)
    <3>1. attempt[r] \in Nat /\ events \in Nat /\ events <= MaxEvents
      OBVIOUS
    <3>2. attempt[r] <= events + 1
      <4>1. attempt[r] <= events + (IF stage[r] \in {"unsent", "waiting"} THEN 0 ELSE 1)
        OBVIOUS
      <4> QED
        BY <3>1, <4>1
    <3> QED
      BY <3>1, <3>2
  <2> QED
    BY <2>1
<1>2. mine \in [Writers -> {0} \cup Attempts]
  <2>1. \A w \in Writers : mine[w] \in {0} \cup Attempts
    BY <1>1 DEF Attempts, Actors
  <2> QED
    BY <2>1
<1> QED
  BY <1>1, <1>2 DEF TypeOK, Places

(* No place of the code is the idle one.                                    *)
LEMMA NotIdle == "idle" \notin Thread \cup Ends
<1>1. "idle" \notin Ends \cup PowerOn \cup Settings \cup Stops \cup Starts
  BY DEF Ends, PowerOn, Settings, Stops, Starts
<1>2. "idle" \notin ByGains \cup ByMode \cup {"record", "save", "send"}
  BY DEF ByGains, ByMode
<1> QED
  BY <1>1, <1>2 DEF Thread

(* Going from one place to another changes nothing that ActorsOK is about,  *)
(* ...                                                                      *)
LEMMA Stepped ==
  ASSUME ActorsOK, NEW a \in Actors, NEW from, NEW to \in Thread \cup Ends,
         Step(a, from, to), from # "idle"
  PROVE  ActorsOK'
<1>1. to \in Places /\ to # "idle"
  BY NotIdle DEF Places
<1>2. pc' \in [Actors -> Places]
  BY <1>1 DEF ActorsOK, Step, Goto
<1>3. \A b \in Actors : pc'[b] = "idle" <=> pc[b] = "idle"
  BY <1>1 DEF ActorsOK, Step, Goto
<1>4. UNCHANGED <<ask, stage, held, attempt, mine, linked, todo, call, events>>
  BY DEF Step, requests
<1>5. /\ pc[SlowBroker] = "idle" <=> pc'[SlowBroker] = "idle"
      /\ \A w \in Writers : pc[w] = "idle" <=> pc'[w] = "idle"
  BY <1>3 DEF Actors
<1> QED
  BY <1>2, <1>4, <1>5 DEF ActorsOK

(* ... and a turn of a loop only what is left to do.                        *)
LEMMA Turned ==
  ASSUME ActorsOK, NEW w \in Writers, NEW d, NEW p \in Thread, Turn(w, p, d),
         AfterLoop(p) \in Thread \cup Ends
  PROVE  ActorsOK'
<1>1. p # "idle" /\ AfterLoop(p) # "idle" /\ p \in Places /\ AfterLoop(p) \in Places
  BY NotIdle DEF Places
<1>2. pc' \in [Actors -> Places] /\ \A b \in Actors : pc'[b] = "idle" <=> pc[b] = "idle"
  BY <1>1 DEF ActorsOK, Turn, Goto, Actors
<1>3. held[w] \in Requests /\ Of(w) \subseteq Detectors
  <2>1. pc[w] # "idle"
    BY <1>1 DEF Turn
  <2>2. held[w] \in Requests /\ ask[held[w]] \in Asks
    BY <2>1 DEF ActorsOK
  <2>3. ask[held[w]].detectors \subseteq Detectors
    BY <2>2 DEF Asks
  <2> QED
    BY <2>2, <2>3, OfWriter
<1>4. todo' \in [Writers -> SUBSET Detectors]
  BY <1>3 DEF ActorsOK, Turn
<1>5. \A v \in Writers : pc[v] # "idle" => todo'[v] \subseteq ask[held[v]].detectors
  BY <1>3, OfWriter DEF ActorsOK, Turn
<1> QED
  BY <1>2, <1>4, <1>5 DEF ActorsOK, Turn, requests, Actors

(* All actions keep what the actors hold.                                   *)
LEMMA ActorsStep == ActorsOK /\ [Next]_vars => ActorsOK'
<1> SUFFICES ASSUME ActorsOK, [Next]_vars PROVE ActorsOK'
  OBVIOUS
<1> USE DEF Actors
<1> DEFINE P == Thread \cup Ends
<1>1. ASSUME NEW a \in Actors, TriggerStep(a) PROVE ActorsOK'
  <2>1. PICK from \in Stops \cup Starts, to \in P : Step(a, from, to)
    BY <1>1 DEF TriggerStep, PutStop, StopVerified, StopRefuted, PutStart, StartVerified,
                Thread, Ends, Stops, Starts, Settings, PowerOn
  <2> QED
    BY <2>1, Stepped DEF Stops, Starts
<1>2. CASE CompareEqual \/ CompareUnequal \/ SetSettings \/ CallFails
  <2>1. PICK from \in Thread, to \in P : Step(SlowBroker, from, to)
    BY <1>2 DEF CompareEqual, CompareUnequal, SetSettings, CallFails,
                Thread, Ends, Stops, Starts, Settings
  <2> QED
    BY <2>1, Stepped, NotIdle
<1>3. ASSUME NEW c \in Calls, Call(c) PROVE ActorsOK'
  <2>1. pc' \in [Actors -> Places] /\ \A w \in Writers : pc'[w] = pc[w]
    BY <1>3, ControlAssumption DEF ActorsOK, Call, Goto, Places, Thread, Stops
  <2>2. events \in 0..MaxEvents /\ events' = events + 1 /\ events' \in 0..MaxEvents
    <3>1. events \in 0..MaxEvents
      BY DEF ActorsOK
    <3>2. events < MaxEvents /\ events' = events + 1
      BY <1>3 DEF Call
    <3> QED
      BY <3>1, <3>2, ControlAssumption
  <2>3. \A r \in Requests :
          attempt[r] <= events' + (IF stage[r] \in {"unsent", "waiting"} THEN 0 ELSE 1)
    <3> TAKE r \in Requests
    <3>1. attempt[r] <= events + (IF stage[r] \in {"unsent", "waiting"} THEN 0 ELSE 1)
      BY DEF ActorsOK
    <3> QED
      BY <2>2, <3>1 DEF ActorsOK
  <2>4. UNCHANGED <<ask, stage, held, attempt, mine, linked, todo>> /\ call' \in Calls
    BY <1>3 DEF Call, requests
  <2> QED
    BY <2>1, <2>2, <2>3, <2>4 DEF ActorsOK
<1>4. CASE Reply
  <2>1. /\ pc' \in [Actors -> Places] /\ \A w \in Writers : pc'[w] = pc[w]
        /\ pc'[SlowBroker] = "idle"
    BY <1>4, ControlAssumption DEF ActorsOK, Reply, Goto, Places
  <2> QED
    BY <1>4, <2>1 DEF ActorsOK, Reply, requests
<1>5. ASSUME NEW r \in Requests, Submit(r) PROVE ActorsOK'
  BY <1>5 DEF ActorsOK, Submit, W!Submit, W!Move, W!Stages, actors
<1>6. ASSUME NEW w \in Writers, NEW r \in Requests, Take(w, r) PROVE ActorsOK'
  <2>1. FirstStep(ask[r].kind) \in Thread
    BY DEF ActorsOK, Asks, FirstStep, Thread, Stops, ByGains, ByMode
  <2>2. FirstStep(ask[r].kind) # "idle"
    BY DEF ActorsOK, Asks, FirstStep
  <2>3. pc' \in [Actors -> Places] /\ pc'[w] # "idle"
          /\ \A a \in Actors \ {w} : pc'[a] = pc[a]
    BY <1>6, <2>1, <2>2 DEF ActorsOK, Take, Goto, Places
  <2>4. ask[r].detectors \in SUBSET Detectors
    <3>1. ask[r] \in Asks
      BY DEF ActorsOK
    <3> QED
      BY <3>1 DEF Asks
  <2>5. /\ stage[r] = "waiting" /\ stage' = [stage EXCEPT ![r] = "taken"]
        /\ stage' \in [Requests -> W!Stages]
    BY <1>6 DEF ActorsOK, Take, W!Take, W!Move, W!Stages
  <2>6. attempt' \in [Requests -> Nat] /\ \A s \in Requests : attempt'[s] >= attempt[s]
    BY <1>6 DEF ActorsOK, Take
  <2>7. \A v \in Writers : pc'[v] # "idle" =>
          /\ held'[v] \in Requests
          /\ mine'[v] \in 1..attempt'[held'[v]]
          /\ todo'[v] \subseteq ask'[held'[v]].detectors
    <3> SUFFICES ASSUME NEW v \in Writers, pc'[v] # "idle"
                 PROVE /\ held'[v] \in Requests
                       /\ mine'[v] \in 1..attempt'[held'[v]]
                       /\ todo'[v] \subseteq ask'[held'[v]].detectors
      OBVIOUS
    <3>1. CASE v = w
      BY <1>6, <2>6, <3>1 DEF ActorsOK, Take
    <3>2. CASE v # w
      <4>1. /\ held'[v] = held[v] /\ mine'[v] = mine[v] /\ todo'[v] = todo[v]
            /\ pc'[v] = pc[v] /\ ask' = ask
        BY <1>6, <2>3, <3>2 DEF ActorsOK, Take
      <4> QED
        BY <2>6, <4>1 DEF ActorsOK
    <3> QED
      BY <3>1, <3>2
  <2>8. \A s \in Requests :
          attempt'[s] <= events + (IF stage'[s] \in {"unsent", "waiting"} THEN 0 ELSE 1)
    BY <1>6, <2>5 DEF ActorsOK, Take
  <2>9. SlowBroker # w
    BY ControlAssumption
  <2>10. /\ held' \in [Writers -> Requests \cup {NoRequest}] /\ mine' \in [Writers -> Nat]
         /\ todo' \in [Writers -> SUBSET Detectors]
    BY <1>6, <2>4, <2>6 DEF ActorsOK, Take
  <2>11. \A v \in Writers : pc'[v] = "idle" => held'[v] = NoRequest /\ mine'[v] = 0 /\ linked'[v]
    <3> SUFFICES ASSUME NEW v \in Writers, pc'[v] = "idle"
                 PROVE  held'[v] = NoRequest /\ mine'[v] = 0 /\ linked'[v]
      OBVIOUS
    <3>1. v # w /\ v \in Actors
      BY <2>3 DEF Actors
    <3>2. /\ pc'[v] = pc[v] /\ held'[v] = held[v] /\ mine'[v] = mine[v]
          /\ linked'[v] = linked[v]
      BY <1>6, <2>3, <3>1 DEF ActorsOK, Take
    <3> QED
      BY <3>2 DEF ActorsOK
  <2>12. pc'[SlowBroker] = pc[SlowBroker] /\ UNCHANGED <<ask, linked, call, events>>
    BY <1>6, <2>3, <2>9 DEF Take, Actors
  <2> QED
    BY <2>3, <2>5, <2>6, <2>7, <2>8, <2>10, <2>11, <2>12 DEF ActorsOK
<1>7. ASSUME NEW w \in Writers, Forget(w),
             UNCHANGED <<ask, attempt, call>>, 
             linked'[w], linked' \in [Writers -> BOOLEAN],
             \A v \in Writers \ {w} : linked'[v] = linked[v],
             \/ UNCHANGED <<stage, events>>
             \/ W!Settle(held[w]) /\ UNCHANGED events
             \/ W!GiveBack(held[w]) /\ events' = events + 1 /\ events < MaxEvents
      PROVE  ActorsOK'
  <2>1. pc' \in [Actors -> Places] /\ pc'[w] = "idle"
          /\ \A a \in Actors \ {w} : pc'[a] = pc[a]
    BY <1>7 DEF ActorsOK, Forget, Goto, Places
  <2>2. /\ stage' \in [Requests -> W!Stages]
        /\ events' \in 0..MaxEvents
        /\ \A s \in Requests :
             attempt[s] <= events' + (IF stage'[s] \in {"unsent", "waiting"} THEN 0 ELSE 1)
    <3>1. CASE UNCHANGED <<stage, events>>
      BY <3>1 DEF ActorsOK
    <3>2. CASE W!Settle(held[w]) /\ UNCHANGED events
      BY <3>2 DEF ActorsOK, W!Settle, W!Move, W!Stages
    <3>3. CASE W!GiveBack(held[w]) /\ events' = events + 1 /\ events < MaxEvents
      <4>1. events' = events + 1 /\ events' \in 0..MaxEvents
        BY <3>3, ControlAssumption DEF ActorsOK
      <4>2. stage[held[w]] = "taken" /\ stage' = [stage EXCEPT ![held[w]] = "waiting"]
        BY <3>3 DEF W!GiveBack, W!Move
      <4>3. stage' \in [Requests -> W!Stages]
        BY <4>2 DEF ActorsOK, W!Stages
      <4>4. \A s \in Requests : stage'[s] = IF s = held[w] THEN "waiting" ELSE stage[s]
        BY <4>2 DEF ActorsOK
      <4> QED
        BY <4>1, <4>2, <4>3, <4>4 DEF ActorsOK
    <3> QED
      BY <1>7, <3>1, <3>2, <3>3
  <2>3. SlowBroker # w
    BY ControlAssumption
  <2>4. /\ held' \in [Writers -> Requests \cup {NoRequest}] /\ mine' \in [Writers -> Nat]
        /\ todo' \in [Writers -> SUBSET Detectors]
        /\ held'[w] = NoRequest /\ mine'[w] = 0
        /\ \A v \in Writers \ {w} :
             held'[v] = held[v] /\ mine'[v] = mine[v] /\ todo'[v] = todo[v]
    BY <1>7 DEF ActorsOK, Forget
  <2>5. ASSUME NEW v \in Writers
        PROVE  /\ pc'[v] = "idle" => held'[v] = NoRequest /\ mine'[v] = 0 /\ linked'[v]
               /\ pc'[v] # "idle" =>
                    /\ held'[v] \in Requests
                    /\ mine'[v] \in 1..attempt'[held'[v]]
                    /\ todo'[v] \subseteq ask'[held'[v]].detectors
    <3>1. CASE v = w
      BY <1>7, <2>1, <2>4, <3>1
    <3>2. CASE v # w
      <4>1. v \in Actors
        BY DEF Actors
      <4>2. /\ pc'[v] = pc[v] /\ held'[v] = held[v] /\ mine'[v] = mine[v]
            /\ todo'[v] = todo[v] /\ linked'[v] = linked[v]
        BY <1>7, <2>1, <2>4, <3>2, <4>1
      <4> QED
        BY <1>7, <4>2 DEF ActorsOK
    <3> QED
      BY <3>1, <3>2
  <2>6. call' \in Calls \cup {NoRequest} /\ (pc'[SlowBroker] # "idle" => call' \in Calls)
    BY <1>7, <2>1, <2>3 DEF ActorsOK, Actors
  <2> QED
    BY <1>7, <2>1, <2>2, <2>4, <2>5, <2>6 DEF ActorsOK
<1>8. ASSUME NEW w \in Writers, Settle(w) \/ Die(w) \/ NoticeCut(w) PROVE ActorsOK'
  <2>1. CASE Settle(w)
    BY <2>1, <1>7 DEF ActorsOK, Settle
  <2>2. CASE Die(w)
    BY <2>2, <1>7 DEF ActorsOK, Die, Unlink
  <2>3. CASE NoticeCut(w)
    BY <2>3, <1>7 DEF ActorsOK, NoticeCut, requests
  <2> QED
    BY <1>8, <2>1, <2>2, <2>3
<1>9. ASSUME NEW w \in Writers, Cut(w) PROVE ActorsOK'
  BY <1>9, ControlAssumption DEF ActorsOK, Cut, Unlink, W!GiveBack, W!Move, W!Stages
<1>10. ASSUME NEW w \in Writers, Pedestal(w) PROVE ActorsOK'
  <2>1. CASE OpenRecord(w) \/ SaveRecord(w)
    <3>1. PICK from \in Thread, to \in P : Step(w, from, to)
      BY <2>1 DEF OpenRecord, SaveRecord, Thread
    <3> QED
      BY <3>1, Stepped, NotIdle
  <2>2. ASSUME NEW d \in Detectors, ReadGain(w, d) \/ SwitchGain(w, d) \/ RestoreGain(w, d)
                 \/ SwitchMode(w, d) \/ SendRetrieve(w, d)
        PROVE  ActorsOK'
    <3>1. PICK p \in ByGains \cup ByMode \cup {"send"} : Turn(w, p, d)
      BY <2>2 DEF ReadGain, SwitchGain, RestoreGain, SwitchMode, SendRetrieve, ByGains, Known
    <3>2. p \in Thread /\ AfterLoop(p) \in P
      BY DEF Thread, Ends, AfterLoop, ByGains, ByMode
    <3> QED
      BY <3>1, <3>2, Turned
  <2> QED
    BY <1>10, <2>1, <2>2 DEF Pedestal
<1>11. ASSUME NEW w \in Writers, StopDetector(w) \/ ApplyConfig(w) \/ StartDetector(w)
               \/ PowerOnFails(w) \/ Fail(w)
       PROVE  ActorsOK'
  <2>1. PICK from \in Thread, to \in P : Step(w, from, to)
    BY <1>11 DEF StopDetector, ApplyConfig, StartDetector, PowerOnFails, Fail, Thread, Ends,
                 Starts, PowerOn
  <2> QED
    BY <2>1, Stepped, NotIdle
<1>12. CASE UNCHANGED vars
  BY <1>12 DEF ActorsOK, vars, actors, requests
<1> QED
  BY <1>1, <1>2, <1>3, <1>4, <1>5, <1>6, <1>8, <1>9, <1>10, <1>11, <1>12
     DEF Next, SlowBrokerStep, WriterStep

(* What a busy writer carries.                                              *)
LEMMA Busy ==
  ASSUME Typed, NEW w \in Writers, pc[w] # "idle"
  PROVE  /\ held[w] \in Requests
         /\ mine[w] \in Attempts
         /\ Of(w) \subseteq Detectors
         /\ todo[w] \subseteq Of(w)
<1>1. held[w] \in Requests /\ todo[w] \subseteq Of(w) /\ ask[held[w]] \in Asks
  BY OfWriter DEF Typed, ActorsOK
<1>2. mine[w] \in Attempts
  <2>1. mine[w] \in {0} \cup Attempts
    BY TypedTypes DEF TypeOK
  <2>2. mine[w] \in 1..attempt[held[w]]
    BY DEF Typed, ActorsOK
  <2>3. mine[w] # 0
    BY <1>1, <2>2 DEF Typed, ActorsOK
  <2> QED
    BY <2>1, <2>3
<1>3. ask[held[w]].detectors \subseteq Detectors
  BY <1>1 DEF Asks
<1> QED
  BY <1>1, <1>2, <1>3, OfWriter

(* An end of a writer's attempt changes histories only.                     *)
LEMMA LeaveTypes ==
  ASSUME Typed, NEW w \in Writers, pc[w] # "idle", Leave(w)
  PROVE  /\ wanted' \in [Detectors -> Gains]
         /\ strayed' \in BOOLEAN
         /\ unsettled' \subseteq Detectors
         /\ abandoned' \subseteq Detectors
<1>1. Of(w) \subseteq Detectors
  BY Busy
<1> QED
  BY <1>1 DEF Leave, Typed, EffectsOK

(* Every step keeps the types of the rest.                                  *)
LEMMA EffectsStep == Typed /\ [Next]_vars => EffectsOK'
<1> SUFFICES ASSUME Typed, [Next]_vars PROVE EffectsOK'
  OBVIOUS
<1>0. EffectsOK
  BY DEF Typed
<1> USE <1>0 DEF EffectsOK, machine, files, history
<1>1. ASSUME NEW a \in Actors, TriggerStep(a) PROVE EffectsOK'
  BY <1>1 DEF TriggerStep, PutStop, StopVerified, StopRefuted, PutStart, StartVerified, Step
<1>2. CASE CompareEqual \/ CompareUnequal \/ SetSettings \/ CallFails
  <2>1. CASE CompareEqual \/ SetSettings
    <3>1. call \in Calls
      <4>1. pc[SlowBroker] # "idle"
        BY <2>1 DEF CompareEqual, SetSettings, Step
      <4> QED
        BY <4>1 DEF Typed, ActorsOK
    <3>2. call.detector \in Detectors /\ call.gain \in Gains
      BY <3>1 DEF Calls
    <3> QED
      BY <2>1, <3>2 DEF CompareEqual, SetSettings, SetGain, Want, Step, Calls
  <2>2. CASE CompareUnequal \/ CallFails
    BY <2>2 DEF CompareUnequal, CallFails, Step
  <2> QED
    BY <1>2, <2>1, <2>2
<1>3. CASE Reply \/ \E c \in Calls : Call(c)
  BY <1>3 DEF Reply, Call
<1>4. ASSUME NEW r \in Requests, Submit(r) PROVE EffectsOK'
  BY <1>4 DEF Submit, actors
<1>5. ASSUME NEW w \in Writers, NEW r \in Requests, Take(w, r) PROVE EffectsOK'
  BY <1>5 DEF Take
<1>6. ASSUME NEW w \in Writers, Settle(w) \/ Die(w) \/ NoticeCut(w) PROVE EffectsOK'
  <2>1. original' \in [Writers -> [Detectors -> Gains]]
    BY <1>6 DEF Settle, Die, NoticeCut, Forget, Gains
  <2>2. CASE Settle(w)
    BY <2>1, <2>2 DEF Settle
  <2>3. CASE Die(w) \/ NoticeCut(w)
    <3>1. pc[w] # "idle" /\ Leave(w)
      BY <2>3 DEF Die, Unlink, NoticeCut, Typed, ActorsOK
    <3> QED
      BY <2>1, <2>3, <3>1, LeaveTypes DEF Die, NoticeCut
  <2> QED
    BY <1>6, <2>2, <2>3
<1>7. ASSUME NEW w \in Writers, Cut(w) PROVE EffectsOK'
  <2>1. held[w] \in Requests
    BY <1>7, Busy DEF Cut, Unlink
  <2> QED
    BY <1>7, <2>1 DEF Cut
<1>8. ASSUME NEW w \in Writers, Pedestal(w) PROVE EffectsOK'
  <2>1. ASSUME NEW d \in Detectors, ReadGain(w, d) PROVE EffectsOK'
    BY <2>1 DEF ReadGain, Turn
  <2>2. ASSUME NEW d \in Detectors, SwitchGain(w, d) \/ RestoreGain(w, d) PROVE EffectsOK'
    BY <2>2 DEF SwitchGain, RestoreGain, SetGain, Turn, Gains
  <2>3. ASSUME NEW d \in Detectors, SwitchMode(w, d) PROVE EffectsOK'
    BY <2>3 DEF SwitchMode, Turn
  <2>4. ASSUME NEW d \in Detectors, SendRetrieve(w, d) PROVE EffectsOK'
    <3>1. held[w] \in Requests /\ mine[w] \in Attempts
      BY <2>4, Busy DEF SendRetrieve, Turn
    <3> QED
      BY <2>4, <3>1 DEF SendRetrieve, Turn
  <2>5. CASE OpenRecord(w) \/ SaveRecord(w)
    <3>1. held[w] \in Requests /\ mine[w] \in Attempts
      BY <2>5, Busy DEF OpenRecord, SaveRecord, Step
    <3> QED
      BY <2>5, <3>1 DEF OpenRecord, SaveRecord, Step
  <2> QED
    BY <1>8, <2>1, <2>2, <2>3, <2>4, <2>5 DEF Pedestal
<1>9. ASSUME NEW w \in Writers, StopDetector(w) \/ ApplyConfig(w) \/ StartDetector(w)
        \/ PowerOnFails(w)
      PROVE  EffectsOK'
  <2>1. Of(w) \subseteq Detectors
    BY <1>9, Busy DEF StopDetector, ApplyConfig, StartDetector, PowerOnFails, PowerOn, Step
  <2> QED
    BY <1>9, <2>1 DEF StopDetector, ApplyConfig, StartDetector, PowerOnFails, Acquire, Step
<1>10. ASSUME NEW w \in Writers, Fail(w) PROVE EffectsOK'
  <2>1. pc[w] # "idle"
    BY <1>10, NotIdle DEF Fail, Step
  <2>2. Leave(w)
    BY <1>10 DEF Fail
  <2> QED
    BY <1>10, <2>1, <2>2, LeaveTypes DEF Fail, Step
<1>11. CASE UNCHANGED vars
  BY <1>11 DEF vars, actors
<1> QED
  BY <1>1, <1>2, <1>3, <1>4, <1>5, <1>6, <1>7, <1>8, <1>9, <1>10, <1>11
     DEF Next, SlowBrokerStep, WriterStep, Actors

(* They hold at first.                                                      *)
LEMMA TypedInit == Init => Typed
<1> SUFFICES ASSUME Init PROVE Typed
  OBVIOUS
<1>1. ActorsOK
  BY ControlAssumption DEF Init, ActorsOK, W!Init, W!Stages, Actors, Places
<1>2. EffectsOK
  BY DEF Init, EffectsOK, Gains
<1> QED
  BY <1>1, <1>2 DEF Typed

LEMMA TypedStep == Typed /\ [Next]_vars => Typed'
  BY ActorsStep, EffectsStep DEF Typed

LEMMA AlwaysTyped == Spec => []Typed
  BY TypedInit, TypedStep, PTL DEF Spec

(* Every variable has its type, for any number of detectors, writers and    *)
(* requests: no attempt of a request is counted that took no event, and no  *)
(* actor is somewhere its code has no place for.                            *)
THEOREM TypeCorrect == Spec => []TypeOK
  BY AlwaysTyped, TypedTypes, PTL

-----------------------------------------------------------------------------
(* A step that leaves the trigger alone keeps TriggerIsHeld if whoever      *)
(* moves stays in Holding or was not in it.                                 *)
LEMMA TriggerStays ==
  ASSUME Typed, TriggerIsHeld, trigger' = trigger, strayed => strayed',
         NEW a \in Actors, \A b \in Actors \ {a} : pc'[b] = pc[b],
         pc[a] \in Holding => pc'[a] \in Holding \/ strayed'
  PROVE  TriggerIsHeld'
  BY DEF TriggerIsHeld

LEMMA TriggerKept == Typed /\ TriggerIsHeld /\ [Next]_vars => TriggerIsHeld'
<1> SUFFICES ASSUME Typed, TriggerIsHeld, [Next]_vars PROVE TriggerIsHeld'
  OBVIOUS
<1> USE DEF Holding, Settings, PowerOn, machine, Goto
<1>0. pc \in [Actors -> Places]
  BY DEF Typed, ActorsOK
<1>1. ASSUME NEW a \in Actors, TriggerStep(a) PROVE TriggerIsHeld'
  <2>1. CASE PutStop(a)
    BY <1>0, <2>1 DEF PutStop, Step, TriggerIsHeld
  <2>2. CASE PutStart(a)
    BY <2>2 DEF PutStart, TriggerIsHeld
  <2>3. CASE StopRefuted(a)
    BY <2>3 DEF StopRefuted, TriggerIsHeld, Typed, EffectsOK
  <2>4. CASE StopVerified(a) \/ StartVerified(a)
    <3>1. trigger' = trigger /\ strayed' = strayed
      BY <2>4 DEF StopVerified, StartVerified, history
    <3>2. \A b \in Actors \ {a} : pc'[b] = pc[b]
      BY <1>0, <2>4 DEF StopVerified, StartVerified, Step
    <3>3. pc[a] \in Holding => pc'[a] \in Holding
      BY <1>0, <2>4 DEF StopVerified, StartVerified, Step
    <3> QED
      BY <3>1, <3>2, <3>3, TriggerStays
  <2> QED
    BY <1>1, <2>1, <2>2, <2>3, <2>4 DEF TriggerStep
<1>2. CASE CompareEqual \/ CompareUnequal \/ SetSettings \/ CallFails \/ Reply
  <2>1. SlowBroker \in Actors
    BY DEF Actors
  <2>2. trigger' = trigger
    BY <1>2 DEF CompareEqual, CompareUnequal, SetSettings, SetGain, CallFails, Reply
  <2>3. strayed => strayed'
    BY <1>2 DEF CompareEqual, CompareUnequal, SetSettings, CallFails, Reply, Want, history
  <2>4. \A b \in Actors \ {SlowBroker} : pc'[b] = pc[b]
    BY <1>0, <1>2 DEF CompareEqual, CompareUnequal, SetSettings, CallFails, Reply, Step
  <2>5. pc[SlowBroker] \in Holding => pc'[SlowBroker] \in Holding \/ strayed'
    BY <1>0, <1>2, <2>1 DEF CompareEqual, CompareUnequal, SetSettings, CallFails, Reply, Step,
                            Ends
  <2> QED
    BY <2>1, <2>2, <2>3, <2>4, <2>5, TriggerStays
<1>3. ASSUME NEW c \in Calls, Call(c) PROVE TriggerIsHeld'
  BY <1>0, <1>3, TriggerStays DEF Call, history, Actors
<1>4. ASSUME NEW r \in Requests, Submit(r) PROVE TriggerIsHeld'
  BY <1>4 DEF Submit, actors, history, TriggerIsHeld
<1>5. ASSUME NEW w \in Writers,
             (WriterStep(w) /\ ~TriggerStep(w)) \/ Settle(w) \/ Die(w) \/ Cut(w) \/ NoticeCut(w)
               \/ \E r \in Requests : Take(w, r)
      PROVE  TriggerIsHeld'
  <2>1. w \in Actors
    BY DEF Actors
  <2>2. trigger' = trigger
    BY <1>5 DEF WriterStep, Pedestal, ReadGain, SwitchGain, RestoreGain, SetGain, SwitchMode,
                SendRetrieve, OpenRecord, SaveRecord, StopDetector, Acquire, ApplyConfig,
                StartDetector, PowerOnFails, Fail, Settle, Die, Cut, NoticeCut, Take
  <2>3. strayed => strayed'
    BY <1>5 DEF WriterStep, Pedestal, ReadGain, SwitchGain, RestoreGain, SwitchMode,
                SendRetrieve, OpenRecord, SaveRecord, StopDetector, Acquire, ApplyConfig,
                StartDetector, PowerOnFails, Fail, Settle, Die, Cut, NoticeCut, Take, Leave,
                history
  <2>4. \A b \in Actors \ {w} : pc'[b] = pc[b]
    BY <1>0, <1>5 DEF WriterStep, Pedestal, ReadGain, SwitchGain, RestoreGain, SwitchMode,
                SendRetrieve, OpenRecord, SaveRecord, StopDetector, ApplyConfig,
                StartDetector, PowerOnFails, Fail, Settle, Die, Cut, NoticeCut, Take, Forget,
                Step, Turn
  <2>5. pc[w] \in Holding => pc'[w] \in Holding \/ strayed'
    <3>1. CASE Pedestal(w)
      <4>1. pc[w] \in ByGains \cup ByMode \cup {"record", "save", "send"}
        BY <3>1 DEF Pedestal, ReadGain, SwitchGain, RestoreGain, SwitchMode, SendRetrieve,
                    OpenRecord, SaveRecord, Step, Turn, Known, ByGains
      <4> QED
        BY <4>1 DEF ByGains, ByMode
    <3>2. CASE StopDetector(w) \/ ApplyConfig(w) \/ StartDetector(w) \/ PowerOnFails(w)
      BY <1>0, <2>1, <3>2 DEF StopDetector, ApplyConfig, StartDetector, PowerOnFails, Step
    <3>3. CASE Fail(w) \/ Die(w) \/ NoticeCut(w)
      BY <3>3 DEF Fail, Die, NoticeCut, Leave
    <3>4. CASE Settle(w) \/ Cut(w) \/ \E r \in Requests : Take(w, r)
      BY <3>4 DEF Settle, Cut, Take, Ends
    <3> QED
      BY <1>5, <3>1, <3>2, <3>3, <3>4 DEF WriterStep
  <2> QED
    BY <2>1, <2>2, <2>3, <2>4, <2>5, TriggerStays
<1>6. CASE UNCHANGED vars
  BY <1>6 DEF vars, actors, history, TriggerIsHeld
<1> QED
  BY <1>1, <1>2, <1>3, <1>4, <1>5, <1>6 DEF Next, SlowBrokerStep, WriterStep, Actors

(* However many calls and power-ons overlap, the trigger is stopped only    *)
(* while one of them is about to start it again, unless a fault ended one.  *)
THEOREM TriggerHeld == Spec => []TriggerIsHeld
<1>1. Init => TriggerIsHeld
  BY DEF Init, TriggerIsHeld
<1> QED
  BY <1>1, AlwaysTyped, TriggerKept, PTL DEF Spec

-----------------------------------------------------------------------------
(* Whichever writer moves, the others go on being about what they are.      *)
LEMMA OthersStay ==
  ASSUME Typed, NEW w \in Writers,
         WriterStep(w) \/ Settle(w) \/ Die(w) \/ Cut(w) \/ NoticeCut(w)
           \/ \E r \in Requests : Take(w, r)
  PROVE  /\ ask' = ask
         /\ \A v \in Writers \ {w} :
              pc'[v] = pc[v] /\ held'[v] = held[v] /\ todo'[v] = todo[v]
                             /\ original'[v] = original[v]
<1>0. /\ pc \in [Actors -> Places] /\ held \in [Writers -> Requests \cup {NoRequest}]
      /\ todo \in [Writers -> SUBSET Detectors]
      /\ original \in [Writers -> [Detectors -> Gains]]
  BY DEF Typed, ActorsOK, EffectsOK
<1>1. CASE Settle(w) \/ Die(w) \/ Cut(w) \/ NoticeCut(w) \/ \E r \in Requests : Take(w, r)
  BY <1>0, <1>1 DEF Settle, Die, Cut, NoticeCut, Take, Forget, Goto, Actors, requests
<1>2. CASE TriggerStep(w)
  BY <1>0, <1>2 DEF TriggerStep, PutStop, StopVerified, StopRefuted, PutStart, StartVerified,
                    Step, Goto, Actors, requests
<1>3. CASE Pedestal(w)
  <2>1. CASE OpenRecord(w) \/ SaveRecord(w)
    BY <1>0, <2>1 DEF OpenRecord, SaveRecord, Step, Goto, Actors, requests
  <2>2. ASSUME NEW p, NEW d \in Detectors, Turn(w, p, d)
        PROVE  /\ ask' = ask
               /\ \A v \in Writers \ {w} :
                    pc'[v] = pc[v] /\ held'[v] = held[v] /\ todo'[v] = todo[v]
    BY <1>0, <2>2 DEF Turn, Goto, Actors, requests
  <2>3. ASSUME NEW d \in Detectors,
               ReadGain(w, d) \/ SwitchGain(w, d) \/ RestoreGain(w, d)
                 \/ SwitchMode(w, d) \/ SendRetrieve(w, d)
        PROVE  /\ \E p : Turn(w, p, d)
               /\ \A v \in Writers \ {w} : original'[v] = original[v]
    BY <1>0, <2>3 DEF ReadGain, SwitchGain, RestoreGain, SwitchMode, SendRetrieve
  <2> QED
    BY <1>3, <2>1, <2>2, <2>3 DEF Pedestal
<1>4. CASE StopDetector(w) \/ ApplyConfig(w) \/ StartDetector(w) \/ PowerOnFails(w) \/ Fail(w)
  BY <1>0, <1>4 DEF StopDetector, ApplyConfig, StartDetector, PowerOnFails, Fail,
                    Step, Goto, Actors, requests
<1> QED
  BY <1>1, <1>2, <1>3, <1>4 DEF WriterStep

LEMMA OthersOf ==
  ASSUME ask' = ask, NEW v \in Writers, held'[v] = held[v]
  PROVE  Of(v)' = Of(v)
  BY OfWriter

-----------------------------------------------------------------------------
(* DetectorsOK is kept when whoever moves leaves no detector it is to start *)
(* or to take out of pedestal mode, other than abandoned.                   *)
LEMMA DetectorsStay ==
  ASSUME Typed, DetectorsOK, NEW w \in Writers, abandoned \subseteq abandoned', ask' = ask,
         \A v \in Writers \ {w} :
           pc'[v] = pc[v] /\ held'[v] = held[v] /\ todo'[v] = todo[v],
         \A d \in Detectors \ abandoned' :
           /\ d \in inPedestal' =>
                (d \in inPedestal /\ ~WillDisable(w, d)) \/ WillDisable(w, d)'
           /\ d \notin acquiring' =>
                (d \notin acquiring /\ ~WillStart(w, d)) \/ WillStart(w, d)'
  PROVE  DetectorsOK'
<1>1. \A v \in Writers \ {w}, d \in Detectors :
        /\ WillDisable(v, d) => WillDisable(v, d)'
        /\ WillStart(v, d) => WillStart(v, d)'
  BY OthersOf DEF WillDisable, WillStart
<1> QED
  BY <1>1 DEF DetectorsOK

LEMMA DetectorsKept == Typed /\ DetectorsOK /\ [Next]_vars => DetectorsOK'
<1> SUFFICES ASSUME Typed, DetectorsOK, [Next]_vars PROVE DetectorsOK'
  OBVIOUS
<1> USE DEF machine, history
<1>0. /\ pc \in [Actors -> Places]
      /\ todo \in [Writers -> SUBSET Detectors]
      /\ abandoned \subseteq Detectors
  BY DEF Typed, ActorsOK, EffectsOK
<1>1. ASSUME UNCHANGED <<ask, held, todo, acquiring, inPedestal, abandoned>>,
             \A v \in Writers : pc'[v] = pc[v]
      PROVE  DetectorsOK'
  <2>1. \A v \in Writers, d \in Detectors :
          /\ WillDisable(v, d) <=> WillDisable(v, d)'
          /\ WillStart(v, d) <=> WillStart(v, d)'
    BY <1>1, OthersOf DEF WillDisable, WillStart
  <2> QED
    BY <1>1, <2>1 DEF DetectorsOK
<1>2. CASE SlowBrokerStep \/ (\E c \in Calls : Call(c)) \/ (\E r \in Requests : Submit(r))
              \/ UNCHANGED vars
  <2>1. UNCHANGED <<ask, held, todo, acquiring, inPedestal, abandoned>>
    <3>1. CASE TriggerStep(SlowBroker)
      BY <3>1 DEF TriggerStep, PutStop, StopVerified, StopRefuted, PutStart, StartVerified,
                  Step, requests
    <3> QED
      BY <1>2, <3>1 DEF SlowBrokerStep, CompareEqual, CompareUnequal, SetSettings, SetGain,
        CallFails, Reply, Call, Submit, Want, vars, actors, requests, Step
  <2>2. \A v \in Writers : pc'[v] = pc[v]
    <3>1. CASE TriggerStep(SlowBroker)
      BY <1>0, <3>1, ControlAssumption
         DEF TriggerStep, PutStop, StopVerified, StopRefuted, PutStart, StartVerified, Step,
             Goto, Actors
    <3> QED
      BY <1>0, <1>2, <3>1, ControlAssumption
         DEF SlowBrokerStep, CompareEqual, CompareUnequal, SetSettings, CallFails, Reply, Call,
             Submit, vars, actors, Step, Goto, Actors
  <2> QED
    BY <1>1, <2>1, <2>2
<1>3. ASSUME NEW w \in Writers,
             WriterStep(w) \/ Settle(w) \/ Die(w) \/ Cut(w) \/ NoticeCut(w)
               \/ \E r \in Requests : Take(w, r)
      PROVE  DetectorsOK'
  <2> DEFINE Left(d) ==
        /\ d \in inPedestal' =>
             (d \in inPedestal /\ ~WillDisable(w, d)) \/ WillDisable(w, d)'
        /\ d \notin acquiring' =>
             (d \notin acquiring /\ ~WillStart(w, d)) \/ WillStart(w, d)'
  <2>0. w \in Actors
    BY DEF Actors
  <2>1. abandoned \subseteq abandoned' /\ ask' = ask
    <3>1. abandoned \subseteq abandoned'
      BY <1>3 DEF WriterStep, TriggerStep, PutStop, StopVerified, StopRefuted, PutStart,
         StartVerified, Pedestal, ReadGain, SwitchGain, RestoreGain, SwitchMode, SendRetrieve,
         OpenRecord, SaveRecord, StopDetector, Acquire, ApplyConfig, StartDetector,
         PowerOnFails, Fail, Settle, Die, Cut, NoticeCut, Take, Leave
    <3> QED
      BY <1>3, <3>1, OthersStay
  <2> SUFFICES ASSUME NEW d \in Detectors \ abandoned' PROVE Left(d)
    BY <1>3, <2>1, OthersStay, DetectorsStay
  <2>2. CASE TriggerStep(w)
    BY <1>0, <2>0, <2>1, <2>2, OfWriter
       DEF TriggerStep, PutStop, StopVerified, StopRefuted, PutStart, StartVerified, Step, Goto,
           WillDisable, WillStart, ByMode, PowerOn
  <2>3. CASE OpenRecord(w) \/ SaveRecord(w)
    BY <2>3 DEF OpenRecord, SaveRecord, Step, WillDisable, WillStart, ByMode, PowerOn
  <2>4. ASSUME NEW e \in Detectors,
               ReadGain(w, e) \/ SwitchGain(w, e) \/ RestoreGain(w, e) \/ SendRetrieve(w, e)
        PROVE  Left(d)
    BY <2>4 DEF ReadGain, SwitchGain, RestoreGain, SetGain, SendRetrieve, Turn,
                WillDisable, WillStart, ByMode, PowerOn, Known
  <2>5. ASSUME NEW e \in Detectors, SwitchMode(w, e) PROVE Left(d)
    <3>1. PICK p \in ByMode : Turn(w, p, e)
      BY <2>5 DEF SwitchMode
    <3>2. Of(w)' = Of(w) /\ pc[w] = p
      BY <2>1, <3>1, OthersOf DEF Turn
    <3>3. \/ todo[w] = {e} /\ pc'[w] = AfterLoop(p) /\ todo'[w] = Of(w)
          \/ todo[w] # {e} /\ pc'[w] = p /\ todo'[w] = todo[w] \ {e}
      BY <1>0, <2>0, <3>1 DEF Turn, Goto
    <3>4. todo[w] \subseteq Of(w) /\ e \in todo[w]
      BY <3>1, <3>2, Busy DEF Turn, ByMode
    <3>5. /\ acquiring' = CASE p \in {"halt", "halt again"} -> acquiring \ {e}
                            [] p \in {"resume", "resume again"} -> acquiring \cup {e}
                            [] OTHER -> acquiring
          /\ inPedestal' = CASE p = "enable" -> inPedestal \cup {e}
                             [] p = "disable" -> inPedestal \ {e}
                             [] OTHER -> inPedestal
      BY <2>5, <3>2 DEF SwitchMode
    <3>6. CASE p \in {"halt", "enable", "resume"}
      BY <3>2, <3>3, <3>4, <3>5, <3>6
         DEF WillDisable, WillStart, ByMode, PowerOn, AfterLoop
    <3>7. CASE p \in {"halt again", "disable", "resume again"}
      BY <3>2, <3>3, <3>4, <3>5, <3>7
         DEF WillDisable, WillStart, ByMode, PowerOn, AfterLoop
    <3> QED
      BY <3>6, <3>7 DEF ByMode
  <2>6. CASE StopDetector(w) \/ ApplyConfig(w) \/ StartDetector(w) \/ PowerOnFails(w)
    <3>1. Of(w)' = Of(w)
      BY <2>1, <2>6, OthersOf DEF StopDetector, ApplyConfig, StartDetector, PowerOnFails, Step
    <3> QED
      BY <1>0, <2>0, <2>6, <3>1
         DEF StopDetector, ApplyConfig, StartDetector, PowerOnFails, Acquire, Step, Goto,
             WillDisable, WillStart, ByMode, PowerOn
  <2>7. CASE Fail(w) \/ Die(w) \/ NoticeCut(w)
    BY <2>7 DEF Fail, Die, NoticeCut, Leave, WillDisable, WillStart, ByMode
  <2>8. CASE Settle(w) \/ \E r \in Requests : Take(w, r)
    BY <2>8 DEF Settle, Take, Ends, WillDisable, WillStart, ByMode, PowerOn
  <2>9. CASE Cut(w)
    <3>1. Of(w)' = Of(w)
      BY <2>1, <2>9, OthersOf DEF Cut
    <3> QED
      BY <2>9, <3>1 DEF Cut, WillDisable, WillStart
  <2> QED
    BY <1>3, <2>2, <2>3, <2>4, <2>5, <2>6, <2>7, <2>8, <2>9 DEF WriterStep, Pedestal
<1> QED
  BY <1>2, <1>3 DEF Next

(* Whatever overlaps, a detector that is not acquiring, or in pedestal      *)
(* mode, is in the hands of a writer that will put it right, unless a       *)
(* fault ended one that was to.                                             *)
THEOREM DetectorsResume == Spec => []DetectorsGoOn
<1>1. Init => DetectorsOK
  BY DEF Init, DetectorsOK
<1>2. DetectorsOK => DetectorsGoOn
  BY DEF DetectorsOK, DetectorsGoOn, WillDisable, WillStart, ByMode
<1> QED
  BY <1>1, <1>2, AlwaysTyped, DetectorsKept, PTL DEF Spec

-----------------------------------------------------------------------------
(* What a step of writer w may do to d's gain mode: nothing, begin to       *)
(* switch it when no other does, switch it, or restore it.                  *)
Unswitched(w, d) ==
  /\ gain'[d] = gain[d]
  /\ Switching(w, d)' <=> Switching(w, d)
  /\ Switching(w, d) => original'[w][d] = original[w][d]

Begun(w, d) ==
  /\ ~Switching(w, d)
  /\ \A v \in Writers \ {w} : ~Switching(v, d)
  /\ gain'[d] = gain[d] /\ original'[w][d] = gain[d]

Switched(w, d) ==
  Switching(w, d) /\ Switching(w, d)' /\ original'[w][d] = original[w][d]

Restored(w, d) ==
  Switching(w, d) /\ ~Switching(w, d)' /\ gain'[d] = original[w][d]

LEMMA GainsStay ==
  ASSUME Typed, GainOK, NEW w \in Writers, ask' = ask, wanted' = wanted,
         unsettled \subseteq unsettled',
         \A v \in Writers \ {w} :
           pc'[v] = pc[v] /\ held'[v] = held[v] /\ todo'[v] = todo[v]
                          /\ original'[v] = original[v],
         \A d \in Detectors \ unsettled' :
           Unswitched(w, d) \/ Begun(w, d) \/ Switched(w, d) \/ Restored(w, d)
  PROVE  GainOK'
<1> SUFFICES ASSUME NEW d \in Detectors \ unsettled'
    PROVE  /\ (\A v \in Writers : ~Switching(v, d)') => gain'[d] = wanted'[d]
           /\ \A v \in Writers : Switching(v, d)' => original'[v][d] = wanted'[d]
           /\ \A u, v \in Writers : Switching(u, d)' /\ Switching(v, d)' => u = v
  BY DEF GainOK
<1>1. /\ (\A v \in Writers : ~Switching(v, d)) => gain[d] = wanted[d]
      /\ \A v \in Writers : Switching(v, d) => original[v][d] = wanted[d]
      /\ \A u, v \in Writers : Switching(u, d) /\ Switching(v, d) => u = v
  BY DEF GainOK
<1>2. \A v \in Writers \ {w} :
        (Switching(v, d)' <=> Switching(v, d)) /\ original'[v] = original[v]
  BY OthersOf DEF Switching
<1>3. CASE Unswitched(w, d)
  BY <1>1, <1>2, <1>3 DEF Unswitched
<1>4. CASE Begun(w, d)
  BY <1>1, <1>2, <1>4 DEF Begun
<1>5. CASE Switched(w, d)
  BY <1>1, <1>2, <1>5 DEF Switched
<1>6. CASE Restored(w, d)
  BY <1>1, <1>2, <1>6 DEF Restored
<1> QED
  BY <1>3, <1>4, <1>5, <1>6

LEMMA GainsKept == Typed /\ GainOK /\ [Next]_vars => GainOK'
<1> SUFFICES ASSUME Typed, GainOK, [Next]_vars PROVE GainOK'
  OBVIOUS
<1> USE DEF machine, history
<1>0. /\ pc \in [Actors -> Places]
      /\ todo \in [Writers -> SUBSET Detectors]
      /\ unsettled \subseteq Detectors
      /\ original \in [Writers -> [Detectors -> Gains]]
      /\ gain \in [Detectors -> Gains] /\ wanted \in [Detectors -> Gains]
  BY DEF Typed, ActorsOK, EffectsOK
<1>1. ASSUME UNCHANGED <<ask, held, todo, original>>, \A v \in Writers : pc'[v] = pc[v]
      PROVE  \A v \in Writers, d \in Detectors : Switching(v, d)' <=> Switching(v, d)
  BY <1>1, OthersOf DEF Switching
<1>2. CASE (TriggerStep(SlowBroker) \/ CompareUnequal \/ CallFails \/ Reply)
              \/ (\E c \in Calls : Call(c)) \/ (\E r \in Requests : Submit(r))
              \/ UNCHANGED vars
  <2>1. UNCHANGED <<ask, held, todo, original, gain, unsettled, wanted>>
    <3>1. CASE TriggerStep(SlowBroker)
      BY <3>1 DEF TriggerStep, PutStop, StopVerified, StopRefuted, PutStart, StartVerified,
                  Step, requests
    <3> QED
      BY <1>2, <3>1 DEF CompareUnequal, CallFails, Reply, Call, Submit, vars, actors,
                        requests, Step
  <2>2. \A v \in Writers : pc'[v] = pc[v]
    <3>1. CASE TriggerStep(SlowBroker)
      BY <1>0, <3>1, ControlAssumption
         DEF TriggerStep, PutStop, StopVerified, StopRefuted, PutStart, StartVerified, Step,
             Goto, Actors
    <3> QED
      BY <1>0, <1>2, <3>1, ControlAssumption
         DEF CompareUnequal, CallFails, Reply, Call, Submit, vars, actors, Step, Goto, Actors
  <2>3. \A v \in Writers, d \in Detectors : Switching(v, d)' <=> Switching(v, d)
    BY <1>1, <2>1, <2>2
  <2> QED
    BY <2>1, <2>3 DEF GainOK
<1>3. CASE CompareEqual \/ SetSettings
  <2>1. /\ UNCHANGED <<ask, held, todo, original>>
        /\ Want(call.detector, call.gain)
        /\ pc[SlowBroker] # "idle"
        /\ \A v \in Writers : pc'[v] = pc[v]
    BY <1>0, <1>3, ControlAssumption
       DEF CompareEqual, SetSettings, Step, Goto, Actors, requests
  <2>2. call.detector \in Detectors
    <3>1. call \in Calls
      BY <2>1 DEF Typed, ActorsOK
    <3> QED
      BY <3>1 DEF Calls
  <2>3. gain' = [gain EXCEPT ![call.detector] = call.gain]
    BY <1>0, <1>3 DEF CompareEqual, SetSettings, SetGain
  <2>4. \A v \in Writers, d \in Detectors : Switching(v, d)' <=> Switching(v, d)
    BY <1>1, <2>1
  <2>5. /\ wanted' = [wanted EXCEPT ![call.detector] = call.gain]
        /\ unsettled' = IF \E v \in Writers : Switching(v, call.detector)
                          THEN unsettled \cup {call.detector}
                          ELSE unsettled \ {call.detector}
    BY <2>1 DEF Want
  <2> SUFFICES ASSUME NEW d \in Detectors \ unsettled'
      PROVE  /\ (\A v \in Writers : ~Switching(v, d)') => gain'[d] = wanted'[d]
             /\ \A v \in Writers : Switching(v, d)' => original'[v][d] = wanted'[d]
             /\ \A u, v \in Writers : Switching(u, d)' /\ Switching(v, d)' => u = v
    BY DEF GainOK
  <2>6. CASE d = call.detector
    <3>1. \A v \in Writers : ~Switching(v, d)
      BY <2>5, <2>6
    <3> QED
      BY <1>0, <2>2, <2>3, <2>4, <2>5, <2>6, <3>1
  <2>7. CASE d # call.detector
    <3>1. d \notin unsettled /\ gain'[d] = gain[d] /\ wanted'[d] = wanted[d]
            /\ original' = original
      BY <1>0, <2>1, <2>3, <2>5, <2>7
    <3> QED
      BY <2>4, <3>1 DEF GainOK
  <2> QED
    BY <2>6, <2>7
<1>4. ASSUME NEW w \in Writers,
             WriterStep(w) \/ Settle(w) \/ Die(w) \/ Cut(w) \/ NoticeCut(w)
               \/ \E r \in Requests : Take(w, r)
      PROVE  GainOK'
  <2> DEFINE Fine(d) ==
        Unswitched(w, d) \/ Begun(w, d) \/ Switched(w, d) \/ Restored(w, d)
  <2>0. w \in Actors
    BY DEF Actors
  <2>1. unsettled \subseteq unsettled' /\ wanted' = wanted /\ ask' = ask
    <3>1. ASSUME TriggerStep(w) PROVE unsettled \subseteq unsettled' /\ wanted' = wanted
      BY <3>1 DEF TriggerStep, PutStop, StopVerified, StopRefuted, PutStart, StartVerified
    <3>2. ASSUME Pedestal(w) PROVE unsettled \subseteq unsettled' /\ wanted' = wanted
      BY <3>2 DEF Pedestal, ReadGain, SwitchGain, RestoreGain, SwitchMode, SendRetrieve,
                  OpenRecord, SaveRecord
    <3>3. unsettled \subseteq unsettled' /\ wanted' = wanted
      BY <1>4, <3>1, <3>2 DEF WriterStep, StopDetector, Acquire, ApplyConfig, StartDetector,
                  PowerOnFails, Fail, Settle, Die, Cut, NoticeCut, Take, Leave
    <3> QED
      BY <1>4, <3>3, OthersStay
  <2> SUFFICES ASSUME NEW d \in Detectors \ unsettled' PROVE Fine(d)
    BY <1>4, <2>1, OthersStay, GainsStay
  <2>2. CASE TriggerStep(w)
    BY <1>0, <2>0, <2>2
       DEF TriggerStep, PutStop, StopVerified, StopRefuted, PutStart, StartVerified, Step, Goto,
           Unswitched, Switching, ByGains
  <2>3. CASE OpenRecord(w) \/ SaveRecord(w)
    BY <1>0, <2>0, <2>3 DEF OpenRecord, SaveRecord, Step, Goto, Unswitched, Switching, ByGains
  <2>4. ASSUME NEW e \in Detectors,
               ReadGain(w, e) \/ SwitchGain(w, e) \/ RestoreGain(w, e)
        PROVE  Fine(d)
    <3>1. PICK p \in ByGains : Turn(w, p, e)
      BY <2>4 DEF ReadGain, SwitchGain, RestoreGain, ByGains, Known
    <3>2. Of(w)' = Of(w) /\ pc[w] = p
      BY <2>1, <3>1, OthersOf DEF Turn
    <3>3. \/ todo[w] = {e} /\ pc'[w] = AfterLoop(p) /\ todo'[w] = Of(w)
          \/ todo[w] # {e} /\ pc'[w] = p /\ todo'[w] = todo[w] \ {e}
      BY <1>0, <2>0, <3>1 DEF Turn, Goto
    <3>4. todo[w] \subseteq Of(w) /\ e \in todo[w]
      BY <3>1, <3>2, Busy DEF Turn, ByGains
    <3>5. CASE ReadGain(w, e)
      <4>1. p = "read" /\ original'[w] = [original[w] EXCEPT ![e] = gain[e]] /\ gain' = gain
        BY <1>0, <3>2, <3>5 DEF ReadGain, Turn
      <4>2. CASE d = e
        <5>1. \A v \in Writers \ {w} : ~Switching(v, d)
          BY <3>5, <4>2 DEF ReadGain
        <5>2. ~Switching(w, d)
          BY <3>2, <3>4, <4>1, <4>2 DEF Switching
        <5>3. original'[w][d] = gain[d]
          BY <1>0, <4>1, <4>2
        <5> QED
          BY <4>1, <5>1, <5>2, <5>3 DEF Begun
      <4>3. CASE d # e
        <5>1. Switching(w, d)' <=> Switching(w, d)
          BY <3>2, <3>3, <3>4, <4>1, <4>3 DEF Switching, ByGains, AfterLoop
        <5> QED
          BY <1>0, <4>1, <4>3, <5>1 DEF Unswitched
      <4> QED
        BY <4>2, <4>3
    <3>6. CASE SwitchGain(w, e)
      <4>1. /\ p \in Known /\ original' = original
            /\ \A f \in Detectors \ {e} : gain'[f] = gain[f]
        BY <1>0, <3>2, <3>6 DEF SwitchGain, SetGain, Turn
      <4>2. \A f \in Detectors : Switching(w, f) <=> f \in Of(w)
        BY <3>2, <4>1 DEF Switching, ByGains, Known
      <4>3. \A f \in Detectors : Switching(w, f)' <=> f \in Of(w)
        BY <3>2, <3>3, <4>1 DEF Switching, ByGains, Known, AfterLoop
      <4> QED
        BY <3>4, <4>1, <4>2, <4>3 DEF Switched, Unswitched
    <3>7. CASE RestoreGain(w, e)
      <4>1. /\ p = "restore" /\ original' = original
            /\ gain' = [gain EXCEPT ![e] = original[w][e]]
        BY <1>0, <3>2, <3>7 DEF RestoreGain, SetGain, Turn
      <4>2. \A f \in Detectors : Switching(w, f) <=> f \in todo[w]
        BY <3>2, <3>4, <4>1 DEF Switching, ByGains
      <4>3. \A f \in Detectors : Switching(w, f)' <=> f \in todo[w] \ {e}
        BY <3>2, <3>3, <3>4, <4>1 DEF Switching, ByGains, AfterLoop
      <4>4. CASE d = e
        BY <1>0, <3>4, <4>1, <4>2, <4>3, <4>4 DEF Restored
      <4>5. CASE d # e
        BY <1>0, <4>1, <4>2, <4>3, <4>5 DEF Unswitched
      <4> QED
        BY <4>4, <4>5
    <3> QED
      BY <2>4, <3>5, <3>6, <3>7
  <2>5. ASSUME NEW e \in Detectors, SwitchMode(w, e) \/ SendRetrieve(w, e) PROVE Fine(d)
    <3>1. gain' = gain /\ original' = original
      BY <2>5 DEF SwitchMode, SendRetrieve
    <3>2. pc[w] \notin ByGains /\ pc'[w] \notin ByGains
      <4>1. PICK q \in ByMode \cup {"send"} : Turn(w, q, e)
        BY <2>5 DEF SwitchMode, SendRetrieve
      <4>2. pc[w] = q /\ pc'[w] \in {q, AfterLoop(q)}
        BY <1>0, <2>0, <4>1 DEF Turn, Goto
      <4>3. q \notin ByGains /\ AfterLoop(q) \notin ByGains
        BY DEF AfterLoop, ByMode, ByGains
      <4> QED
        BY <4>2, <4>3
    <3> QED
      BY <3>1, <3>2 DEF Unswitched, Switching
  <2>6. CASE StopDetector(w) \/ ApplyConfig(w) \/ StartDetector(w) \/ PowerOnFails(w)
    BY <1>0, <2>0, <2>6 DEF StopDetector, ApplyConfig, StartDetector, PowerOnFails, Acquire,
      Step, Goto, PowerOn, Unswitched, Switching, ByGains
  <2>7. CASE Fail(w) \/ Die(w) \/ NoticeCut(w)
    <3>1. gain' = gain /\ d \in Detectors /\ ~Switching(w, d)
      BY <2>7 DEF Fail, Die, NoticeCut, Leave
    <3>2. pc'[w] \in {"failed", "idle"}
      BY <1>0, <2>0, <2>7 DEF Fail, Die, NoticeCut, Forget, Step, Goto
    <3> QED
      BY <3>1, <3>2 DEF Unswitched, Switching, ByGains
  <2>8. CASE Settle(w)
    BY <1>0, <2>0, <2>8 DEF Settle, Forget, Goto, Ends, Unswitched, Switching, ByGains
  <2>9. ASSUME NEW r \in Requests, Take(w, r) PROVE Fine(d)
    <3>1. gain' = gain /\ pc[w] = "idle"
      BY <2>9 DEF Take
    <3>2. pc'[w] \in ByGains => pc'[w] = "read" /\ todo'[w] = Of(w)'
      <4>1. ask[r] \in Asks /\ held'[w] = r /\ ask' = ask /\ todo'[w] = ask[r].detectors
        BY <1>0, <2>9 DEF Take, Typed, ActorsOK
      <4>2. ask[r].kind \in {"power on", "gains", "pedestal mode"}
        BY <4>1 DEF Asks
      <4>3. pc'[w] = FirstStep(ask[r].kind)
        BY <1>0, <2>0, <2>9 DEF Take, Goto
      <4> QED
        BY <4>1, <4>2, <4>3, OfWriter DEF FirstStep, ByGains
    <3> QED
      BY <3>1, <3>2 DEF Unswitched, Switching, ByGains
  <2>10. CASE Cut(w)
    <3>1. Of(w)' = Of(w)
      BY <2>1, <2>10, OthersOf DEF Cut
    <3> QED
      BY <2>10, <3>1 DEF Cut, Unswitched, Switching
  <2> QED
    BY <1>4, <2>2, <2>3, <2>4, <2>5, <2>6, <2>7, <2>8, <2>9, <2>10 DEF WriterStep, Pedestal
<1> QED
  BY <1>2, <1>3, <1>4 DEF Next, SlowBrokerStep

(* Pedestals give every detector back the gain mode its user last set,      *)
(* unless two actors switched it at a time or a fault ended one that did.   *)
THEOREM GainsRestored == Spec => []GainIsWanted
<1>1. Init => GainOK
  BY DEF Init, GainOK, Switching, ByGains, Actors
<1>2. GainOK => GainIsWanted
  BY DEF GainOK, GainIsWanted
<1> QED
  BY <1>1, <1>2, AlwaysTyped, GainsKept, PTL DEF Spec

-----------------------------------------------------------------------------
(* A step of writer w that neither takes nor gives up a request, and        *)
(* neither records nor sends anything.                                      *)
Plain(w) ==
  /\ UNCHANGED <<ask, stage, held, attempt, mine, linked, record, sent, orphaned>>
  /\ \A v \in Writers \ {w} : pc'[v] = pc[v] /\ todo'[v] = todo[v]
  /\ pc[w] \notin {"idle"} \cup Ends
  /\ pc'[w] \notin {"idle", "save", "send"}
  /\ pc[w] = "send" => pc'[w] = "failed"
  /\ pc'[w] = "record" => todo'[w] = Of(w)
  /\ pc'[w] = "succeeded" => pc[w] = "starting"
  /\ pc'[w] \in Stops \cup PowerOn \cup Starts => pc[w] \in Stops \cup PowerOn \cup Starts

(* A step that does not concern the writers' requests at all.               *)
Aside ==
  /\ UNCHANGED <<ask, stage, held, attempt, mine, linked, todo, record, sent, orphaned>>
  /\ \A v \in Writers : pc'[v] = pc[v]

LEMMA Steps ==
  Typed /\ [Next]_vars =>
    \/ Aside
    \/ \E r \in Requests : Submit(r)
    \/ \E w \in Writers :
         \/ Plain(w) \/ OpenRecord(w) \/ SaveRecord(w) \/ Settle(w) \/ Die(w) \/ Cut(w)
         \/ NoticeCut(w)
         \/ \E d \in Detectors : SendRetrieve(w, d)
         \/ \E r \in Requests : Take(w, r)
<1> SUFFICES ASSUME Typed, [Next]_vars, \A r \in Requests : ~Submit(r)
             PROVE  \/ Aside
                    \/ \E w \in Writers :
                         \/ Plain(w) \/ OpenRecord(w) \/ SaveRecord(w)
                         \/ Settle(w) \/ Die(w) \/ Cut(w) \/ NoticeCut(w)
                         \/ \E d \in Detectors : SendRetrieve(w, d)
                         \/ \E r \in Requests : Take(w, r)
  OBVIOUS
<1> USE DEF requests, files, history
<1>0. pc \in [Actors -> Places] /\ todo \in [Writers -> SUBSET Detectors]
  BY DEF Typed, ActorsOK
<1>1. ASSUME SlowBrokerStep \/ (\E c \in Calls : Call(c)) \/ UNCHANGED vars PROVE Aside
  <2>1. CASE TriggerStep(SlowBroker)
    BY <1>0, <2>1, ControlAssumption
       DEF TriggerStep, PutStop, StopVerified, StopRefuted, PutStart, StartVerified, Step, Goto,
           Actors, Aside
  <2>2. CASE CompareEqual \/ CompareUnequal \/ SetSettings \/ CallFails
    BY <1>0, <2>2, ControlAssumption
       DEF CompareEqual, CompareUnequal, SetSettings, CallFails, Want, Step, Goto, Actors, Aside
  <2>3. CASE Reply \/ (\E c \in Calls : Call(c)) \/ UNCHANGED vars
    BY <1>0, <2>3, ControlAssumption DEF Reply, Call, vars, actors, Goto, Actors, Aside
  <2> QED
    BY <1>1, <2>1, <2>2, <2>3 DEF SlowBrokerStep
<1>2. ASSUME NEW w \in Writers, NEW from, NEW to, Step(w, from, to),
             UNCHANGED <<record, sent, orphaned>>,
             from \notin {"idle"} \cup Ends, to \notin {"idle", "save", "send", "record"},
             from = "send" => to = "failed", to = "succeeded" => from = "starting",
             to \in Stops \cup PowerOn \cup Starts => from \in Stops \cup PowerOn \cup Starts
      PROVE  Plain(w)
  BY <1>0, <1>2 DEF Step, Goto, Plain, Actors
<1>3. ASSUME NEW w \in Writers, TriggerStep(w) PROVE Plain(w)
  <2> USE DEF Stops, PowerOn, Starts, Ends
  <2>1. UNCHANGED <<record, sent, orphaned>>
    BY <1>3 DEF TriggerStep, PutStop, StopVerified, StopRefuted, PutStart, StartVerified
  <2>2. PICK from, to :
          /\ Step(w, from, to)
          /\ \/ from = "stop trigger" /\ to = "stopping"
             \/ from = "stopping" /\ to = "stop detector"
             \/ from \in Stops \cup Starts /\ to = "failed"
             \/ from = "start trigger" /\ to = "starting"
             \/ from = "give up" /\ to = "giving up"
             \/ from = "starting" /\ to = "succeeded"
    BY <1>3, ControlAssumption
       DEF TriggerStep, PutStop, StopVerified, StopRefuted, PutStart, StartVerified
  <2> QED
    BY <1>2, <2>1, <2>2
<1>4. ASSUME NEW w \in Writers,
             StopDetector(w) \/ ApplyConfig(w) \/ StartDetector(w) \/ PowerOnFails(w) \/ Fail(w)
      PROVE  Plain(w)
  <2>1. UNCHANGED <<record, sent, orphaned>>
    BY <1>4 DEF StopDetector, ApplyConfig, StartDetector, PowerOnFails, Fail, Acquire
  <2>2. PICK from, to :
          /\ Step(w, from, to)
          /\ \/ from \in PowerOn /\ to \in {"configure", "start detector", "start trigger", "give up"}
             \/ from \in Thread /\ to = "failed"
    BY <1>4 DEF StopDetector, ApplyConfig, StartDetector, PowerOnFails, Fail, PowerOn
  <2> QED
    BY <1>2, <2>1, <2>2 DEF Thread, Ends, Stops, Starts, Settings, PowerOn, ByGains, ByMode
<1>5. ASSUME NEW w \in Writers, NEW d \in Detectors,
             ReadGain(w, d) \/ SwitchGain(w, d) \/ RestoreGain(w, d) \/ SwitchMode(w, d)
      PROVE  Plain(w)
  <2>1. UNCHANGED <<record, sent, orphaned>>
    BY <1>5 DEF ReadGain, SwitchGain, RestoreGain, SwitchMode
  <2>2. PICK p \in ByGains \cup ByMode : Turn(w, p, d)
    BY <1>5 DEF ReadGain, SwitchGain, RestoreGain, SwitchMode, ByGains, Known
  <2>3. /\ AfterLoop(p) \in ByGains \cup ByMode \cup {"record"}
        /\ AfterLoop(p) # "idle" /\ AfterLoop(p) # "save" /\ AfterLoop(p) # "send"
    BY DEF AfterLoop, ByGains, ByMode
  <2>4. /\ UNCHANGED <<ask, stage, held, attempt, mine, linked>>
        /\ pc[w] = p
        /\ \A v \in Writers \ {w} : pc'[v] = pc[v] /\ todo'[v] = todo[v]
        /\ \/ pc'[w] = p
           \/ pc'[w] = AfterLoop(p) /\ todo'[w] = Of(w)
    BY <1>0, <2>2 DEF Turn, Goto, Actors
  <2> QED
    BY <2>1, <2>3, <2>4 DEF Plain, ByGains, ByMode, Ends, Stops, PowerOn, Starts
<1> QED
  BY <1>1, <1>3, <1>4, <1>5 DEF Next, WriterStep, Pedestal

-----------------------------------------------------------------------------
(* Where one attempt was made at a request, one writer works on it.         *)
LEMMA OneAttempt ==
  ASSUME Typed, RangeOK, NEW v \in Writers, NEW w \in Writers,
         pc[v] # "idle", pc[w] # "idle", held[v] = held[w], attempt[held[w]] = 1
  PROVE  v = w
<1>1. mine[v] = 1 /\ mine[w] = 1
  BY DEF Typed, ActorsOK
<1> QED
  BY <1>1 DEF RangeOK

LEMMA RangeKept == Typed /\ RangeOK /\ [Next]_vars => RangeOK'
<1> SUFFICES ASSUME Typed, RangeOK, [Next]_vars PROVE RangeOK'
  OBVIOUS
<1>0. /\ pc \in [Actors -> Places] /\ held \in [Writers -> Requests \cup {NoRequest}]
      /\ mine \in [Writers -> Nat] /\ attempt \in [Requests -> Nat]
      /\ record \in [Requests -> {0, Torn} \cup Attempts]
      /\ sent \subseteq Requests \X Detectors \X Attempts
  BY DEF Typed, ActorsOK, EffectsOK
<1>1. CASE Aside \/ \E r \in Requests : Submit(r)
  <2>1. UNCHANGED <<held, attempt, mine, record, sent>> /\ \A v \in Writers : pc'[v] = pc[v]
    BY <1>1 DEF Aside, Submit, actors, files
  <2> QED
    BY <2>1 DEF RangeOK
<1> DEFINE Stays(v) ==
      pc'[v] # "idle" =>
        /\ pc[v] # "idle" /\ held'[v] = held[v] /\ mine'[v] = mine[v]
        /\ pc'[v] = "send" => pc[v] = "send"
        /\ pc[v] \in {"send", "succeeded", "failed"}
             => pc'[v] \in {"send", "succeeded", "failed"}
<1>2. ASSUME UNCHANGED <<attempt, record, sent>>, \A v \in Writers : Stays(v)
      PROVE  RangeOK'
  BY <1>2 DEF RangeOK
<1>3. ASSUME NEW w \in Writers, Plain(w) PROVE RangeOK'
  <2>1. UNCHANGED <<attempt, record, sent>> /\ \A v \in Writers : Stays(v)
    BY <1>3 DEF Plain, Ends
  <2> QED
    BY <1>2, <2>1
<1>4. ASSUME NEW w \in Writers, Settle(w) \/ Die(w) \/ NoticeCut(w) PROVE RangeOK'
  <2>1. UNCHANGED <<attempt, record, sent>> /\ pc'[w] = "idle"
    BY <1>0, <1>4 DEF Settle, Die, NoticeCut, Forget, Goto, Actors, files
  <2>2. \A v \in Writers \ {w} :
          pc'[v] = pc[v] /\ held'[v] = held[v] /\ mine'[v] = mine[v]
    BY <1>0, <1>4 DEF Settle, Die, NoticeCut, Forget, Goto, Actors
  <2>3. \A v \in Writers : Stays(v)
    BY <2>1, <2>2
  <2> QED
    BY <1>2, <2>1, <2>3
<1>5. ASSUME NEW w \in Writers, Cut(w) PROVE RangeOK'
  <2>1. /\ UNCHANGED <<attempt, record, sent, pc, held, mine>> /\ pc[w] # "idle"
    BY <1>5 DEF Cut, Unlink, files
  <2> QED
    BY <2>1 DEF RangeOK
<1>6. ASSUME NEW w \in Writers, OpenRecord(w) \/ SaveRecord(w) PROVE RangeOK'
  <2>1. /\ UNCHANGED <<held, attempt, mine, sent>>
        /\ pc[w] \in {"record", "save"} /\ pc[w] # "idle"
        /\ pc'[w] \in {"save", "send"}
        /\ \A v \in Writers \ {w} : pc'[v] = pc[v]
        /\ pc'[w] = "send" => record'[held[w]] = mine[w]
        /\ \A r \in Requests \ {held[w]} : record'[r] = record[r]
    <3>1. held[w] \in Requests
      BY <1>6, Busy DEF OpenRecord, SaveRecord, Step
    <3> QED
      BY <1>0, <1>6, <3>1 DEF OpenRecord, SaveRecord, Step, Goto, Actors, machine, history
  <2>2. held[w] \in Requests /\ mine[w] \in 1..attempt[held[w]]
    BY <2>1 DEF Typed, ActorsOK
  <2>3. \A v \in Writers : pc'[v] = "send" /\ attempt[held[v]] = 1 => record'[held[v]] = 1
    <3> SUFFICES ASSUME NEW v \in Writers, pc'[v] = "send", attempt[held[v]] = 1
                 PROVE  record'[held[v]] = 1
      OBVIOUS
    <3>1. CASE v = w
      BY <2>1, <2>2, <3>1
    <3>2. CASE v # w
      <4>1. pc[v] = "send" /\ held[v] # held[w]
        BY <2>1, <3>2, OneAttempt
      <4>2. held[v] \in Requests
        BY <4>1, Busy
      <4> QED
        BY <2>1, <4>1, <4>2 DEF RangeOK
    <3> QED
      BY <3>1, <3>2
  <2>4. \A m \in sent : attempt[m[1]] = 1 => m[1] # held[w]
    <3> SUFFICES ASSUME NEW m \in sent, attempt[m[1]] = 1, m[1] = held[w] PROVE FALSE
      OBVIOUS
    <3>1. m[3] \in Attempts /\ m[3] <= attempt[m[1]]
      BY <1>0 DEF RangeOK
    <3>2. mine[w] = m[3]
      BY <2>2, <3>1 DEF Attempts
    <3> QED
      BY <2>1, <3>2 DEF RangeOK
  <2>5. \A m \in sent : attempt[m[1]] = 1 => record'[m[1]] = 1
    BY <1>0, <2>1, <2>4 DEF RangeOK
  <2>6. \A m \in sent, v \in Writers :
          pc'[v] # "idle" /\ held[v] = m[1] /\ mine[v] = m[3]
            => pc'[v] \in {"send", "succeeded", "failed"}
    BY <2>1 DEF RangeOK
  <2>7. \A u, v \in Writers :
          pc'[u] # "idle" /\ pc'[v] # "idle" /\ held[u] = held[v] /\ mine[u] = mine[v]
            => u = v
    BY <2>1 DEF RangeOK
  <2> QED
    BY <2>1, <2>3, <2>5, <2>6, <2>7 DEF RangeOK
<1>7. ASSUME NEW w \in Writers, NEW d \in Detectors, SendRetrieve(w, d) PROVE RangeOK'
  <2>1. /\ UNCHANGED <<held, attempt, mine, record>>
        /\ pc[w] = "send" /\ pc[w] # "idle" /\ pc'[w] \in {"send", "succeeded"}
        /\ \A v \in Writers \ {w} : pc'[v] = pc[v]
        /\ sent' = sent \cup {<<held[w], d, mine[w]>>}
    BY <1>0, <1>7 DEF SendRetrieve, Turn, AfterLoop, Goto, Actors
  <2>2. held[w] \in Requests /\ mine[w] \in 1..attempt[held[w]]
    BY <2>1 DEF Typed, ActorsOK
  <2>3. \A v \in Writers :
          (pc'[v] # "idle" => pc[v] # "idle") /\ (pc'[v] = "send" => pc[v] = "send")
    BY <2>1
  <2>4. ASSUME NEW m \in sent'
        PROVE  /\ m[3] <= attempt[m[1]]
               /\ attempt[m[1]] = 1 => record[m[1]] = 1
               /\ \A v \in Writers : pc'[v] # "idle" /\ held[v] = m[1] /\ mine[v] = m[3]
                    => pc'[v] \in {"send", "succeeded", "failed"}
    <3>1. CASE m \in sent
      BY <2>1, <3>1 DEF RangeOK
    <3>2. CASE m = <<held[w], d, mine[w]>>
      BY <1>0, <2>1, <2>2, <2>3, <3>2 DEF RangeOK
    <3> QED
      BY <2>1, <3>1, <3>2
  <2> QED
    BY <2>1, <2>3, <2>4 DEF RangeOK
<1>8. ASSUME NEW w \in Writers, NEW r \in Requests, Take(w, r) PROVE RangeOK'
  <2>1. /\ UNCHANGED <<record, sent>>
        /\ attempt' = [attempt EXCEPT ![r] = attempt[r] + 1]
        /\ held'[w] = r /\ mine'[w] = attempt[r] + 1
        /\ \A v \in Writers \ {w} :
             pc'[v] = pc[v] /\ held'[v] = held[v] /\ mine'[v] = mine[v]
    BY <1>0, <1>8 DEF Take, Goto, Actors, files
  <2>2. pc'[w] # "send"
    <3>1. ask[r].kind \in {"power on", "gains", "pedestal mode"}
      <4>1. ask[r] \in Asks
        BY DEF Typed, ActorsOK
      <4> QED
        BY <4>1 DEF Asks
    <3> QED
      BY <1>0, <1>8, <3>1 DEF Take, Goto, Actors, FirstStep
  <2>3. \A v \in Writers : pc[v] # "idle" =>
          held[v] \in Requests /\ mine[v] \in 1..attempt[held[v]]
    BY DEF Typed, ActorsOK
  <2>4. \A u, v \in Writers :
          pc'[u] # "idle" /\ pc'[v] # "idle" /\ held'[u] = held'[v] /\ mine'[u] = mine'[v]
            => u = v
    BY <1>0, <2>1, <2>3 DEF RangeOK
  <2>5. \A v \in Writers : pc'[v] = "send" /\ attempt'[held'[v]] = 1 => record[held'[v]] = 1
    <3> SUFFICES ASSUME NEW v \in Writers, pc'[v] = "send", attempt'[held'[v]] = 1
                 PROVE  record[held'[v]] = 1
      OBVIOUS
    <3>1. v # w /\ pc[v] = "send" /\ held'[v] = held[v]
      BY <2>1, <2>2
    <3>2. held[v] # r
      BY <1>0, <2>1, <2>3, <3>1
    <3> QED
      BY <1>0, <2>1, <2>3, <3>1, <3>2 DEF RangeOK
  <2>6. ASSUME NEW m \in sent
        PROVE  /\ m[3] <= attempt'[m[1]]
               /\ attempt'[m[1]] = 1 => record[m[1]] = 1
               /\ \A v \in Writers : pc'[v] # "idle" /\ held'[v] = m[1] /\ mine'[v] = m[3]
                    => pc'[v] \in {"send", "succeeded", "failed"}
    <3>1. m[1] \in Requests /\ m[3] \in Nat /\ m[3] >= 1 /\ m[3] <= attempt[m[1]]
      BY <1>0, ControlAssumption DEF RangeOK, Attempts
    <3> QED
      BY <1>0, <2>1, <3>1 DEF RangeOK
  <2> QED
    BY <2>1, <2>4, <2>5, <2>6 DEF RangeOK
<1> QED
  BY <1>1, <1>3, <1>4, <1>5, <1>6, <1>7, <1>8, Steps

(* Detector writers find in run_file_json the pulse ids they were sent,     *)
(* unless the pedestal was taken twice.                                     *)
THEOREM RangeRecorded == Spec => []RetrieveFindsItsRange
<1>1. Init => RangeOK
  BY DEF Init, RangeOK, Actors
<1>2. Typed /\ RangeOK => RetrieveFindsItsRange
  <2> SUFFICES ASSUME Typed, RangeOK, NEW m \in sent, attempt[m[1]] = 1
               PROVE  record[m[1]] = m[3]
    BY DEF RetrieveFindsItsRange
  <2>1. m[3] \in Attempts /\ m[3] <= 1 /\ record[m[1]] = 1
    BY DEF Typed, EffectsOK, RangeOK
  <2> QED
    BY <2>1 DEF Attempts
<1> QED
  BY <1>1, <1>2, AlwaysTyped, RangeKept, PTL DEF Spec

-----------------------------------------------------------------------------
(* What a writer's work is stays true while nobody else holds its request.  *)
LEMMA OthersWork ==
  ASSUME NEW w \in Writers, NEW v \in Writers \ {w}, WorkOK(v), pc[v] # "idle",
         ask' = ask, sent \subseteq sent',
         pc'[v] = pc[v], held'[v] = held[v], mine'[v] = mine[v], todo'[v] = todo[v],
         linked'[v] = linked[v], stage'[held[v]] = stage[held[v]],
         record'[held[v]] = record[held[v]],
         \A u \in Writers \ {w} : pc'[u] = pc[u] /\ held'[u] = held[u],
         pc'[w] = "idle" \/ held'[w] # held[v]
  PROVE  WorkOK(v)'
<1>1. Of(v)' = Of(v)
  BY OthersOf
<1>2. \A u \in Writers : pc'[u] # "idle" /\ held'[u] = held[v] => u = v
  BY DEF WorkOK
<1> QED
  BY <1>1, <1>2 DEF WorkOK, Recorded

LEMMA SentKept == Typed /\ SentOK /\ [Next]_vars => SentOK'
<1> SUFFICES ASSUME Typed, SentOK, [Next]_vars PROVE SentOK'
  OBVIOUS
<1> USE DEF files, machine, history
<1>0. /\ ask \in [Requests -> Asks] /\ stage \in [Requests -> W!Stages]
      /\ pc \in [Actors -> Places] /\ held \in [Writers -> Requests \cup {NoRequest}]
      /\ mine \in [Writers -> Nat] /\ attempt \in [Requests -> Nat]
      /\ linked \in [Writers -> BOOLEAN] /\ todo \in [Writers -> SUBSET Detectors]
      /\ record \in [Requests -> {0, Torn} \cup Attempts]
      /\ orphaned \subseteq Requests
      /\ \A w \in Writers : pc[w] # "idle" => held[w] \in Requests
  BY DEF Typed, ActorsOK, EffectsOK
<1>1. CASE Aside
  <2>1. \A w \in Writers : Of(w)' = Of(w)
    BY <1>1, OthersOf DEF Aside
  <2>2. \A w \in Writers : PowerOnOK(w) => PowerOnOK(w)'
    BY <1>1 DEF Aside, PowerOnOK
  <2>3. \A w \in Writers : \A done : Recorded(w, done) => Recorded(w, done)'
    BY <1>1 DEF Aside, Recorded
  <2>4. \A w \in Writers : WorkOK(w) => WorkOK(w)'
    BY <1>1, <2>1, <2>3 DEF Aside, WorkOK
  <2> QED
    BY <1>1, <2>2, <2>4 DEF Aside, SentOK, ConfirmedIsSent
<1>2. ASSUME NEW r \in Requests, Submit(r) PROVE SentOK'
  <2>1. /\ UNCHANGED <<ask, pc, held, mine, linked, todo, record, sent, orphaned>>
        /\ stage[r] = "unsent" /\ stage' = [stage EXCEPT ![r] = "waiting"]
    BY <1>0, <1>2 DEF Submit, W!Submit, W!Move, actors
  <2>2. \A w \in Writers : Of(w)' = Of(w)
    BY <2>1, OthersOf
  <2>3. \A w \in Writers : PowerOnOK(w)'
    BY <2>1 DEF SentOK, PowerOnOK
  <2>4. ASSUME NEW w \in Writers, pc[w] # "idle", held[w] \notin orphaned PROVE WorkOK(w)'
    <3>1. WorkOK(w) /\ held[w] # r
      BY <2>1, <2>4 DEF SentOK, WorkOK
    <3>2. stage'[held[w]] = stage[held[w]]
      BY <1>0, <2>1, <3>1
    <3> QED
      BY <2>1, <2>2, <3>1, <3>2 DEF WorkOK, Recorded
  <2>5. ConfirmedIsSent'
    BY <1>0, <2>1 DEF SentOK, ConfirmedIsSent
  <2> QED
    BY <2>1, <2>3, <2>4, <2>5 DEF SentOK
<1>3. ASSUME NEW w \in Writers,
             UNCHANGED <<ask, stage, held, mine, linked, orphaned>>,
             sent \subseteq sent', pc[w] # "idle", pc'[w] # "idle", PowerOnOK(w)',
             \A v \in Writers \ {w} : pc'[v] = pc[v] /\ todo'[v] = todo[v],
             \A r \in Requests \ {held[w]} : record'[r] = record[r],
             WorkOK(w) =>
               /\ pc'[w] \in {"record", "save"} => todo'[w] = Of(w)
               /\ pc'[w] = "send" => Recorded(w, Of(w) \ todo[w])'
               /\ pc'[w] = "succeeded" /\ ask[held[w]].kind # "power on"
                    => Recorded(w, Of(w))'
      PROVE  SentOK'
  <2>1. \A v \in Writers : PowerOnOK(v)'
    BY <1>3 DEF SentOK, PowerOnOK
  <2>2. ASSUME NEW v \in Writers, v # w, pc'[v] # "idle", held'[v] \notin orphaned'
        PROVE  WorkOK(v)'
    <3>1. WorkOK(v) /\ held[v] # held[w] /\ held[v] \in Requests
      BY <1>0, <1>3, <2>2 DEF SentOK, WorkOK
    <3> QED
      BY <1>3, <2>2, <3>1, OthersWork
  <2>3. ASSUME held[w] \notin orphaned PROVE WorkOK(w)'
    <3>1. WorkOK(w) /\ Of(w)' = Of(w)
      BY <1>3, <2>3, OthersOf DEF SentOK
    <3>2. \A v \in Writers : pc'[v] # "idle" /\ held[v] = held[w] => v = w
      BY <1>3, <3>1 DEF WorkOK
    <3> QED
      BY <1>3, <3>1, <3>2 DEF WorkOK
  <2>4. ConfirmedIsSent'
    <3> SUFFICES ASSUME NEW r \in Requests, stage[r] = "done", ask[r].kind # "power on",
                        r \notin orphaned, NEW d \in ask[r].detectors
                 PROVE  <<r, d, record'[r]>> \in sent'
      BY <1>3 DEF ConfirmedIsSent
    <3>1. r # held[w]
      BY <1>3 DEF SentOK, WorkOK
    <3> QED
      BY <1>3, <3>1 DEF SentOK, ConfirmedIsSent
  <2> QED
    BY <1>3, <2>1, <2>2, <2>3, <2>4 DEF SentOK
<1>4. ASSUME NEW w \in Writers, Plain(w) PROVE SentOK'
  <2>1. PowerOnOK(w)'
    BY <1>4 DEF Plain, PowerOnOK, SentOK
  <2>2. /\ pc'[w] \in {"record", "save"} => todo'[w] = Of(w)
        /\ pc'[w] # "send"
        /\ pc'[w] = "succeeded" => ask[held[w]].kind = "power on"
    BY <1>4 DEF Plain, PowerOnOK, SentOK, Starts
  <2> QED
    BY <1>3, <1>4, <2>1, <2>2 DEF Plain
<1>5. ASSUME NEW w \in Writers, OpenRecord(w) \/ SaveRecord(w) PROVE SentOK'
  <2>1. /\ UNCHANGED <<ask, stage, held, mine, linked, orphaned, sent, todo>>
        /\ pc[w] # "idle" /\ held[w] \in Requests
        /\ \A v \in Writers \ {w} : pc'[v] = pc[v]
        /\ \/ pc[w] = "record" /\ pc'[w] = "save"
           \/ pc[w] = "save" /\ pc'[w] = "send" /\ record'[held[w]] = mine[w]
        /\ \A r \in Requests \ {held[w]} : record'[r] = record[r]
    <3>1. held[w] \in Requests
      BY <1>5, Busy DEF OpenRecord, SaveRecord, Step
    <3> QED
      BY <1>0, <1>5, <3>1 DEF OpenRecord, SaveRecord, Step, Goto, Actors, requests
  <2>2. PowerOnOK(w)'
    BY <2>1 DEF PowerOnOK, Stops, PowerOn, Starts
  <2>3. WorkOK(w) =>
          /\ pc'[w] \in {"record", "save"} => todo'[w] = Of(w)
          /\ pc'[w] = "send" => Recorded(w, Of(w) \ todo[w])'
    <3>1. Of(w)' = Of(w)
      BY <2>1, OthersOf
    <3> QED
      BY <2>1, <3>1 DEF WorkOK, Recorded
  <2> QED
    BY <1>3, <2>1, <2>2, <2>3
<1>6. ASSUME NEW w \in Writers, NEW d \in Detectors, SendRetrieve(w, d) PROVE SentOK'
  <2>1. /\ UNCHANGED <<ask, stage, held, mine, linked, orphaned, record>>
        /\ sent' = sent \cup {<<held[w], d, mine[w]>>}
        /\ pc[w] = "send" /\ Of(w)' = Of(w)
        /\ \A v \in Writers \ {w} : pc'[v] = pc[v] /\ todo'[v] = todo[v]
        /\ \/ todo[w] = {d} /\ pc'[w] = "succeeded"
           \/ pc'[w] = "send" /\ todo'[w] = todo[w] \ {d}
    <3>1. UNCHANGED <<ask, held>>
      BY <1>6 DEF SendRetrieve, Turn, requests
    <3> QED
      BY <1>0, <1>6, <3>1, OthersOf DEF SendRetrieve, Turn, AfterLoop, Goto, Actors, requests
  <2>2. PowerOnOK(w)'
    BY <2>1 DEF PowerOnOK, Stops, PowerOn, Starts
  <2>3. WorkOK(w) =>
          /\ pc'[w] = "send" => Recorded(w, Of(w) \ todo[w])'
          /\ pc'[w] = "succeeded" => Recorded(w, Of(w))'
    BY <2>1 DEF WorkOK, Recorded
  <2> QED
    BY <1>3, <2>1, <2>2, <2>3
<1>7. ASSUME NEW w \in Writers, NEW r \in Requests, Take(w, r) PROVE SentOK'
  <2>1. /\ UNCHANGED <<ask, linked, record, sent, orphaned>>
        /\ pc[w] = "idle" /\ held'[w] = r /\ linked[w] /\ todo'[w] = ask[r].detectors
        /\ stage[r] = "waiting" /\ stage' = [stage EXCEPT ![r] = "taken"]
        /\ \A v \in Writers \ {w} : pc'[v] = pc[v] /\ todo'[v] = todo[v]
                                      /\ held'[v] = held[v] /\ mine'[v] = mine[v]
    BY <1>0, <1>7 DEF Take, W!Take, W!Move, Goto, Actors, Typed, ActorsOK
  <2>2. /\ pc'[w] \in {"stop trigger", "read", "halt"}
        /\ pc'[w] = "stop trigger" => ask[r].kind = "power on"
    <3>1. ask[r].kind \in {"power on", "gains", "pedestal mode"}
      BY <1>0 DEF Asks
    <3> QED
      BY <1>0, <1>7, <3>1 DEF Take, Goto, Actors, FirstStep
  <2>3. \A v \in Writers : PowerOnOK(v)'
    BY <2>1, <2>2 DEF SentOK, PowerOnOK, Stops, PowerOn, Starts
  <2>4. ASSUME NEW v \in Writers, v # w, pc'[v] # "idle", held'[v] \notin orphaned'
        PROVE  WorkOK(v)'
    <3>1. WorkOK(v) /\ held[v] # r /\ held[v] \in Requests
      BY <1>0, <2>1, <2>4 DEF SentOK, WorkOK
    <3>2. stage'[held[v]] = stage[held[v]]
      BY <1>0, <2>1, <3>1
    <3> QED
      BY <2>1, <2>4, <3>1, <3>2, OthersWork
  <2>5. r \notin orphaned => WorkOK(w)'
    <3> SUFFICES ASSUME r \notin orphaned PROVE WorkOK(w)'
      OBVIOUS
    <3>1. \A v \in Writers : pc'[v] # "idle" /\ held'[v] = r => v = w
      <4> SUFFICES ASSUME NEW v \in Writers, pc'[v] # "idle", held'[v] = r, v # w
                   PROVE  FALSE
        OBVIOUS
      <4>1. pc[v] # "idle" /\ held[v] = r
        BY <2>1
      <4>2. stage[r] = "taken"
        BY <4>1 DEF SentOK, WorkOK
      <4> QED
        BY <2>1, <4>2
    <3>2. stage'[r] = "taken"
      BY <1>0, <2>1
    <3> QED
      BY <2>1, <2>2, <3>1, <3>2 DEF WorkOK
  <2>6. ConfirmedIsSent'
    BY <1>0, <2>1 DEF SentOK, ConfirmedIsSent
  <2> QED
    BY <2>1, <2>3, <2>4, <2>5, <2>6 DEF SentOK
<1>8. ASSUME NEW w \in Writers,
             UNCHANGED <<ask, record, sent>>, pc[w] # "idle", pc'[w] = "idle",
             orphaned \subseteq orphaned',
             \A v \in Writers \ {w} :
               /\ pc'[v] = pc[v] /\ todo'[v] = todo[v] /\ held'[v] = held[v]
               /\ mine'[v] = mine[v] /\ linked'[v] = linked[v],
             \A r \in Requests \ {held[w]} : stage'[r] = stage[r],
             stage'[held[w]] = stage[held[w]]
               \/ (stage'[held[w]] = "done" => linked[w] /\ pc[w] = "succeeded")
      PROVE  SentOK'
  <2>1. \A v \in Writers : PowerOnOK(v)'
    BY <1>8 DEF SentOK, PowerOnOK, Stops, PowerOn, Starts
  <2>2. ASSUME NEW v \in Writers, v # w, pc'[v] # "idle", held'[v] \notin orphaned'
        PROVE  WorkOK(v)'
    <3>1. WorkOK(v) /\ held[v] # held[w] /\ held[v] \in Requests
      BY <1>0, <1>8, <2>2 DEF SentOK, WorkOK
    <3> QED
      BY <1>8, <2>2, <3>1, OthersWork
  <2>3. ConfirmedIsSent'
    <3> SUFFICES ASSUME NEW r \in Requests, stage'[r] = "done", ask[r].kind # "power on",
                        r \notin orphaned', NEW d \in ask[r].detectors
                 PROVE  <<r, d, record[r]>> \in sent
      BY <1>8 DEF ConfirmedIsSent
    <3>1. CASE stage[r] = "done"
      BY <1>8, <3>1 DEF SentOK, ConfirmedIsSent
    <3>2. CASE stage[r] # "done"
      <4>1. r = held[w] /\ pc[w] = "succeeded" /\ WorkOK(w)
        BY <1>8, <3>2 DEF SentOK
      <4> QED
        BY <4>1, OfWriter DEF WorkOK, Recorded
    <3> QED
      BY <3>1, <3>2
  <2> QED
    BY <1>8, <2>1, <2>2, <2>3 DEF SentOK
<1>9. ASSUME NEW w \in Writers, Settle(w) \/ Die(w) \/ NoticeCut(w) PROVE SentOK'
  <2>1. /\ UNCHANGED <<ask, record, sent, orphaned>> /\ pc[w] # "idle" /\ pc'[w] = "idle"
        /\ \A v \in Writers \ {w} :
             /\ pc'[v] = pc[v] /\ todo'[v] = todo[v] /\ held'[v] = held[v]
             /\ mine'[v] = mine[v] /\ linked'[v] = linked[v]
    BY <1>0, <1>9 DEF Settle, Die, Unlink, NoticeCut, Forget, Goto, Actors, requests, Ends,
                      Typed, ActorsOK
  <2>2. held[w] \in Requests
    BY <1>0, <2>1
  <2>3. /\ \A r \in Requests \ {held[w]} : stage'[r] = stage[r]
        /\ stage'[held[w]] = stage[held[w]]
             \/ (stage'[held[w]] = "done" => linked[w] /\ pc[w] = "succeeded")
    <3>1. CASE Settle(w)
      BY <1>0, <2>2, <3>1 DEF Settle, W!Settle, W!Move
    <3>2. CASE Die(w)
      BY <1>0, <2>2, <3>2 DEF Die, Unlink, W!GiveBack, W!Move
    <3>3. CASE NoticeCut(w)
      BY <3>3 DEF NoticeCut, requests
    <3> QED
      BY <1>9, <3>1, <3>2, <3>3
  <2> QED
    BY <1>8, <2>1, <2>3
<1>10. ASSUME NEW w \in Writers, Cut(w) PROVE SentOK'
  <2>1. /\ UNCHANGED <<ask, pc, held, mine, todo, record, sent>> /\ pc[w] # "idle"
        /\ orphaned' = orphaned \cup {held[w]}
        /\ \A v \in Writers \ {w} : linked'[v] = linked[v]
        /\ held[w] \in Requests
        /\ stage' = [stage EXCEPT ![held[w]] = "waiting"]
    BY <1>0, <1>10 DEF Cut, Unlink, W!GiveBack, W!Move
  <2>2. \A v \in Writers : PowerOnOK(v)'
    BY <2>1 DEF SentOK, PowerOnOK
  <2>3. ASSUME NEW v \in Writers, pc[v] # "idle", held[v] \notin orphaned'
        PROVE  WorkOK(v)'
    <3>1. WorkOK(v) /\ held[v] # held[w] /\ held[v] \in Requests /\ v # w
      BY <1>0, <2>1, <2>3 DEF SentOK
    <3>2. stage'[held[v]] = stage[held[v]] /\ linked'[v] = linked[v]
      BY <1>0, <2>1, <3>1
    <3>3. Of(v)' = Of(v)
      BY <2>1, OthersOf
    <3> QED
      BY <2>1, <3>1, <3>2, <3>3 DEF WorkOK, Recorded
  <2>4. ConfirmedIsSent'
    BY <1>0, <2>1 DEF SentOK, ConfirmedIsSent
  <2> QED
    BY <2>1, <2>2, <2>3, <2>4 DEF SentOK
<1> QED
  BY <1>1, <1>2, <1>4, <1>5, <1>6, <1>7, <1>9, <1>10, Steps

(* A confirmed pedestal is recorded and was sent for each of its detectors, *)
(* unless a writer had been given up and went on with it.                   *)
THEOREM PedestalIsSent == Spec => []ConfirmedIsSent
<1>1. Init => SentOK
  BY DEF Init, SentOK, ConfirmedIsSent, PowerOnOK, Stops, PowerOn, Starts, W!Init, Actors
<1>2. SentOK => ConfirmedIsSent
  BY DEF SentOK
<1> QED
  BY <1>1, <1>2, AlwaysTyped, SentKept, PTL DEF Spec
=============================================================================
