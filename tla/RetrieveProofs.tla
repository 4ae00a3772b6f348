--------------------------- MODULE RetrieveProofs ---------------------------
(***************************************************************************)
(* The theorems about Retrieve, for any requests and writers and any       *)
(* number of breaks.  Whether a request's writers may touch its files      *)
(* after it was confirmed is a matter of who holds it (HeldOK); the other  *)
(* invariants say what an attempt has done by each place of the code, as   *)
(* long as no writer that was given up works on the same request.          *)
(***************************************************************************)
EXTENDS Retrieve, TLAPS

Busy(w) == pc[w] # "idle"
Owns(w) == Busy(w) /\ linked[w]

(* A request that is taken has one writer, and any other that still works   *)
(* on it was given up.                                                      *)
HeldOK ==
  /\ \A w \in Writers : Busy(w) => held[w] \in Requests
  /\ \A w \in Writers : ~linked[w] => Busy(w) /\ held[w] \in orphaned
  /\ \A w \in Writers : Owns(w) => stage[held[w]] = "taken"
  /\ \A v, w \in Writers : Owns(v) /\ Owns(w) /\ held[v] = held[w] => v = w

(* Each place of the code is reached by requests of its kinds, which have   *)
(* their raw files where these go.                                          *)
KindOK ==
  \A w \in Writers :
    /\ pc[w] \in Analysis \cup Service \cup Maps => ask[held[w]].kind = "pedestal"
    /\ pc[w] \in Convert => ask[held[w]].kind \in {"export", "shrink"}
    /\ pc[w] \in {"exporting", "remove"} => ask[held[w]].kind = "export"
    /\ pc[w] \in Thread \ {"start"} => place[w] \in RawPlaces(held[w])

Core == TypeOK /\ HeldOK /\ KindOK

(* Nobody that was given up works on the request of w.                      *)
Safe(w) == Busy(w) /\ held[w] \notin orphaned

(* A pedestal is confirmed by going through the steps that put it into      *)
(* service, and by then there is a copy of the gain maps.                   *)
InMaps == {"maps", "open maps", "copying maps"}

TookEffect(r) == r \in served /\ (gainFile => gainMap # "absent")

EffectOK ==
  /\ \A w \in Writers : pc[w] \in InMaps => held[w] \in served
  /\ \A w \in Writers : pc[w] \in Copying => gainMap # "absent"
  /\ \A w \in Writers :
       pc[w] = "succeeded" /\ ask[held[w]].kind = "pedestal" => TookEffect(held[w])
  /\ \A r \in served : ask[r].kind = "pedestal"
  /\ \A r \in Requests : stage[r] = "done" /\ ask[r].kind = "pedestal" => TookEffect(r)

(* A torn copy of the gain maps is being made, or broke off.                *)
MapsOK == gainMap = "torn" => spoilt \/ \E w \in Writers : pc[w] \in Copying

(* The raw file stays whole until it is removed, and by then the output is. *)
DataOK ==
  /\ \A w \in Writers : Safe(w) =>
       /\ pc[w] \in Thread \ {"start", "raw", "remove"} => RawIsWhole(w)
       /\ pc[w] = "remove" => Whole(held[w], "data")
       /\ pc[w] = "succeeded" => \E p \in Places : Whole(held[w], p)
  /\ DataSurvives

Unserved == Raw \cup Analysis \cup Service

(* What is copied, named and confirmed is a result with good pixels.        *)
PedestalOK ==
  /\ \A w \in Writers : Safe(w) =>
       /\ pc[w] \in {"copy", "copying"} => result[held[w]] = "good"
       /\ pc[w] \in {"update", "open config", "save config", "maps", "open maps",
                      "copying maps"}
            => central[held[w]] = "good"
       /\ pc[w] = "succeeded" /\ ask[held[w]].kind = "pedestal"
            => central[held[w]] = "good"
  /\ \A r \in Requests :
       Confirmed(r) /\ ask[r].kind = "pedestal" => central[r] = "good"
  /\ \A r \in served \ again :
       /\ central[r] = "good"
       /\ stage[r] \notin {"unsent", "waiting"}
       /\ \A w \in Writers : held[w] = r => pc[w] \notin Unserved
  /\ config \in served \cup {FirstPedestal, "torn"}

-----------------------------------------------------------------------------
Works(w) == OpenRaw(w) \/ FillRaw(w) \/ Pedestal(w) \/ Conversion(w) \/ Fail(w)

(* No place of the code is the idle one.                                    *)
LEMMA NotIdle == "idle" \notin Thread \cup Ends
  BY DEF Thread, Raw, Analysis, Service, Maps, Copying, Convert, Ends

LEMMA AfterRawIs ==
  ASSUME NEW r
  PROVE  /\ ask[r].kind = "plain" => AfterRaw(r) = "succeeded"
         /\ ask[r].kind = "pedestal" => AfterRaw(r) = "analyse"
         /\ ask[r].kind \notin {"plain", "pedestal"} => AfterRaw(r) = "convert"
  BY DEF AfterRaw

LEMMA KindsOf ==
  ASSUME TypeOK, NEW r \in Requests
  PROVE  ask[r].kind \in Kinds /\ ask[r].removeRaw \in BOOLEAN
  BY DEF TypeOK, Asks

(* The worker thread of w goes from one place to another, and leaves the    *)
(* requests and the other writers alone.                                    *)
LEMMA WorkFrame ==
  ASSUME TypeOK, NEW w \in Writers, Works(w)
  PROVE  /\ UNCHANGED <<ask, gainFile, stage, held, linked, again, orphaned, breaks>>
         /\ pc[w] \in Thread \cup {"succeeded"}
         /\ pc' \in [Writers -> {"idle"} \cup Thread \cup Ends]
         /\ pc'[w] \in Thread \cup Ends
         /\ \A v \in Writers \ {w} :
              pc'[v] = pc[v] /\ place'[v] = place[v] /\ using'[v] = using[v]
<1> DEFINE P == Thread \cup Ends
<1>1. ASSUME NEW from \in Thread \cup {"succeeded"}, NEW to \in P, Step(w, from, to)
      PROVE  /\ UNCHANGED <<ask, gainFile, stage, held, linked>>
             /\ pc[w] \in Thread \cup {"succeeded"}
             /\ pc' \in [Writers -> {"idle"} \cup P] /\ pc'[w] \in P
             /\ \A v \in Writers \ {w} :
                  pc'[v] = pc[v] /\ place'[v] = place[v] /\ using'[v] = using[v]
  BY <1>1 DEF Step, Goto, requests, given, TypeOK
<1>2. CASE OpenRaw(w)
  <2>1. pc[w] = "start" /\ pc' = [pc EXCEPT ![w] = "raw"] /\ "start" \in Thread /\ "raw" \in P
    BY <1>2 DEF OpenRaw, Goto, Thread, Raw
  <2> QED
    BY <1>2, <2>1 DEF OpenRaw, requests, given, shared, history, TypeOK
<1>3. CASE LoadCalibration(w)
  <2>1. pc[w] = "convert" /\ pc' = [pc EXCEPT ![w] = "export"]
          /\ "convert" \in Thread /\ "export" \in P
    BY <1>3 DEF LoadCalibration, Goto, Thread, Convert
  <2> QED
    BY <1>3, <2>1 DEF LoadCalibration, requests, given, shared, history, TypeOK
<1>4. CASE FillRaw(w)
  <2>1. AfterRaw(held[w]) \in P /\ "raw" \in Thread
    BY AfterRawIs DEF Thread, Raw, Analysis, Convert, Ends
  <2> QED
    BY <1>1, <1>4, <2>1 DEF FillRaw, history
<1>5. CASE Pedestal(w)
  <2>1. \E from \in Thread, to \in P : Step(w, from, to)
    BY <1>5 DEF Pedestal, OpenResult, FillResult, OpenCentral, FillCentral, LoadConfig, OpenConfig,
                SaveConfig, ServiceFails, NoMaps, MapsExist, MissMaps, OpenMaps, FillMaps,
                AfterMaps, Thread, Analysis, Service, Maps, Copying, Ends
  <2>2. UNCHANGED <<again, orphaned, breaks>>
    BY <1>5 DEF Pedestal, OpenResult, FillResult, OpenCentral, FillCentral, LoadConfig, OpenConfig,
                SaveConfig, ServiceFails, NoMaps, MapsExist, MissMaps, OpenMaps, FillMaps, history
  <2> QED
    BY <1>1, <2>1, <2>2
<1>6. CASE CountFrames(w) \/ NoFrameSelected(w) \/ OpenOutput(w) \/ FillOutput(w) \/ RemoveRaw(w)
  <2>1. \E from \in Thread, to \in P : Step(w, from, to)
    BY <1>6 DEF CountFrames, NoFrameSelected, OpenOutput, FillOutput, RemoveRaw,
                Thread, Convert, Ends
  <2>2. UNCHANGED <<again, orphaned, breaks>>
    BY <1>6 DEF CountFrames, NoFrameSelected, OpenOutput, FillOutput, RemoveRaw, history
  <2> QED
    BY <1>1, <2>1, <2>2
<1>7. CASE Fail(w)
  <2>1. \E from \in Thread \cup {"succeeded"} : Step(w, from, "failed")
    BY <1>7 DEF Fail
  <2> QED
    BY <1>1, <1>7, <2>1 DEF Fail, history, Ends
<1> QED
  BY <1>2, <1>3, <1>4, <1>5, <1>6, <1>7 DEF Works, Conversion

(* It writes the files of its own request only.                             *)
LEMMA WorkFiles ==
  ASSUME TypeOK, NEW w \in Writers, Works(w)
  PROVE  \A q \in Requests \ {held[w]} :
           file'[q] = file[q] /\ result'[q] = result[q] /\ central'[q] = central[q]
<1>1. CASE OpenRaw(w) \/ FillRaw(w) \/ Fail(w) \/ Conversion(w)
  BY <1>1 DEF OpenRaw, FillRaw, Fail, Conversion, LoadCalibration, CountFrames, NoFrameSelected,
              OpenOutput, FillOutput, RemoveRaw, Put, shared, TypeOK
<1>2. CASE Pedestal(w)
  BY <1>2 DEF Pedestal, OpenResult, FillResult, OpenCentral, FillCentral, LoadConfig, OpenConfig,
              SaveConfig, ServiceFails, NoMaps, MapsExist, MissMaps, OpenMaps, FillMaps, shared, TypeOK
<1> QED
  BY <1>1, <1>2 DEF Works

(* What the queue and the main threads do changes no file.                  *)
Queue ==
  \/ \E r \in Requests : Submit(r)
  \/ \E w \in Writers :
       (\E r \in Requests : Take(w, r)) \/ Settle(w) \/ Die(w) \/ Cut(w) \/ NoticeCut(w)

LEMMA QueueFrame == Queue => UNCHANGED <<ask, gainFile, file, shared, served>>
  BY DEF Queue, Submit, Take, Settle, Die, Cut, NoticeCut, requests, given, history

LEMMA Steps == Next => Queue \/ \E w \in Writers : Works(w)
  BY DEF Next, Queue, Works

-----------------------------------------------------------------------------
LEMMA TypeStep == Core /\ [Next]_vars => TypeOK'
<1> SUFFICES ASSUME Core, [Next]_vars PROVE TypeOK'
  OBVIOUS
<1>0. TypeOK /\ HeldOK
  BY DEF Core
<1>1. ASSUME NEW w \in Writers, Works(w) PROVE TypeOK'
  <2>1. /\ UNCHANGED <<ask, gainFile, stage, held, linked, again, orphaned, breaks>>
        /\ pc' \in [Writers -> {"idle"} \cup Thread \cup Ends]
    BY <1>0, <1>1, WorkFrame
  <2>2. held[w] \in Requests
    BY <1>0, <1>1, WorkFrame, NotIdle DEF HeldOK, Busy, Ends
  <2>3. place' \in [Writers -> Places] /\ using' \in [Writers -> Pedestals]
    <3>1. place' = place \/ \E p \in Places : place' = [place EXCEPT ![w] = p]
      BY <1>1 DEF Works, OpenRaw, RawPlaces, Places, FillRaw, Fail, Step, Conversion,
              LoadCalibration, CountFrames, NoFrameSelected, OpenOutput, FillOutput, RemoveRaw,
              Pedestal, OpenResult, FillResult, OpenCentral, FillCentral, LoadConfig, OpenConfig,
              SaveConfig, ServiceFails, NoMaps, MapsExist, MissMaps, OpenMaps, FillMaps
    <3>2. using' = using \/ \E p \in Pedestals : using' = [using EXCEPT ![w] = p]
      <4>1. CASE Conversion(w)
        BY <1>0, <4>1 DEF Conversion, LoadCalibration, CountFrames, NoFrameSelected, OpenOutput,
                FillOutput, RemoveRaw, Step, TypeOK
      <4>2. CASE ~Conversion(w)
        BY <1>1, <4>2 DEF Works, OpenRaw, FillRaw, Fail, Step, Pedestal, OpenResult, FillResult,
                OpenCentral, FillCentral, LoadConfig, OpenConfig, SaveConfig, ServiceFails,
                NoMaps, MapsExist, MissMaps, OpenMaps, FillMaps
      <4> QED
        BY <4>1, <4>2
    <3> QED
      BY <1>0, <3>1, <3>2 DEF TypeOK
  <2>4. file' \in [Requests -> [Places -> Contents]]
    <3>1. file' = file \/ \E p \in Places, c \in Contents : Put(held[w], p, c)
      BY <1>0, <1>1 DEF Works, OpenRaw, RawPlaces, Places, Contents, FillRaw, Fail, Conversion,
              LoadCalibration, CountFrames, NoFrameSelected, OpenOutput, FillOutput, RemoveRaw,
              Pedestal, OpenResult, FillResult, OpenCentral, FillCentral, LoadConfig, OpenConfig,
              SaveConfig, ServiceFails, NoMaps, MapsExist, MissMaps, OpenMaps, FillMaps, TypeOK
    <3>2. ASSUME NEW p \in Places, NEW c \in Contents, Put(held[w], p, c)
          PROVE  file' \in [Requests -> [Places -> Contents]]
      <4>1. PICK h \in Requests : h = held[w]
        BY <2>2
      <4>2. file[h] \in [Places -> Contents]
        BY <1>0, <4>1 DEF TypeOK
      <4>3. file' = [file EXCEPT ![h] = [file[h] EXCEPT ![p] = c]]
        BY <3>2, <4>1 DEF Put
      <4>4. [file[h] EXCEPT ![p] = c] \in [Places -> Contents]
        BY <4>2
      <4> QED
        BY <1>0, <4>3, <4>4 DEF TypeOK
    <3> QED
      BY <1>0, <3>1, <3>2 DEF TypeOK
  <2>5. /\ result' \in [Requests -> {"absent", "torn", "good", "bad"}]
        /\ central' \in [Requests -> {"absent", "torn", "good", "bad"}]
        /\ config' \in Pedestals \cup {"torn"}
        /\ gainMap' \in {"absent", "torn", "whole"}
        /\ served' \subseteq Requests
        /\ spoilt' \in BOOLEAN
    <3>1. CASE OpenRaw(w) \/ FillRaw(w) \/ Fail(w) \/ Conversion(w)
      BY <1>0, <3>1 DEF OpenRaw, FillRaw, Fail, Conversion, LoadCalibration, CountFrames,
              NoFrameSelected, OpenOutput, FillOutput, RemoveRaw, BreakOff, shared, history, TypeOK
    <3>2. CASE OpenResult(w) \/ FillResult(w) \/ OpenCentral(w) \/ FillCentral(w)
      BY <1>0, <2>2, <3>2 DEF OpenResult, FillResult, OpenCentral, FillCentral, history, TypeOK
    <3>3. CASE LoadConfig(w) \/ OpenConfig(w) \/ SaveConfig(w) \/ ServiceFails(w)
      BY <1>0, <2>2, <3>3 DEF LoadConfig, OpenConfig, SaveConfig, ServiceFails, shared, history,
              TypeOK, Pedestals
    <3>4. CASE NoMaps(w) \/ MapsExist(w) \/ MissMaps(w) \/ OpenMaps(w) \/ FillMaps(w)
      BY <1>0, <3>4 DEF NoMaps, MapsExist, MissMaps, OpenMaps, FillMaps, shared, history, TypeOK
    <3> QED
      BY <1>1, <3>1, <3>2, <3>3, <3>4 DEF Works, Pedestal
  <2> QED
    BY <1>0, <2>1, <2>3, <2>4, <2>5 DEF TypeOK
<1>2. CASE Queue
  <2>1. /\ UNCHANGED <<ask, gainFile, file, shared, served>>
    BY <1>2, QueueFrame
  <2>2. stage' \in [Requests -> W!Stages]
    <3>1. stage' = stage \/ \E r \in Requests, s \in W!Stages : stage' = [stage EXCEPT ![r] = s]
      <4>1. ASSUME NEW r \in Requests, W!Submit(r) \/ W!Take(r) \/ W!GiveBack(r) \/ W!Settle(r)
            PROVE  \E q \in Requests, s \in W!Stages : stage' = [stage EXCEPT ![q] = s]
        BY <4>1 DEF W!Submit, W!Take, W!Settle, W!GiveBack, W!Move, W!Stages
      <4>2. ASSUME NEW w \in Writers, Settle(w) \/ Die(w) \/ Cut(w)
            PROVE  \E r \in Requests : W!GiveBack(r) \/ W!Settle(r)
        <5>1. Busy(w)
          BY <4>2, NotIdle DEF Settle, Die, Cut, Unlink, Busy
        <5> QED
          BY <1>0, <4>2, <5>1 DEF HeldOK, Settle, Die, Cut, Unlink
      <4> QED
        BY <1>2, <4>1, <4>2 DEF Queue, Submit, Take, NoticeCut, requests, given
    <3> QED
      BY <1>0, <3>1 DEF TypeOK
  <2>3. /\ pc' \in [Writers -> {"idle"} \cup Thread \cup Ends]
        /\ held' \in [Writers -> Requests \cup {NoRequest}]
        /\ linked' \in [Writers -> BOOLEAN]
        /\ place' \in [Writers -> Places]
        /\ using' \in [Writers -> Pedestals]
    <3>1. CASE \E r \in Requests : Submit(r)
      BY <1>0, <3>1 DEF Submit, writers, TypeOK
    <3>2. ASSUME NEW w \in Writers, NEW r \in Requests, Take(w, r)
          PROVE  /\ pc' \in [Writers -> {"idle"} \cup Thread \cup Ends]
                 /\ held' \in [Writers -> Requests \cup {NoRequest}]
                 /\ UNCHANGED <<linked, place, using>>
      <4>1. /\ pc' = [pc EXCEPT ![w] = "start"] /\ "start" \in Thread
            /\ held' = [held EXCEPT ![w] = r]
            /\ UNCHANGED <<linked, place, using>>
        BY <3>2 DEF Take, Goto, Thread, Raw
      <4> QED
        BY <1>0, <4>1 DEF TypeOK
    <3>3. ASSUME NEW w \in Writers, Settle(w) \/ Die(w) \/ NoticeCut(w)
          PROVE  /\ pc' \in [Writers -> {"idle"} \cup Thread \cup Ends]
                 /\ held' \in [Writers -> Requests \cup {NoRequest}]
                 /\ linked' \in [Writers -> BOOLEAN]
                 /\ place' \in [Writers -> Places]
                 /\ using' \in [Writers -> Pedestals]
      <4>1. pc' = [pc EXCEPT ![w] = "idle"] /\ held' = [held EXCEPT ![w] = NoRequest]
              /\ place' = [place EXCEPT ![w] = "data"]
              /\ using' = [using EXCEPT ![w] = FirstPedestal]
        BY <3>3 DEF Settle, Die, NoticeCut, Restart, Goto
      <4>2. linked' = linked \/ linked' = [linked EXCEPT ![w] = TRUE]
        BY <3>3 DEF Settle, Die, NoticeCut
      <4> QED
        BY <1>0, <4>1, <4>2 DEF TypeOK, Places, Pedestals
    <3>4. ASSUME NEW w \in Writers, Cut(w)
          PROVE  linked' \in [Writers -> BOOLEAN] /\ UNCHANGED <<pc, held, place, using>>
      BY <1>0, <3>4 DEF Cut, TypeOK
    <3> QED
      BY <1>0, <1>2, <3>1, <3>2, <3>3, <3>4 DEF Queue, TypeOK
  <2>4. again' \subseteq Requests /\ orphaned' \subseteq again' /\ breaks' \in 0..MaxBreaks
    <3>1. CASE UNCHANGED <<again, orphaned, breaks>>
      BY <1>0, <3>1 DEF TypeOK
    <3>2. ASSUME NEW w \in Writers, Unlink(w), orphaned' \subseteq orphaned \cup {held[w]}
          PROVE  again' \subseteq Requests /\ orphaned' \subseteq again' /\ breaks' \in 0..MaxBreaks
      <4>1. held[w] \in Requests
        BY <1>0, <3>2 DEF Unlink, HeldOK, Busy
      <4>2. breaks \in 0..MaxBreaks /\ breaks < MaxBreaks /\ breaks' = breaks + 1
        BY <1>0, <3>2 DEF Unlink, TypeOK
      <4>3. breaks' \in 0..MaxBreaks
        BY <4>2, RetrieveAssumption
      <4>4. again' = again \cup {held[w]}
        BY <3>2 DEF Unlink
      <4> QED
        BY <1>0, <3>2, <4>1, <4>3, <4>4 DEF TypeOK
    <3> QED
      BY <1>2, <3>1, <3>2 DEF Queue, Submit, Take, Settle, Die, Cut, NoticeCut, history
  <2>5. spoilt' \in BOOLEAN
    <3>1. spoilt' = spoilt \/ \E w \in Writers : BreakOff(w)
      BY <1>2 DEF Queue, Submit, Take, Settle, Die, Cut, NoticeCut, Restart, history
    <3> QED
      BY <1>0, <3>1 DEF BreakOff, TypeOK
  <2> QED
    BY <1>0, <2>1, <2>2, <2>3, <2>4, <2>5 DEF TypeOK, shared
<1>3. CASE UNCHANGED vars
  BY <1>0, <1>3 DEF vars, requests, given, writers, shared, history, TypeOK
<1> QED
  BY <1>1, <1>2, <1>3, Steps

-----------------------------------------------------------------------------
(* The moves of the requests by the queue's steps.                          *)
LEMMA Moved ==
  ASSUME TypeOK, NEW r \in Requests, NEW s \in W!Stages, stage' = [stage EXCEPT ![r] = s]
  PROVE  stage'[r] = s /\ \A q \in Requests \ {r} : stage'[q] = stage[q]
  BY DEF TypeOK

(* w is through with its request and gone, or gone with it.                 *)
Freed(w) ==
  /\ pc' = [pc EXCEPT ![w] = "idle"]
  /\ linked' = [linked EXCEPT ![w] = TRUE]

LEMMA HeldStep == Core /\ [Next]_vars => HeldOK'
<1> SUFFICES ASSUME Core, [Next]_vars PROVE HeldOK'
  OBVIOUS
<1>0. TypeOK /\ HeldOK
  BY DEF Core
<1>1. ASSUME NEW w \in Writers, Works(w) PROVE HeldOK'
  <2>1. UNCHANGED <<stage, held, linked, orphaned>>
    BY <1>0, <1>1, WorkFrame
  <2>2. \A v \in Writers : Busy(v)' <=> Busy(v)
    BY <1>0, <1>1, WorkFrame, NotIdle DEF Busy, Ends
  <2> QED
    BY <1>0, <2>1, <2>2 DEF HeldOK, Owns
<1>2. ASSUME NEW r \in Requests, Submit(r) PROVE HeldOK'
  <2>1. stage[r] = "unsent" /\ UNCHANGED <<pc, held, linked, orphaned>>
    BY <1>2 DEF Submit, writers, history, W!Submit, W!Move
  <2>2. \A q \in Requests \ {r} : stage'[q] = stage[q]
    BY <1>0, <1>2 DEF Submit, W!Submit, W!Move, TypeOK
  <2> QED
    BY <1>0, <2>1, <2>2 DEF HeldOK, Owns, Busy
<1>3. ASSUME NEW w \in Writers, NEW r \in Requests, Take(w, r) PROVE HeldOK'
  <2>1. /\ pc[w] = "idle" /\ pc'[w] = "start" /\ held'[w] = r
        /\ \A v \in Writers \ {w} : pc'[v] = pc[v] /\ held'[v] = held[v]
        /\ UNCHANGED <<linked, orphaned>>
    BY <1>0, <1>3 DEF Take, Goto, history, TypeOK
  <2>2. /\ stage[r] = "waiting" /\ stage'[r] = "taken"
        /\ \A q \in Requests \ {r} : stage'[q] = stage[q]
    BY <1>0, <1>3 DEF Take, W!Take, W!Move, TypeOK
  <2>3. linked[w] /\ \A v \in Writers : Owns(v) => held[v] # r
    BY <1>0, <2>1, <2>2 DEF HeldOK, Busy
  <2>4. \A v \in Writers \ {w} : (Busy(v)' <=> Busy(v)) /\ (Owns(v)' <=> Owns(v))
    BY <2>1 DEF Busy, Owns
  <2>5. Busy(w)' /\ Owns(w)'
    BY <2>1, <2>3 DEF Busy, Owns
  <2>6. \A v \in Writers : Busy(v)' => held'[v] \in Requests
    BY <1>0, <2>1, <2>4 DEF HeldOK
  <2>7. \A v \in Writers : ~linked'[v] => Busy(v)' /\ held'[v] \in orphaned'
    BY <1>0, <2>1, <2>3, <2>4 DEF HeldOK
  <2>8. \A v \in Writers : Owns(v)' => stage'[held'[v]] = "taken"
    BY <1>0, <2>1, <2>2, <2>3, <2>4 DEF HeldOK, Owns
  <2>9. \A u, v \in Writers : Owns(u)' /\ Owns(v)' /\ held'[u] = held'[v] => u = v
    BY <1>0, <2>1, <2>3, <2>4 DEF HeldOK
  <2> QED
    BY <2>6, <2>7, <2>8, <2>9 DEF HeldOK
<1>4. ASSUME NEW w \in Writers, Settle(w) \/ Die(w) \/ NoticeCut(w) PROVE HeldOK'
  <2>1. /\ pc'[w] = "idle" /\ linked'[w] /\ orphaned' = orphaned
        /\ \A v \in Writers \ {w} :
             pc'[v] = pc[v] /\ held'[v] = held[v] /\ linked'[v] = linked[v]
    BY <1>0, <1>4 DEF Settle, Die, NoticeCut, Unlink, Restart, Goto, history, TypeOK
  <2>2. \A v \in Writers \ {w} : Owns(v) => stage'[held[v]] = "taken"
    <3>1. CASE NoticeCut(w)
      BY <1>0, <3>1 DEF NoticeCut, requests, given, HeldOK
    <3>2. CASE Settle(w) \/ Die(w)
      <4>1. Owns(w)
        BY <3>2, NotIdle DEF Settle, Die, Unlink, Owns, Busy
      <4>2. \A q \in Requests : q # held[w] => stage'[q] = stage[q]
        BY <1>0, <3>2 DEF Settle, Die, Unlink, W!Settle, W!GiveBack, W!Move, TypeOK
      <4> QED
        BY <1>0, <4>1, <4>2 DEF HeldOK, Owns
    <3> QED
      BY <1>4, <3>1, <3>2
  <2>3. ~Busy(w)' /\ \A v \in Writers \ {w} : (Busy(v)' <=> Busy(v)) /\ (Owns(v)' <=> Owns(v))
    BY <2>1 DEF Busy, Owns
  <2> QED
    BY <1>0, <2>1, <2>2, <2>3 DEF HeldOK, Owns
<1>5. ASSUME NEW w \in Writers, Cut(w) PROVE HeldOK'
  <2>1. /\ pc[w] # "idle" /\ linked[w] /\ ~linked'[w] /\ UNCHANGED <<pc, held>>
        /\ orphaned' = orphaned \cup {held[w]}
        /\ \A v \in Writers \ {w} : linked'[v] = linked[v]
    BY <1>0, <1>5 DEF Cut, Unlink, TypeOK
  <2>2. Owns(w) /\ ~Owns(w)'
    BY <2>1 DEF Owns, Busy
  <2>3. \A q \in Requests : q # held[w] => stage'[q] = stage[q]
    BY <1>0, <1>5 DEF Cut, Unlink, W!GiveBack, W!Move, TypeOK
  <2>4. \A v \in Writers : Busy(v)' <=> Busy(v)
    BY <2>1 DEF Busy
  <2>5. \A v \in Writers \ {w} : Owns(v)' <=> Owns(v)
    BY <2>1 DEF Busy, Owns
  <2> QED
    BY <1>0, <2>1, <2>2, <2>3, <2>4, <2>5 DEF HeldOK, Owns
<1>6. CASE UNCHANGED vars
  BY <1>0, <1>6 DEF vars, requests, given, writers, history, HeldOK, Owns, Busy
<1> QED
  BY <1>1, <1>2, <1>3, <1>4, <1>5, <1>6, Steps DEF Queue

-----------------------------------------------------------------------------
(* In the queue's steps a writer stays where it is, with the same request,  *)
(* or comes to the start of one or to the end.                              *)
LEMMA QueuePlaces ==
  ASSUME TypeOK, Queue, NEW w \in Writers
  PROVE  \/ pc'[w] \in {"idle", "start"}
         \/ pc'[w] = pc[w] /\ held'[w] = held[w] /\ place'[w] = place[w]
<1>1. CASE \E r \in Requests : Submit(r)
  BY <1>1 DEF Submit, writers
<1>2. ASSUME NEW v \in Writers, NEW r \in Requests, Take(v, r)
      PROVE  pc'[w] = "start" \/ (pc'[w] = pc[w] /\ held'[w] = held[w] /\ place'[w] = place[w])
  BY <1>2 DEF Take, Goto, TypeOK
<1>3. ASSUME NEW v \in Writers, Settle(v) \/ Die(v) \/ NoticeCut(v)
      PROVE  pc'[w] = "idle" \/ (pc'[w] = pc[w] /\ held'[w] = held[w] /\ place'[w] = place[w])
  BY <1>3 DEF Settle, Die, NoticeCut, Restart, Goto, TypeOK
<1>4. ASSUME NEW v \in Writers, Cut(v) PROVE UNCHANGED <<pc, held, place>>
  BY <1>4 DEF Cut
<1> QED
  BY <1>1, <1>2, <1>3, <1>4 DEF Queue

LEMMA KindStep == Core /\ [Next]_vars => KindOK'
<1> SUFFICES ASSUME Core, [Next]_vars PROVE KindOK'
  OBVIOUS
<1>0. TypeOK /\ HeldOK /\ KindOK
  BY DEF Core
<1> USE DEF Raw, Analysis, Service, Maps, Copying, Convert, Ends, Thread
<1>1. ASSUME NEW w \in Writers, Works(w) PROVE KindOK'
  <2>1. /\ UNCHANGED <<ask, held>>
        /\ \A v \in Writers \ {w} : pc'[v] = pc[v] /\ place'[v] = place[v]
        /\ pc[w] # "idle"
    BY <1>0, <1>1, WorkFrame
  <2>2. held[w] \in Requests
    BY <1>0, <2>1 DEF HeldOK, Busy
  <2>3. ask[held[w]].kind \in Kinds
    BY <1>0, <2>2, KindsOf
  <2> DEFINE kind == ask[held[w]].kind
  <2>4. /\ pc'[w] \in Analysis \cup Service \cup Maps => kind = "pedestal"
        /\ pc'[w] \in Convert => kind \in {"export", "shrink"}
        /\ pc'[w] \in {"exporting", "remove"} => kind = "export"
    <3>1. CASE OpenRaw(w)
      BY <1>0, <3>1 DEF OpenRaw, Goto, TypeOK
    <3>2. CASE FillRaw(w)
      <4>1. pc'[w] = AfterRaw(held[w])
        BY <1>0, <3>2 DEF FillRaw, Step, Goto, TypeOK
      <4> QED
        BY <2>3, <4>1, AfterRawIs DEF Kinds
    <3>3. CASE Pedestal(w)
      <4>1. \E from \in Analysis \cup Service \cup Maps,
               to \in Analysis \cup Service \cup Maps \cup Ends : Step(w, from, to)
        BY <3>3 DEF Pedestal, OpenResult, FillResult, OpenCentral, FillCentral, LoadConfig,
             OpenConfig, SaveConfig, ServiceFails, NoMaps, MapsExist, MissMaps, OpenMaps, FillMaps, AfterMaps
      <4>2. /\ pc[w] \in Analysis \cup Service \cup Maps
            /\ pc'[w] \in Analysis \cup Service \cup Maps \cup Ends
        BY <1>0, <4>1 DEF Step, Goto, TypeOK
      <4>3. kind = "pedestal"
        BY <1>0, <4>2 DEF KindOK
      <4> QED
        BY <4>2, <4>3
    <3>4. CASE Conversion(w)
      <4>1. CASE LoadCalibration(w)
        BY <1>0, <4>1 DEF KindOK, LoadCalibration, Step, Goto, TypeOK
      <4>2. CASE CountFrames(w) \/ NoFrameSelected(w)
        BY <1>0, <4>2 DEF KindOK, CountFrames, NoFrameSelected, Step, Goto, TypeOK
      <4>3. CASE OpenOutput(w) \/ FillOutput(w)
        <5>1. pc[w] \in {"export", "exporting"} /\ pc'[w] \in {"exporting", "remove", "succeeded"}
          BY <1>0, <4>3 DEF OpenOutput, FillOutput, Step, Goto, TypeOK
        <5>2. kind = "export"
          BY <1>0, <4>3 DEF KindOK, OpenOutput, FillOutput, Step
        <5> QED
          BY <5>1, <5>2
      <4>4. CASE RemoveRaw(w)
        BY <1>0, <4>4 DEF KindOK, RemoveRaw, Step, Goto, TypeOK
      <4> QED
        BY <3>4, <4>1, <4>2, <4>3, <4>4 DEF Conversion
    <3>5. CASE Fail(w)
      BY <1>0, <3>5 DEF Fail, Step, Goto, TypeOK
    <3> QED
      BY <1>1, <3>1, <3>2, <3>3, <3>4, <3>5 DEF Works
  <2>5. pc'[w] \in Thread \ {"start"} => place'[w] \in RawPlaces(held[w])
    <3>1. CASE OpenRaw(w)
      BY <1>0, <3>1 DEF OpenRaw, TypeOK
    <3>2. CASE ~OpenRaw(w) /\ pc[w] \in Thread \ {"start"}
      <4>1. place' = place
        BY <1>1, <3>2 DEF Works, FillRaw, Fail, Step, Conversion,
              LoadCalibration, CountFrames, NoFrameSelected, OpenOutput, FillOutput, RemoveRaw,
              Pedestal, OpenResult, FillResult, OpenCentral, FillCentral, LoadConfig, OpenConfig,
              SaveConfig, ServiceFails, NoMaps, MapsExist, MissMaps, OpenMaps, FillMaps
      <4> QED
        BY <1>0, <3>2, <4>1 DEF KindOK
    <3>3. CASE pc[w] \in {"start", "succeeded"} /\ ~OpenRaw(w)
      <4>1. Fail(w)
        BY <1>1, <3>3 DEF Works, FillRaw, Step, Conversion,
              LoadCalibration, CountFrames, NoFrameSelected, OpenOutput, FillOutput, RemoveRaw,
              Pedestal, OpenResult, FillResult, OpenCentral, FillCentral, LoadConfig, OpenConfig,
              SaveConfig, ServiceFails, NoMaps, MapsExist, MissMaps, OpenMaps, FillMaps
      <4> QED
        BY <1>0, <4>1 DEF Fail, Step, Goto, TypeOK
    <3> QED
      BY <1>0, <1>1, <3>1, <3>2, <3>3, WorkFrame
  <2> SUFFICES ASSUME NEW v \in Writers \ {w}
               PROVE  /\ pc'[v] \in Analysis \cup Service \cup Maps => ask[held[v]].kind = "pedestal"
                      /\ pc'[v] \in Convert => ask[held[v]].kind \in {"export", "shrink"}
                      /\ pc'[v] \in {"exporting", "remove"} => ask[held[v]].kind = "export"
                      /\ pc'[v] \in Thread \ {"start"} => place'[v] \in RawPlaces(held[v])
    BY <2>1, <2>4, <2>5 DEF KindOK, RawPlaces
  <2> QED
    BY <1>0, <2>1 DEF KindOK
<1>2. CASE Queue
  <2>1. ask' = ask
    BY <1>2, QueueFrame
  <2> SUFFICES ASSUME NEW w \in Writers
               PROVE  /\ pc'[w] \in Analysis \cup Service \cup Maps => ask[held'[w]].kind = "pedestal"
                      /\ pc'[w] \in Convert => ask[held'[w]].kind \in {"export", "shrink"}
                      /\ pc'[w] \in {"exporting", "remove"} => ask[held'[w]].kind = "export"
                      /\ pc'[w] \in Thread \ {"start"} => place'[w] \in RawPlaces(held'[w])
    BY <2>1 DEF KindOK, RawPlaces
  <2> QED
    BY <1>0, <1>2, QueuePlaces DEF KindOK
<1>3. CASE UNCHANGED vars
  BY <1>0, <1>3 DEF vars, requests, given, writers, KindOK, RawPlaces
<1> QED
  BY <1>1, <1>2, <1>3, Steps

LEMMA CoreHolds == Spec => []Core
<1>1. Init => Core
  <2> SUFFICES ASSUME Init PROVE Core
    OBVIOUS
  <2>0. gainFile \in BOOLEAN /\ spoilt \in BOOLEAN
    BY DEF Init
  <2>1. TypeOK
    BY <2>0, RetrieveAssumption DEF Init, TypeOK, W!Init, W!Stages, Places, Contents, Pedestals
  <2>2. \A w \in Writers : pc[w] = "idle" /\ linked[w]
    BY DEF Init
  <2>3. HeldOK /\ KindOK
    BY <2>2, NotIdle DEF HeldOK, KindOK, Busy, Owns, Thread
  <2> QED
    BY <2>1, <2>3 DEF Core
<1>2. Core /\ [Next]_vars => Core'
  BY TypeStep, HeldStep, KindStep DEF Core
<1> QED
  BY <1>1, <1>2, PTL DEF Spec

(* Every state is of its types, and the requests a writer was cut off from  *)
(* are among those delivered again.                                         *)
THEOREM TypeCorrect == Spec => []TypeOK
<1>1. Core => TypeOK
  BY DEF Core
<1> QED
  BY <1>1, CoreHolds, PTL

-----------------------------------------------------------------------------
(* Settling is all that confirms a request, and only one that succeeded.    *)
LEMMA Confirming ==
  ASSUME Core, [Next]_vars, NEW r \in Requests, stage'[r] = "done"
  PROVE  \/ stage[r] = "done"
         \/ \E w \in Writers : /\ pc[w] = "succeeded" /\ held[w] = r
                               /\ UNCHANGED <<file, shared, history>>
<1>0. TypeOK /\ HeldOK
  BY DEF Core
<1>1. ASSUME NEW w \in Writers, Settle(w)
      PROVE  stage[r] = "done" \/ (pc[w] = "succeeded" /\ held[w] = r)
  <2>1. \A q \in Requests : q # held[w] => stage'[q] = stage[q]
    BY <1>0, <1>1 DEF Settle, W!Settle, W!Move, TypeOK
  <2>2. stage'[held[w]] = IF pc[w] = "succeeded" THEN "done" ELSE "refused"
    BY <1>1 DEF Settle
  <2> QED
    BY <2>1, <2>2
<1>2. ASSUME NEW w \in Writers, Die(w) \/ Cut(w) PROVE stage[r] = "done"
  BY <1>0, <1>2 DEF Die, Cut, Unlink, W!GiveBack, W!Move, TypeOK
<1>3. ASSUME NEW q \in Requests, Submit(q) \/ \E w \in Writers : Take(w, q)
      PROVE  stage[r] = "done"
  BY <1>0, <1>3 DEF Submit, Take, W!Submit, W!Take, W!Move, TypeOK
<1>4. CASE (\E w \in Writers : NoticeCut(w)) \/ UNCHANGED vars
  BY <1>4 DEF NoticeCut, vars, requests, given
<1>5. ASSUME NEW w \in Writers, Works(w) PROVE stage[r] = "done"
  BY <1>0, <1>5, WorkFrame
<1> QED
  BY <1>1, <1>2, <1>3, <1>4, <1>5, Steps DEF Queue, Settle

LEMMA EffectStep == Core /\ EffectOK /\ [Next]_vars => EffectOK'
<1> SUFFICES ASSUME Core, EffectOK, [Next]_vars PROVE EffectOK'
  OBVIOUS
<1>0. TypeOK /\ HeldOK /\ KindOK
  BY DEF Core
<1> USE DEF InMaps, Copying
<1>1. served \subseteq served' /\ (gainMap # "absent" => gainMap' # "absent")
      /\ ask' = ask /\ gainFile' = gainFile
  <2>1. ASSUME NEW w \in Writers, Works(w)
        PROVE  served \subseteq served' /\ (gainMap # "absent" => gainMap' # "absent")
    <3>1. CASE OpenRaw(w) \/ FillRaw(w) \/ Fail(w) \/ Conversion(w)
      BY <3>1 DEF OpenRaw, FillRaw, Fail, Conversion, LoadCalibration, CountFrames, NoFrameSelected,
             OpenOutput, FillOutput, RemoveRaw, shared, history
    <3>2. CASE Pedestal(w)
      BY <3>2 DEF Pedestal, OpenResult, FillResult, OpenCentral, FillCentral, LoadConfig,
             OpenConfig, SaveConfig, ServiceFails, NoMaps, MapsExist, MissMaps, OpenMaps, FillMaps, shared,
             history
    <3> QED
      BY <2>1, <3>1, <3>2 DEF Works
  <2>2. Queue \/ UNCHANGED vars => UNCHANGED <<ask, gainFile, served, gainMap>>
    BY QueueFrame DEF shared, vars, requests, given, history
  <2> QED
    BY <1>0, <2>1, <2>2, WorkFrame, Steps
<1>2. ASSUME NEW w \in Writers
      PROVE  /\ pc'[w] \in InMaps => held'[w] \in served'
             /\ pc'[w] \in Copying => gainMap' # "absent"
             /\ pc'[w] = "succeeded" /\ ask'[held'[w]].kind = "pedestal"
                  => TookEffect(held[w])'
  <2>1. CASE pc'[w] = pc[w] /\ held'[w] = held[w]
    BY <1>1, <2>1 DEF EffectOK, TookEffect
  <2>2. CASE pc'[w] \in {"idle", "start"}
    BY <2>2
  <2>3. CASE Works(w)
    <3>1. held' = held /\ held[w] \in Requests /\ pc[w] # "idle"
      BY <1>0, <2>3, WorkFrame, NotIdle DEF HeldOK, Busy, Ends
    <3>2. CASE OpenRaw(w)
      BY <1>0, <3>2 DEF OpenRaw, Goto, TypeOK
    <3>3. CASE FillRaw(w)
      <4>1. pc'[w] = AfterRaw(held[w])
        BY <1>0, <3>3 DEF FillRaw, Step, Goto, TypeOK
      <4>2. ask[held[w]].kind \in Kinds
        BY <1>0, <3>1, KindsOf
      <4> QED
        BY <1>1, <3>1, <4>1, <4>2, AfterRawIs DEF Kinds
    <3>4. CASE \/ OpenResult(w) \/ FillResult(w) \/ OpenCentral(w) \/ FillCentral(w)
               \/ LoadConfig(w) \/ OpenConfig(w) \/ ServiceFails(w)
      BY <1>0, <3>4 DEF OpenResult, FillResult, OpenCentral, FillCentral, LoadConfig,
             OpenConfig, ServiceFails, Step, Goto, TypeOK
    <3>5. CASE SaveConfig(w)
      BY <1>0, <3>1, <3>5 DEF SaveConfig, Step, Goto, TypeOK
    <3>6. CASE NoMaps(w) \/ MapsExist(w) \/ MissMaps(w) \/ OpenMaps(w) \/ FillMaps(w)
      <4>1. served' = served
        BY <3>6 DEF NoMaps, MapsExist, MissMaps, OpenMaps, FillMaps, history
      <4>2. pc'[w] \in InMaps \cup {"succeeded"} => pc[w] \in InMaps
        BY <1>0, <3>6 DEF NoMaps, MapsExist, MissMaps, OpenMaps, FillMaps, AfterMaps, InMaps,
             Step, Goto, TypeOK
      <4>3. pc'[w] \in Copying => gainMap' # "absent"
        BY <1>0, <3>6 DEF NoMaps, MapsExist, MissMaps, OpenMaps, FillMaps, AfterMaps, Copying,
             Step, Goto, TypeOK
      <4>4. pc'[w] = "succeeded" => (gainFile => gainMap' # "absent")
        BY <1>0, <3>6 DEF NoMaps, MapsExist, MissMaps, OpenMaps, FillMaps, Step, Goto, TypeOK,
             shared
      <4> QED
        BY <1>1, <3>1, <4>1, <4>2, <4>3, <4>4 DEF EffectOK, TookEffect
    <3>7. CASE Conversion(w)
      <4>1. ask[held[w]].kind # "pedestal" /\ pc'[w] \in Convert \cup {"succeeded"}
        BY <1>0, <3>7 DEF KindOK, Conversion, LoadCalibration, CountFrames, NoFrameSelected,
             OpenOutput, FillOutput, RemoveRaw, Step, Goto, TypeOK, Convert
      <4> QED
        BY <1>1, <3>1, <4>1 DEF Convert
    <3>8. CASE Fail(w)
      BY <1>0, <3>8 DEF Fail, Step, Goto, TypeOK
    <3> QED
      BY <2>3, <3>2, <3>3, <3>4, <3>5, <3>6, <3>7, <3>8 DEF Works, Pedestal
  <2>4. CASE (\E v \in Writers \ {w} : Works(v)) \/ UNCHANGED vars
    BY <1>0, <2>1, <2>4, WorkFrame DEF vars, writers
  <2> QED
    BY <1>0, <2>1, <2>2, <2>3, <2>4, QueuePlaces, Steps
<1>3. \A r \in served' : ask'[r].kind = "pedestal"
  <2>1. ASSUME NEW w \in Writers, SaveConfig(w) PROVE ask[held[w]].kind = "pedestal"
    BY <1>0, <2>1 DEF SaveConfig, Step, KindOK, Service
  <2>2. \/ served' = served
        \/ \E w \in Writers : SaveConfig(w) /\ served' = served \cup {held[w]}
    <3>1. ASSUME NEW w \in Writers, Works(w), ~SaveConfig(w) PROVE served' = served
      <4>1. CASE OpenRaw(w) \/ FillRaw(w) \/ Fail(w) \/ Conversion(w)
        BY <4>1 DEF OpenRaw, FillRaw, Fail, Conversion, LoadCalibration, CountFrames,
               NoFrameSelected, OpenOutput, FillOutput, RemoveRaw, history
      <4>2. CASE Pedestal(w)
        BY <3>1, <4>2 DEF Pedestal, OpenResult, FillResult, OpenCentral, FillCentral, LoadConfig,
               OpenConfig, ServiceFails, NoMaps, MapsExist, MissMaps, OpenMaps,
            FillMaps, history
      <4> QED
        BY <3>1, <4>1, <4>2 DEF Works
    <3>2. Queue \/ UNCHANGED vars => served' = served
      BY QueueFrame DEF vars, history
    <3> QED
      BY <3>1, <3>2, Steps DEF SaveConfig
  <2> QED
    BY <1>1, <2>1, <2>2 DEF EffectOK
<1>4. ASSUME NEW r \in Requests, stage'[r] = "done", ask[r].kind = "pedestal"
      PROVE  TookEffect(r)'
  <2>1. stage[r] = "done" \/ \E w \in Writers : pc[w] = "succeeded" /\ held[w] = r
    BY <1>4, Confirming
  <2>2. TookEffect(r)
    BY <1>4, <2>1 DEF EffectOK
  <2> QED
    BY <1>1, <2>2 DEF TookEffect
<1> QED
  BY <1>1, <1>2, <1>3, <1>4 DEF EffectOK

(* A torn copy stays with its writer until it is whole or breaks off.       *)
LEMMA MapsStep == Core /\ MapsOK /\ [Next]_vars => MapsOK'
<1> SUFFICES ASSUME Core, MapsOK, [Next]_vars PROVE MapsOK'
  OBVIOUS
<1>0. TypeOK
  BY DEF Core
<1> DEFINE Kept(v) == /\ spoilt => spoilt'
                      /\ pc[v] \in Copying =>
                           pc'[v] \in Copying \/ spoilt' \/ gainMap' = "whole"
                      /\ gainMap' = "torn" =>
                           gainMap = "torn" \/ \E w \in Writers : pc'[w] \in Copying
<1>1. ASSUME NEW v \in Writers, NEW w \in Writers, Works(w) PROVE Kept(v)
  <2>1. \A u \in Writers \ {w} : pc'[u] = pc[u]
    BY <1>0, <1>1, WorkFrame
  <2>2. CASE Fail(w)
    BY <2>1, <2>2 DEF Fail, BreakOff, shared
  <2>3. CASE OpenMaps(w)
    BY <1>0, <2>1, <2>3 DEF OpenMaps, Step, Goto, TypeOK, Copying, history
  <2>4. CASE FillMaps(w)
    BY <2>1, <2>4 DEF FillMaps, history
  <2>5. CASE ~Fail(w) /\ ~OpenMaps(w) /\ ~FillMaps(w)
    <3>1. UNCHANGED <<spoilt, gainMap>>
      BY <1>1, <2>5 DEF Works, OpenRaw, FillRaw, Conversion, LoadCalibration, CountFrames,
           NoFrameSelected, OpenOutput, FillOutput, RemoveRaw, Pedestal, OpenResult, FillResult,
           OpenCentral, FillCentral, LoadConfig, OpenConfig, SaveConfig, ServiceFails, NoMaps,
           MapsExist, MissMaps, shared, history
    <3>2. pc[w] \notin Copying
      BY <1>1, <2>5 DEF Works, OpenRaw, FillRaw, Conversion, LoadCalibration, CountFrames,
           NoFrameSelected, OpenOutput, FillOutput, RemoveRaw, Pedestal, OpenResult, FillResult,
           OpenCentral, FillCentral, LoadConfig, OpenConfig, SaveConfig, ServiceFails, NoMaps,
           MapsExist, MissMaps, Step, Service, Copying
    <3> QED
      BY <2>1, <3>1, <3>2
  <2> QED
    BY <2>2, <2>3, <2>4, <2>5
<1>2. ASSUME NEW v \in Writers, Queue PROVE Kept(v)
  <2>1. UNCHANGED gainMap
    BY <1>2, QueueFrame DEF shared
  <2>2. CASE \E r \in Requests : Submit(r)
    BY <2>1, <2>2 DEF Submit, writers, history
  <2>3. ASSUME NEW w \in Writers, (\E r \in Requests : Take(w, r)) \/ Settle(w)
        PROVE  Kept(v)
    <3>1. pc[w] \notin Copying /\ UNCHANGED spoilt /\ \A u \in Writers \ {w} : pc'[u] = pc[u]
      BY <1>0, <2>3 DEF Take, Settle, Goto, TypeOK, Copying, Ends, history
    <3> QED
      BY <2>1, <3>1
  <2>4. ASSUME NEW w \in Writers, Die(w) \/ NoticeCut(w) PROVE Kept(v)
    <3>1. spoilt' = (spoilt \/ pc[w] \in Copying) /\ \A u \in Writers \ {w} : pc'[u] = pc[u]
      BY <1>0, <2>4 DEF Die, NoticeCut, Restart, BreakOff, Goto, TypeOK
    <3> QED
      BY <2>1, <3>1
  <2>5. ASSUME NEW w \in Writers, Cut(w) PROVE Kept(v)
    BY <2>1, <2>5 DEF Cut
  <2> QED
    BY <1>2, <2>2, <2>3, <2>4, <2>5 DEF Queue
<1>3. ASSUME NEW v \in Writers, UNCHANGED vars PROVE Kept(v)
  BY <1>3 DEF vars, writers, shared, history
<1>4. \A v \in Writers : Kept(v)
  BY <1>1, <1>2, <1>3, Steps
<1> HIDE DEF Kept
<1>5. CASE gainMap' = "torn" /\ Writers # {}
  BY <1>4, <1>5 DEF Kept, MapsOK
<1>6. CASE Writers = {}
  <2>1. ~(\E w \in Writers : Works(w)) /\ UNCHANGED <<gainMap, spoilt>>
    BY <1>6, Steps, QueueFrame DEF Queue, Submit, shared, history, vars
  <2> QED
    BY <1>6, <2>1 DEF MapsOK
<1> QED
  BY <1>5, <1>6 DEF MapsOK

(* A confirmed pedestal has been named in the stream configuration, and if  *)
(* there is a gain file, the pgroup has a copy of it that is whole unless a *)
(* writer still makes it or one broke off, also when a failure went through *)
(* the finally or the request was delivered again (detector_retrieve).      *)
THEOREM PedestalEffect == Spec => []PedestalTookEffect
<1>1. Init => EffectOK /\ MapsOK
  BY DEF Init, EffectOK, MapsOK, InMaps, Copying, W!Init
<1>2. TypeOK /\ EffectOK /\ MapsOK => PedestalTookEffect
  <2> SUFFICES ASSUME TypeOK, EffectOK, MapsOK, NEW r \in Requests, stage[r] = "done",
                      ask[r].kind = "pedestal"
               PROVE  r \in served /\ (gainFile => MapsCopied)
    BY DEF PedestalTookEffect
  <2>1. TookEffect(r)
    BY DEF EffectOK
  <2>2. gainMap \in {"absent", "torn", "whole"}
    BY DEF TypeOK
  <2> QED
    BY <2>1, <2>2 DEF TookEffect, MapsOK, MapsCopied
<1>3. Core => TypeOK
  BY DEF Core
<1> QED
  BY <1>1, <1>2, <1>3, EffectStep, MapsStep, CoreHolds, PTL DEF Spec

-----------------------------------------------------------------------------
(* A request that nobody was given up with has one writer at most, and it   *)
(* is taken while it has one.                                               *)
LEMMA Alone ==
  ASSUME HeldOK, NEW w \in Writers, Safe(w)
  PROVE  /\ held[w] \in Requests
         /\ stage[held[w]] = "taken"
         /\ \A v \in Writers \ {w} : Busy(v) => held[v] # held[w]
<1>1. Owns(w)
  BY DEF HeldOK, Safe, Owns
<1>2. \A v \in Writers : Busy(v) /\ held[v] = held[w] => Owns(v)
  BY DEF HeldOK, Safe, Owns
<1> QED
  BY <1>1, <1>2 DEF HeldOK, Safe

LEMMA OrphanedGrow == Core /\ [Next]_vars => orphaned \subseteq orphaned'
<1>1. CASE Queue
  BY <1>1 DEF Queue, Submit, Take, Settle, Die, Cut, NoticeCut, history
<1>2. CASE UNCHANGED vars
  BY <1>2 DEF vars, history
<1> QED
  BY <1>1, <1>2, WorkFrame, Steps DEF Core

(* Whoever is safe after a step was before, unless it just began.           *)
LEMMA SafeBefore ==
  ASSUME Core, [Next]_vars, NEW w \in Writers, Safe(w)', pc'[w] # "start"
  PROVE  Safe(w) /\ held'[w] = held[w]
<1>0. TypeOK /\ HeldOK
  BY DEF Core
<1>1. orphaned \subseteq orphaned'
  BY OrphanedGrow
<1>2. held'[w] = held[w] /\ Busy(w)
  <2>1. CASE Queue
    BY <1>0, <2>1, QueuePlaces DEF Safe, Busy
  <2>2. CASE UNCHANGED vars
    BY <2>2 DEF vars, writers, Safe, Busy
  <2>3. ASSUME NEW v \in Writers, Works(v) PROVE held'[w] = held[w] /\ Busy(w)
    BY <1>0, <2>3, WorkFrame, NotIdle DEF Safe, Busy, Ends
  <2> QED
    BY <2>1, <2>2, <2>3, Steps
<1> QED
  BY <1>1, <1>2 DEF Safe

(* A step changes nothing of a request that is safe with another writer, or *)
(* confirmed.                                                               *)
LEMMA OthersStay ==
  ASSUME Core, NEW w \in Writers, Works(w), NEW r \in Requests,
         (\E v \in Writers \ {w} : Safe(v) /\ held[v] = r) \/ Confirmed(r)
  PROVE  file'[r] = file[r] /\ result'[r] = result[r] /\ central'[r] = central[r]
<1>0. TypeOK /\ HeldOK
  BY DEF Core
<1>1. Busy(w)
  BY <1>0, WorkFrame, NotIdle DEF Busy, Ends
<1>2. ASSUME held[w] = r PROVE FALSE
  <2>1. CASE \E v \in Writers \ {w} : Safe(v) /\ held[v] = r
    BY <1>0, <1>1, <1>2, <2>1, Alone
  <2>2. CASE Confirmed(r)
    BY <1>0, <1>1, <1>2, <2>2, Alone DEF Confirmed, Safe
  <2> QED
    BY <2>1, <2>2
<1> QED
  BY <1>0, <1>2, WorkFiles

DataOf(w) ==
  /\ pc[w] \in Thread \ {"start", "raw", "remove"} => RawIsWhole(w)
  /\ pc[w] = "remove" => Whole(held[w], "data")
  /\ pc[w] = "succeeded" => \E p \in Places : Whole(held[w], p)

LEMMA DataWork ==
  ASSUME Core, NEW w \in Writers, Works(w), Safe(w), DataOf(w)
  PROVE  DataOf(w)'
<1>0. TypeOK /\ HeldOK /\ KindOK
  BY DEF Core
<1>1. PICK h \in Requests : h = held[w]
  BY <1>0, Alone
<1>2. held'[w] = h
  BY <1>0, <1>1, WorkFrame
<1>3. PICK p \in Places : p = place[w]
  BY <1>0 DEF TypeOK
<1>4. DOMAIN file = Requests /\ DOMAIN file[h] = Places /\ "data" \in Places
  BY <1>0 DEF TypeOK, Places
<1>5. pc[w] \in Convert => p # "data"
  <2> SUFFICES ASSUME pc[w] \in Convert PROVE p # "data"
    OBVIOUS
  <2>1. pc[w] \in Thread \ {"start"}
    BY DEF Convert, Thread
  <2>2. ask[h].kind \in {"export", "shrink"} /\ p \in RawPlaces(h)
    BY <1>0, <1>1, <1>3, <2>1 DEF KindOK
  <2> QED
    BY <2>2 DEF RawPlaces
<1>6. CASE OpenRaw(w) \/ Fail(w)
  <2>1. pc'[w] \in {"raw", "failed"}
    BY <1>0, <1>6 DEF OpenRaw, Fail, Step, Goto, TypeOK
  <2> QED
    BY <2>1 DEF DataOf, Thread, Raw, Analysis, Service, Maps, Copying, Convert
<1>7. CASE FillRaw(w)
  <2>1. file'[h][p] = "raw" /\ place'[w] = p
    BY <1>1, <1>3, <1>4, <1>7 DEF FillRaw, Put, Step
  <2>2. pc'[w] \in {"succeeded", "analyse", "convert"}
    BY <1>0, <1>7, AfterRawIs DEF FillRaw, Step, Goto, TypeOK
  <2>3. RawIsWhole(w)' /\ \E q \in Places : Whole(held[w], q)'
    BY <1>2, <1>3, <2>1 DEF RawIsWhole, Whole
  <2> QED
    BY <2>2, <2>3 DEF DataOf
<1>8. CASE Pedestal(w) \/ LoadCalibration(w) \/ CountFrames(w) \/ NoFrameSelected(w)
  <2>1. file' = file /\ place' = place
    BY <1>8 DEF Pedestal, OpenResult, FillResult, OpenCentral, FillCentral, LoadConfig, OpenConfig,
              SaveConfig, ServiceFails, NoMaps, MapsExist, MissMaps, OpenMaps, FillMaps, LoadCalibration,
              CountFrames, NoFrameSelected, Step
  <2>2. pc[w] \in Thread \ {"start", "raw", "remove"} /\ pc'[w] # "remove"
    <3>1. \/ pc[w] = "convert" /\ Goto(w, "export")
          \/ \E from \in Thread \ {"start", "raw", "remove"},
                to \in (Thread \cup Ends) \ {"remove"} : Step(w, from, to)
      BY <1>8 DEF Pedestal, OpenResult, FillResult, OpenCentral, FillCentral, LoadConfig, OpenConfig,
              SaveConfig, ServiceFails, NoMaps, MapsExist, MissMaps, OpenMaps, FillMaps, LoadCalibration,
              CountFrames, NoFrameSelected, AfterMaps, Thread, Ends, Analysis, Service, Maps, Copying, Convert
    <3> QED
      BY <1>0, <3>1 DEF Step, Goto, TypeOK, Thread, Convert
  <2>3. file[h][p] = "raw"
    BY <1>1, <1>3, <2>2 DEF DataOf, RawIsWhole
  <2>4. RawIsWhole(w)' /\ \E q \in Places : Whole(held[w], q)'
    BY <1>2, <1>3, <2>1, <2>3 DEF RawIsWhole, Whole
  <2> QED
    BY <2>2, <2>4 DEF DataOf
<1>9. CASE OpenOutput(w)
  <2>1. pc'[w] = "exporting" /\ place' = place /\ pc[w] \in Convert
    BY <1>0, <1>9 DEF OpenOutput, Step, Goto, TypeOK, Convert
  <2>2. file'[h][p] = file[h][p] /\ file[h][p] = "raw"
    BY <1>1, <1>3, <1>4, <1>5, <1>9, <2>1 DEF OpenOutput, Put, CanOpen, RawIsWhole
  <2> QED
    BY <1>2, <1>3, <2>1, <2>2 DEF DataOf, RawIsWhole
<1>10. CASE FillOutput(w)
  <2>1. file'[h]["data"] = using[w] /\ using[w] \notin {"absent", "torn"}
    BY <1>0, <1>1, <1>4, <1>10, RetrieveAssumption DEF FillOutput, Put, TypeOK
  <2>2. pc'[w] \in {"remove", "succeeded"}
    BY <1>0, <1>10 DEF FillOutput, Step, Goto, TypeOK
  <2> QED
    BY <1>2, <1>4, <2>1, <2>2 DEF DataOf, Whole, Thread, Raw, Analysis, Service, Maps, Copying, Convert
<1>11. CASE RemoveRaw(w)
  <2>1. pc'[w] = "succeeded" /\ pc[w] = "remove"
    BY <1>0, <1>11 DEF RemoveRaw, Step, Goto, TypeOK
  <2>2. p # "data" /\ Whole(h, "data")
    BY <1>1, <1>5, <2>1 DEF DataOf, Convert
  <2>3. file'[h]["data"] = file[h]["data"]
    BY <1>1, <1>3, <1>4, <1>11, <2>2 DEF RemoveRaw, Put
  <2> QED
    BY <1>2, <1>4, <2>1, <2>2, <2>3, NotIdle DEF DataOf, Whole, Thread, Raw, Analysis, Service, Maps, Copying,
                                       Convert
<1> QED
  BY <1>6, <1>7, <1>8, <1>9, <1>10, <1>11 DEF Works, Conversion

LEMMA DataStep == Core /\ DataOK /\ [Next]_vars => DataOK'
<1> SUFFICES ASSUME Core, DataOK, [Next]_vars PROVE DataOK'
  OBVIOUS
<1>0. TypeOK /\ HeldOK /\ KindOK
  BY DEF Core
<1>1. ASSUME NEW w \in Writers, Safe(w)' PROVE DataOf(w)'
  <2>1. CASE pc'[w] = "start"
    BY <2>1 DEF DataOf
  <2>2. CASE pc'[w] # "start"
    <3>1. Safe(w) /\ held'[w] = held[w] /\ DataOf(w) /\ held[w] \in Requests
      BY <1>0, <1>1, <2>2, SafeBefore, Alone DEF DataOK, DataOf
    <3>2. CASE Works(w)
      BY <3>1, <3>2, DataWork
    <3>3. ASSUME pc'[w] = pc[w], place'[w] = place[w], file'[held[w]] = file[held[w]]
          PROVE  DataOf(w)'
      BY <3>1, <3>3 DEF DataOf, RawIsWhole, Whole
    <3>4. ASSUME NEW v \in Writers \ {w}, Works(v) PROVE DataOf(w)'
      BY <1>0, <3>1, <3>3, <3>4, WorkFrame, OthersStay
    <3>5. CASE Queue
      BY <1>0, <1>1, <2>2, <3>3, <3>5, QueueFrame, QueuePlaces DEF Safe, Busy
    <3>6. CASE UNCHANGED vars
      BY <3>3, <3>6 DEF vars, writers
    <3> QED
      BY <3>2, <3>4, <3>5, <3>6, Steps
  <2> QED
    BY <2>1, <2>2
<1>2. DataSurvives'
  <2> SUFFICES ASSUME NEW r \in Requests, Confirmed(r)' PROVE \E p \in Places : Whole(r, p)'
    BY DEF DataSurvives
  <2>1. CASE Confirmed(r)
    <3>1. \E p \in Places : Whole(r, p)
      BY <2>1 DEF DataOK, DataSurvives
    <3>2. file'[r] = file[r]
      BY <2>1, OthersStay, QueueFrame, Steps DEF vars
    <3> QED
      BY <3>1, <3>2 DEF Whole
  <2>2. CASE ~Confirmed(r)
    <3>1. PICK w \in Writers : pc[w] = "succeeded" /\ held[w] = r /\ UNCHANGED <<file, shared, history>>
      <4>1. stage[r] = "done" => r \in orphaned /\ r \notin orphaned'
        BY <2>2 DEF Confirmed
      <4>2. orphaned \subseteq orphaned'
        BY OrphanedGrow
      <4> QED
        BY <4>1, <4>2, Confirming DEF Confirmed
    <3>2. Safe(w)
      BY <3>1 DEF Safe, Busy, Confirmed, history
    <3> QED
      BY <3>1, <3>2 DEF DataOK, Whole
  <2> QED
    BY <2>1, <2>2
<1> QED
  BY <1>1, <1>2 DEF DataOK, DataOf

(* The data of a confirmed request whose writers nobody gave up is on disk, *)
(* for all kinds of requests and however many attempts before died          *)
(* (detector_retrieve, convert_file).                                       *)
THEOREM DataKept == Spec => []DataSurvives
<1>1. Init => DataOK
  BY DEF Init, DataOK, Safe, Busy, DataSurvives, Confirmed, W!Init
<1>2. DataOK => DataSurvives
  BY DEF DataOK
<1> QED
  BY <1>1, <1>2, DataStep, CoreHolds, PTL DEF Spec

-----------------------------------------------------------------------------
(* Only an export removes the raw file, and only one asked to.              *)
Removes(r) == ask[r].kind = "export" /\ ask[r].removeRaw

RawIn(r) == \E p \in RawPlaces(r) : file[r][p] = "raw"

(* The raw file of a confirmed request is where detector_retrieve put it,   *)
(* whole, unless the request asked for its removal and wrote its output.    *)
(* In particular a request without a conversion has its output file:        *)
(* OutputExists fails of those with compression or roi alone.               *)
RawIsKept == \A r \in Requests : Confirmed(r) /\ ~Removes(r) => RawIn(r)

RawOf(w) ==
  /\ pc[w] = "remove" => Removes(held[w])
  /\ pc[w] = "succeeded" /\ ~Removes(held[w]) => RawIn(held[w])

RawOK == (\A w \in Writers : Safe(w) => RawOf(w)) /\ RawIsKept

LEMMA RawWork ==
  ASSUME Core, NEW w \in Writers, Works(w), Safe(w), DataOf(w), RawOf(w)
  PROVE  RawOf(w)'
<1>0. TypeOK /\ HeldOK /\ KindOK
  BY DEF Core
<1>1. PICK h \in Requests : h = held[w]
  BY <1>0, Alone
<1>2. held'[w] = h /\ ask' = ask
  BY <1>0, <1>1, WorkFrame
<1>3. PICK p \in Places : p = place[w]
  BY <1>0 DEF TypeOK
<1>4. DOMAIN file = Requests /\ DOMAIN file[h] = Places /\ "data" \in Places
  BY <1>0 DEF TypeOK, Places
<1>5. pc[w] \in Thread \ {"start"} => p \in RawPlaces(h)
  BY <1>0, <1>1, <1>3 DEF KindOK
<1>6. RawPlaces(h)' = RawPlaces(h) /\ (Removes(h)' <=> Removes(h))
  BY <1>2 DEF RawPlaces, Removes
<1>7. ASSUME p \in RawPlaces(h), file'[h][p] = "raw" PROVE RawIn(held[w])'
  BY <1>2, <1>6, <1>7 DEF RawIn
<1>8. CASE OpenRaw(w) \/ Fail(w) \/ LoadCalibration(w) \/ OpenOutput(w)
  <2>1. pc'[w] \in {"raw", "failed", "export", "exporting"}
    BY <1>0, <1>8 DEF OpenRaw, Fail, LoadCalibration, OpenOutput, Step, Goto, TypeOK
  <2> QED
    BY <2>1 DEF RawOf
<1>9. CASE FillRaw(w)
  <2>1. file'[h][p] = "raw" /\ pc[w] = "raw"
    BY <1>1, <1>3, <1>4, <1>9 DEF FillRaw, Put, Step
  <2>2. pc'[w] \in {"succeeded", "analyse", "convert"}
    BY <1>0, <1>9, AfterRawIs DEF FillRaw, Step, Goto, TypeOK
  <2> QED
    BY <1>5, <1>7, <2>1, <2>2 DEF RawOf, Thread, Raw
<1>10. CASE Pedestal(w) \/ CountFrames(w) \/ NoFrameSelected(w)
  <2>1. file' = file
    BY <1>10 DEF Pedestal, OpenResult, FillResult, OpenCentral, FillCentral, LoadConfig, OpenConfig,
              SaveConfig, ServiceFails, NoMaps, MapsExist, MissMaps, OpenMaps, FillMaps,
              CountFrames, NoFrameSelected
  <2>2. pc[w] \in Thread \ {"start", "raw", "remove"} /\ pc'[w] # "remove"
    <3>1. \E from \in Thread \ {"start", "raw", "remove"},
             to \in (Thread \cup Ends) \ {"remove"} : Step(w, from, to)
      BY <1>10 DEF Pedestal, OpenResult, FillResult, OpenCentral, FillCentral, LoadConfig, OpenConfig,
              SaveConfig, ServiceFails, NoMaps, MapsExist, MissMaps, OpenMaps, FillMaps, CountFrames,
              NoFrameSelected, AfterMaps, Thread, Ends, Analysis, Service, Maps, Copying, Convert
    <3> QED
      BY <1>0, <3>1 DEF Step, Goto, TypeOK
  <2>3. file'[h][p] = "raw"
    BY <1>1, <1>3, <2>1, <2>2 DEF DataOf, RawIsWhole
  <2> QED
    BY <1>5, <1>7, <2>2, <2>3 DEF RawOf
<1>11. CASE FillOutput(w)
  <2>1. pc[w] = "exporting" /\ file[h][p] = "raw"
    BY <1>1, <1>3, <1>11 DEF FillOutput, Step, RawIsWhole
  <2>2. pc'[w] = IF ask[h].removeRaw THEN "remove" ELSE "succeeded"
    BY <1>0, <1>1, <1>11 DEF FillOutput, Step, Goto, TypeOK
  <2>3. ask[h].kind = "export"
    BY <1>0, <1>1, <2>1 DEF KindOK
  <2>4. p \in RawPlaces(h) /\ p # "data"
    BY <1>5, <2>1, <2>3 DEF Thread, Convert, RawPlaces
  <2>5. file'[h][p] = "raw"
    BY <1>1, <1>4, <1>11, <2>1, <2>4 DEF FillOutput, Put
  <2>6. RawIn(held[w])'
    BY <1>7, <2>4, <2>5
  <2>7. pc'[w] = "remove" => Removes(h)'
    BY <1>6, <2>2, <2>3 DEF Removes
  <2> QED
    BY <1>2, <2>6, <2>7 DEF RawOf
<1>12. CASE RemoveRaw(w)
  <2>1. pc'[w] = "succeeded" /\ pc[w] = "remove"
    BY <1>0, <1>12 DEF RemoveRaw, Step, Goto, TypeOK
  <2>2. Removes(h)'
    BY <1>1, <1>6, <2>1 DEF RawOf
  <2> QED
    BY <1>2, <2>1, <2>2 DEF RawOf
<1> QED
  BY <1>8, <1>9, <1>10, <1>11, <1>12 DEF Works, Conversion

LEMMA RawStep == Core /\ DataOK /\ RawOK /\ [Next]_vars => RawOK'
<1> SUFFICES ASSUME Core, DataOK, RawOK, [Next]_vars PROVE RawOK'
  OBVIOUS
<1>0. TypeOK /\ HeldOK /\ KindOK
  BY DEF Core
<1>a. ask' = ask
  <2>1. Queue \/ UNCHANGED vars => ask' = ask
    BY QueueFrame DEF vars, requests, given
  <2> QED
    BY <1>0, <2>1, WorkFrame, Steps
<1>b. ASSUME NEW r \in Requests, file'[r] = file[r]
      PROVE  (RawIn(r)' <=> RawIn(r)) /\ (Removes(r)' <=> Removes(r))
  BY <1>a, <1>b DEF RawIn, RawPlaces, Removes
<1>1. ASSUME NEW w \in Writers, Safe(w)' PROVE RawOf(w)'
  <2>1. CASE pc'[w] = "start"
    BY <2>1 DEF RawOf
  <2>2. CASE pc'[w] # "start"
    <3>1. Safe(w) /\ held'[w] = held[w] /\ DataOf(w) /\ RawOf(w)
      BY <1>1, <2>2, SafeBefore DEF DataOK, DataOf, RawOK
    <3>2. PICK h \in Requests : h = held[w] /\ h = held'[w]
      BY <1>0, <3>1, Alone
    <3>3. CASE Works(w)
      BY <3>1, <3>3, RawWork
    <3>4. ASSUME pc'[w] = pc[w], file'[h] = file[h] PROVE RawOf(w)'
      BY <1>b, <3>1, <3>2, <3>4 DEF RawOf
    <3>5. ASSUME NEW v \in Writers \ {w}, Works(v) PROVE RawOf(w)'
      BY <1>0, <3>1, <3>2, <3>4, <3>5, WorkFrame, OthersStay
    <3>6. CASE Queue
      BY <1>0, <1>1, <2>2, <3>4, <3>6, QueueFrame, QueuePlaces DEF Safe, Busy
    <3>7. CASE UNCHANGED vars
      BY <3>4, <3>7 DEF vars, writers
    <3> QED
      BY <3>3, <3>5, <3>6, <3>7, Steps
  <2> QED
    BY <2>1, <2>2
<1>2. RawIsKept'
  <2> SUFFICES ASSUME NEW r \in Requests, Confirmed(r)', ~Removes(r)' PROVE RawIn(r)'
    BY DEF RawIsKept
  <2>1. CASE Confirmed(r)
    <3>1. file'[r] = file[r]
      BY <2>1, OthersStay, QueueFrame, Steps DEF vars
    <3> QED
      BY <1>b, <2>1, <3>1 DEF RawOK, RawIsKept
  <2>2. CASE ~Confirmed(r)
    <3>1. PICK w \in Writers : pc[w] = "succeeded" /\ held[w] = r /\ UNCHANGED <<file, shared, history>>
      <4>1. stage[r] = "done" => r \in orphaned /\ r \notin orphaned'
        BY <2>2 DEF Confirmed
      <4>2. orphaned \subseteq orphaned'
        BY OrphanedGrow
      <4> QED
        BY <4>1, <4>2, Confirming DEF Confirmed
    <3>2. Safe(w)
      BY <3>1 DEF Safe, Busy, Confirmed, history
    <3>3. ~Removes(r) => RawIn(r)
      BY <3>1, <3>2 DEF RawOK, RawOf
    <3> QED
      BY <1>b, <3>1, <3>3
  <2> QED
    BY <2>1, <2>2
<1> QED
  BY <1>1, <1>2 DEF RawOK

(* A confirmed request keeps its raw file unless it asked for its removal,  *)
(* however many attempts before died (remove_raw_files of convert_file,     *)
(* the raw_data directory and daqtmp of detector_retrieve).                 *)
THEOREM RawKept == Spec => []RawIsKept
<1>1. Init => DataOK /\ RawOK
  BY DEF Init, DataOK, Safe, Busy, DataSurvives, Confirmed, RawOK, RawIsKept, W!Init
<1>2. RawOK => RawIsKept
  BY DEF RawOK
<1> QED
  BY <1>1, <1>2, DataStep, RawStep, CoreHolds, PTL DEF Spec

-----------------------------------------------------------------------------
PedestalOf(w) ==
  /\ pc[w] \in {"copy", "copying"} => result[held[w]] = "good"
  /\ pc[w] \in {"update", "open config", "save config", "maps", "open maps",
                      "copying maps"}
       => central[held[w]] = "good"
  /\ pc[w] = "succeeded" /\ ask[held[w]].kind = "pedestal" => central[held[w]] = "good"

LEMMA PedestalWork ==
  ASSUME Core, NEW w \in Writers, Works(w), Safe(w), PedestalOf(w)
  PROVE  PedestalOf(w)'
<1>0. TypeOK /\ HeldOK /\ KindOK
  BY DEF Core
<1>1. PICK h \in Requests : h = held[w]
  BY <1>0, Alone
<1>2. held'[w] = h /\ ask' = ask
  BY <1>0, <1>1, WorkFrame
<1>3. ask[h].kind \in Kinds
  BY <1>0, KindsOf
<1>4. CASE OpenRaw(w) \/ Fail(w) \/ OpenResult(w) \/ ServiceFails(w)
  <2>1. pc'[w] \in {"raw", "failed", "result", "maps failing"}
    BY <1>0, <1>4 DEF OpenRaw, Fail, OpenResult, ServiceFails, Step, Goto, TypeOK
  <2> QED
    BY <2>1 DEF PedestalOf
<1>5. CASE FillRaw(w)
  <2>1. pc'[w] = AfterRaw(h)
    BY <1>0, <1>1, <1>5 DEF FillRaw, Step, Goto, TypeOK
  <2>2. pc'[w] = "succeeded" => ask[h].kind = "plain"
    BY <1>3, <2>1, AfterRawIs DEF Kinds
  <2>3. pc'[w] \in {"succeeded", "analyse", "convert"}
    BY <1>3, <2>1, AfterRawIs DEF Kinds
  <2> QED
    BY <1>2, <2>2, <2>3 DEF PedestalOf
<1>6. CASE FillResult(w)
  <2>1. \/ pc'[w] = "copy" /\ result'[h] = "good"
        \/ pc'[w] = "failed"
    BY <1>0, <1>1, <1>6 DEF FillResult, Step, Goto, TypeOK
  <2> QED
    BY <1>2, <2>1 DEF PedestalOf
<1>7. CASE OpenCentral(w)
  <2>1. pc[w] = "copy" /\ pc'[w] = "copying" /\ result' = result
    BY <1>0, <1>7 DEF OpenCentral, Step, Goto, TypeOK
  <2> QED
    BY <1>1, <1>2, <2>1 DEF PedestalOf
<1>8. CASE FillCentral(w)
  <2>1. pc[w] = "copying" /\ pc'[w] = "update" /\ central'[h] = result[h]
    BY <1>0, <1>1, <1>8 DEF FillCentral, Step, Goto, TypeOK
  <2> QED
    BY <1>1, <1>2, <2>1 DEF PedestalOf
<1>9. CASE LoadConfig(w) \/ OpenConfig(w) \/ SaveConfig(w)
  <2>1. /\ pc[w] \in {"update", "open config", "save config"}
        /\ pc'[w] \in {"open config", "save config", "maps"}
        /\ central' = central
    BY <1>0, <1>9 DEF LoadConfig, OpenConfig, SaveConfig, Step, Goto, TypeOK, shared
  <2> QED
    BY <1>1, <1>2, <2>1 DEF PedestalOf
<1>10. CASE NoMaps(w) \/ MapsExist(w) \/ MissMaps(w) \/ OpenMaps(w) \/ FillMaps(w)
  <2>1. /\ \/ pc[w] \in {"maps", "open maps", "copying maps"}
           \/ pc'[w] \in {"open maps failing", "copying maps failing", "failed"}
        /\ pc'[w] \in {"open maps", "open maps failing", "copying maps", "copying maps failing",
                        "succeeded", "failed"}
        /\ central' = central
    BY <1>0, <1>10 DEF NoMaps, MapsExist, MissMaps, OpenMaps, FillMaps, AfterMaps, Step, Goto,
         TypeOK, shared
  <2> QED
    BY <1>1, <1>2, <2>1 DEF PedestalOf
<1>11. CASE Conversion(w)
  <2>1. ask[h].kind # "pedestal" /\ pc'[w] \in Convert \cup {"succeeded"}
    BY <1>0, <1>1, <1>11 DEF KindOK, Conversion, LoadCalibration, CountFrames, NoFrameSelected,
         OpenOutput, FillOutput, RemoveRaw, Step, Goto, TypeOK, Convert
  <2> QED
    BY <1>2, <2>1 DEF PedestalOf, Convert
<1> QED
  BY <1>4, <1>5, <1>6, <1>7, <1>8, <1>9, <1>10, <1>11 DEF Works, Pedestal

(* Once in service and never delivered again: nobody copies it anymore.     *)
ServedOf(r) ==
  /\ central[r] = "good"
  /\ stage[r] \notin {"unsent", "waiting"}
  /\ \A w \in Writers : held[w] = r => pc[w] \notin Unserved

LEMMA ServedWork ==
  ASSUME Core, PedestalOK, NEW w \in Writers, Works(w), NEW r \in served' \ again'
  PROVE  ServedOf(r)'
<1>0. TypeOK /\ HeldOK /\ KindOK
  BY DEF Core
<1>1. /\ UNCHANGED <<stage, held, again, orphaned>>
      /\ \A v \in Writers \ {w} : pc'[v] = pc[v]
      /\ pc[w] # "idle"
  BY <1>0, WorkFrame, NotIdle DEF Ends
<1>2. held[w] \in Requests
  BY <1>0, <1>1 DEF HeldOK, Busy
<1>3. CASE SaveConfig(w) /\ r = held[w]
  <2>1. Safe(w)
    BY <1>0, <1>1, <1>3 DEF Safe, Busy, TypeOK
  <2>2. central[r] = "good" /\ central' = central /\ pc'[w] = "maps"
    BY <1>0, <1>3, <2>1 DEF PedestalOK, SaveConfig, Step, Goto, TypeOK
  <2>3. stage[r] = "taken" /\ \A v \in Writers \ {w} : held[v] = r => pc[v] = "idle"
    BY <1>0, <1>3, <2>1, Alone DEF Busy
  <2> QED
    BY <1>1, <2>2, <2>3 DEF ServedOf, Unserved, Raw, Analysis, Service
<1>4. CASE ~(SaveConfig(w) /\ r = held[w])
  <2>1. r \in served /\ ServedOf(r)
    <3>1. r \in served' /\ again' = again
      BY <1>1
    <3>2. CASE OpenRaw(w) \/ FillRaw(w) \/ Fail(w) \/ Conversion(w)
      <4>1. served' = served
        BY <3>2 DEF OpenRaw, FillRaw, Fail, Conversion, LoadCalibration, CountFrames,
               NoFrameSelected, OpenOutput, FillOutput, RemoveRaw, history
      <4> QED
        BY <1>1, <3>1, <4>1 DEF PedestalOK, ServedOf
    <3>3. CASE OpenResult(w) \/ FillResult(w) \/ OpenCentral(w) \/ FillCentral(w)
      <4>1. served' = served
        BY <3>3 DEF OpenResult, FillResult, OpenCentral, FillCentral, history
      <4> QED
        BY <1>1, <3>1, <4>1 DEF PedestalOK, ServedOf
    <3>4. CASE LoadConfig(w) \/ OpenConfig(w) \/ ServiceFails(w) \/ NoMaps(w)
               \/ MapsExist(w) \/ MissMaps(w) \/ OpenMaps(w) \/ FillMaps(w)
      <4>1. served' = served
        BY <3>4 DEF LoadConfig, OpenConfig, ServiceFails, NoMaps, MapsExist, MissMaps, OpenMaps,
            FillMaps, history
      <4> QED
        BY <1>1, <3>1, <4>1 DEF PedestalOK, ServedOf
    <3>5. CASE SaveConfig(w)
      <4>1. served' = served \cup {held[w]} /\ r # held[w]
        BY <1>4, <3>5 DEF SaveConfig
      <4> QED
        BY <1>1, <3>1, <4>1 DEF PedestalOK, ServedOf
    <3> QED
      BY <3>2, <3>3, <3>4, <3>5 DEF Works, Pedestal
  <2>2. CASE r # held[w]
    BY <1>0, <1>1, <2>1, <2>2, WorkFiles DEF ServedOf, TypeOK
  <2>3. CASE r = held[w]
    <3>1. pc[w] \notin Unserved
      BY <2>1, <2>3 DEF ServedOf
    <3>2. central' = central /\ pc'[w] \notin Unserved
      <4>1. CASE NoMaps(w) \/ MapsExist(w) \/ MissMaps(w) \/ OpenMaps(w) \/ FillMaps(w)
        BY <1>0, <4>1 DEF NoMaps, MapsExist, MissMaps, OpenMaps, FillMaps, AfterMaps, Step,
               Goto, TypeOK, shared, Unserved, Raw, Analysis, Service
      <4>2. CASE Conversion(w)
        BY <1>0, <4>2 DEF Conversion, LoadCalibration, CountFrames, NoFrameSelected,
               OpenOutput, FillOutput, RemoveRaw, Step, Goto, TypeOK, shared,
               Unserved, Raw, Analysis, Service
      <4>3. CASE Fail(w)
        BY <1>0, <4>3 DEF Fail, Step, Goto, TypeOK, shared, Unserved, Raw, Analysis, Service
      <4>4. ~OpenRaw(w) /\ ~FillRaw(w)
        BY <3>1 DEF OpenRaw, FillRaw, Step, Unserved, Raw
      <4>5. /\ ~OpenResult(w) /\ ~FillResult(w) /\ ~OpenCentral(w) /\ ~FillCentral(w)
            /\ ~LoadConfig(w) /\ ~OpenConfig(w) /\ ~SaveConfig(w) /\ ~ServiceFails(w)
        BY <3>1 DEF OpenResult, FillResult, OpenCentral, FillCentral, LoadConfig, OpenConfig,
               SaveConfig, ServiceFails, Step, Unserved, Analysis, Service
      <4> QED
        BY <4>1, <4>2, <4>3, <4>4, <4>5 DEF Works, Pedestal
    <3> QED
      BY <1>1, <2>1, <3>2 DEF ServedOf
  <2> QED
    BY <2>2, <2>3
<1> QED
  BY <1>3, <1>4

LEMMA ServedQueue ==
  ASSUME Core, PedestalOK, Queue, NEW r \in served' \ again'
  PROVE  ServedOf(r)'
<1>0. TypeOK /\ HeldOK
  BY DEF Core
<1>1. served' = served /\ central' = central /\ again \subseteq again'
  <2>1. again \subseteq again'
    BY DEF Queue, Submit, Take, Settle, Die, Cut, Unlink, NoticeCut, history
  <2> QED
    BY <2>1, QueueFrame DEF shared
<1>2. ServedOf(r) /\ r \in Requests /\ r \notin again'
  BY <1>0, <1>1 DEF PedestalOK, ServedOf, TypeOK
<1>3. stage'[r] \notin {"unsent", "waiting"}
  <2>1. ASSUME NEW q \in Requests, Submit(q) \/ \E w \in Writers : Take(w, q)
        PROVE  stage'[r] = stage[r]
    BY <1>0, <1>2, <2>1 DEF ServedOf, Submit, Take, W!Submit, W!Take, W!Move, TypeOK
  <2>2. ASSUME NEW w \in Writers, Settle(w) PROVE stage'[r] \in {stage[r], "done", "refused"}
    BY <1>0, <1>2, <2>2 DEF Settle, W!Settle, W!Move, TypeOK
  <2>3. ASSUME NEW w \in Writers, Die(w) \/ Cut(w) PROVE stage'[r] = stage[r]
    <3>1. r # held[w]
      BY <1>2, <2>3 DEF Die, Cut, Unlink
    <3> QED
      BY <1>0, <1>2, <2>3, <3>1 DEF Die, Cut, Unlink, W!GiveBack, W!Move, TypeOK
  <2>4. ASSUME NEW w \in Writers, NoticeCut(w) PROVE stage' = stage
    BY <2>4 DEF NoticeCut, requests, given
  <2> QED
    BY <1>2, <2>1, <2>2, <2>3, <2>4 DEF Queue, ServedOf
<1>4. ASSUME NEW w \in Writers, held'[w] = r PROVE pc'[w] \notin Unserved
  <2>1. CASE pc'[w] = "idle"
    BY <2>1 DEF Unserved, Raw, Analysis, Service
  <2>2. CASE pc'[w] = pc[w] /\ held'[w] = held[w]
    BY <1>2, <1>4, <2>2 DEF ServedOf
  <2>3. CASE pc'[w] = "start" /\ ~(pc'[w] = pc[w] /\ held'[w] = held[w])
    <3>1. \E q \in Requests : Take(w, q) /\ held'[w] = q
      BY <1>0, <2>3 DEF Queue, Submit, Take, Settle, Die, Cut, NoticeCut, Restart, Goto, writers, TypeOK
    <3> QED
      BY <1>2, <1>4, <3>1 DEF ServedOf, Take, W!Take, W!Move
  <2> QED
    BY <1>0, <2>1, <2>2, <2>3, QueuePlaces
<1> QED
  BY <1>1, <1>2, <1>3, <1>4 DEF ServedOf

LEMMA PedestalStep == Core /\ EffectOK /\ PedestalOK /\ [Next]_vars => PedestalOK'
<1> SUFFICES ASSUME Core, EffectOK, PedestalOK, [Next]_vars PROVE PedestalOK'
  OBVIOUS
<1>0. TypeOK /\ HeldOK /\ KindOK
  BY DEF Core
<1>1. ASSUME NEW w \in Writers, Safe(w)' PROVE PedestalOf(w)'
  <2>1. CASE pc'[w] = "start"
    BY <2>1 DEF PedestalOf
  <2>2. CASE pc'[w] # "start"
    <3>1. Safe(w) /\ held'[w] = held[w] /\ PedestalOf(w) /\ held[w] \in Requests
      BY <1>0, <1>1, <2>2, SafeBefore, Alone DEF PedestalOK, PedestalOf
    <3>2. CASE Works(w)
      BY <3>1, <3>2, PedestalWork
    <3>3. ASSUME pc'[w] = pc[w], ask' = ask, result'[held[w]] = result[held[w]],
                 central'[held[w]] = central[held[w]]
          PROVE  PedestalOf(w)'
      BY <3>1, <3>3 DEF PedestalOf
    <3>4. ASSUME NEW v \in Writers \ {w}, Works(v) PROVE PedestalOf(w)'
      BY <1>0, <3>1, <3>3, <3>4, WorkFrame, OthersStay
    <3>5. CASE Queue
      BY <1>0, <1>1, <2>2, <3>3, <3>5, QueueFrame, QueuePlaces DEF Safe, Busy, shared
    <3>6. CASE UNCHANGED vars
      BY <3>3, <3>6 DEF vars, requests, given, writers, shared
    <3> QED
      BY <3>2, <3>4, <3>5, <3>6, Steps
  <2> QED
    BY <2>1, <2>2
<1>2. ASSUME NEW r \in Requests, Confirmed(r)', ask'[r].kind = "pedestal" PROVE central'[r] = "good"
  <2>0. ask' = ask
    BY <1>0, WorkFrame, QueueFrame, Steps DEF vars, requests, given
  <2>1. CASE Confirmed(r)
    <3>1. central[r] = "good"
      BY <1>2, <2>0, <2>1 DEF PedestalOK
    <3>2. central'[r] = central[r]
      BY <2>1, OthersStay, QueueFrame, Steps DEF vars, shared
    <3> QED
      BY <3>1, <3>2
  <2>2. CASE ~Confirmed(r)
    <3>1. PICK w \in Writers : pc[w] = "succeeded" /\ held[w] = r /\ UNCHANGED <<file, shared, history>>
      BY <1>2, <2>2, OrphanedGrow, Confirming DEF Confirmed
    <3>2. Safe(w)
      BY <1>2, <3>1 DEF Safe, Busy, Confirmed, history
    <3> QED
      BY <1>2, <2>0, <3>1, <3>2 DEF PedestalOK, shared
  <2> QED
    BY <2>1, <2>2
<1>3. ASSUME NEW r \in served' \ again' PROVE ServedOf(r)'
  <2>1. CASE UNCHANGED vars
    <3>1. r \in served \ again /\ UNCHANGED <<central, stage, held, pc>>
      BY <2>1 DEF vars, requests, given, writers, shared, history
    <3> QED
      BY <3>1 DEF PedestalOK, ServedOf
  <2> QED
    BY <2>1, ServedWork, ServedQueue, Steps
<1>4. config' \in served' \cup {FirstPedestal, "torn"}
  <2>1. ASSUME NEW w \in Writers, Works(w) PROVE config' \in served' \cup {FirstPedestal, "torn"}
    <3>1. CASE OpenRaw(w) \/ FillRaw(w) \/ Fail(w) \/ Conversion(w)
      BY <3>1 DEF PedestalOK, OpenRaw, FillRaw, Fail, Conversion, LoadCalibration, CountFrames,
             NoFrameSelected, OpenOutput, FillOutput, RemoveRaw, shared, history
    <3>2. CASE Pedestal(w)
      BY <3>2 DEF PedestalOK, Pedestal, OpenResult, FillResult, OpenCentral, FillCentral, LoadConfig,
             OpenConfig, SaveConfig, ServiceFails, NoMaps, MapsExist, MissMaps, OpenMaps, FillMaps, shared,
             history
    <3> QED
      BY <2>1, <3>1, <3>2 DEF Works
  <2>2. Queue \/ UNCHANGED vars => UNCHANGED <<config, served>>
    BY QueueFrame DEF vars, shared, history
  <2> QED
    BY <2>1, <2>2, Steps DEF PedestalOK
<1> QED
  BY <1>1, <1>2, <1>3, <1>4 DEF PedestalOK, PedestalOf, ServedOf

(* The pedestal in service is complete and has good pixels, whoever else    *)
(* makes and uses pedestals, unless it is one that is being taken again     *)
(* (create_pedestal_file, copy_pedestal_file).                              *)
THEOREM PedestalGood == Spec => []CurrentPedestalIsGood
<1>1. Init => EffectOK /\ PedestalOK
  BY DEF Init, EffectOK, InMaps, Copying, PedestalOK, Safe, Busy, Confirmed, W!Init
<1>2. TypeOK /\ EffectOK /\ PedestalOK => CurrentPedestalIsGood
  <2> SUFFICES ASSUME TypeOK, EffectOK, PedestalOK, NEW r \in Requests, config = r,
                      r \notin again \/ Confirmed(r)
               PROVE  central[r] = "good"
    BY DEF CurrentPedestalIsGood
  <2>1. r \in served
    BY RetrieveAssumption DEF PedestalOK, Pedestals
  <2> QED
    BY <2>1 DEF EffectOK, PedestalOK
<1>3. Core => TypeOK
  BY DEF Core
<1> QED
  BY <1>1, <1>2, <1>3, EffectStep, PedestalStep, CoreHolds, PTL DEF Spec

-----------------------------------------------------------------------------
(* The writers do with the requests what WriteRequests lets them do.        *)
LEMMA StageStep == Core /\ [Next]_vars => [W!Next]_stage
<1> SUFFICES ASSUME Core, [Next]_vars PROVE [W!Next]_stage
  OBVIOUS
<1>0. TypeOK /\ HeldOK
  BY DEF Core
<1>1. ASSUME NEW r \in Requests, Submit(r) PROVE W!Next
  BY <1>1 DEF Submit, W!Next
<1>2. ASSUME NEW w \in Writers, NEW r \in Requests, Take(w, r) PROVE W!Next
  BY <1>2 DEF Take, W!Next
<1>3. ASSUME NEW w \in Writers, Settle(w) \/ Die(w) \/ Cut(w) PROVE W!Next
  <2>1. W!Settle(held[w]) \/ W!GiveBack(held[w])
    BY <1>3 DEF Settle, Die, Cut, Unlink
  <2>2. held[w] \in Requests
    BY <1>0, <1>3, NotIdle DEF HeldOK, Busy, Settle, Die, Cut, Unlink
  <2> QED
    BY <2>1, <2>2 DEF W!Next
<1>4. ASSUME NEW w \in Writers, NoticeCut(w) \/ Works(w) PROVE UNCHANGED stage
  BY <1>0, <1>4, WorkFrame DEF NoticeCut, requests, given
<1>5. CASE UNCHANGED vars
  BY <1>5 DEF vars, requests, given
<1> QED
  BY <1>1, <1>2, <1>3, <1>4, <1>5, Steps DEF Queue

(* What belongs to a confirmed request is left alone for good: its raw and  *)
(* output files, its pedestal and the copy of it.  No other writer has the  *)
(* request any more, and none writes to the files of another.               *)
ConfirmedFilesStay ==
  [][\A r \in Requests : Confirmed(r) =>
       /\ Confirmed(r)'
       /\ file'[r] = file[r] /\ result'[r] = result[r] /\ central'[r] = central[r]]_vars

(* A confirmed request stays so, and its files stay as they are, whoever    *)
(* dies or is given up later (process_request of the writers).              *)
THEOREM ConfirmedForGood == Spec => ConfirmedFilesStay
<1>1. Core /\ [Next]_vars =>
        [\A r \in Requests : Confirmed(r) =>
           /\ Confirmed(r)'
           /\ file'[r] = file[r] /\ result'[r] = result[r] /\ central'[r] = central[r]]_vars
  <2> SUFFICES ASSUME Core, [Next]_vars, NEW r \in Requests, Confirmed(r)
               PROVE  /\ Confirmed(r)'
                      /\ file'[r] = file[r] /\ result'[r] = result[r]
                      /\ central'[r] = central[r]
    OBVIOUS
  <2>0. TypeOK /\ HeldOK
    BY DEF Core
  <2>1. file'[r] = file[r] /\ result'[r] = result[r] /\ central'[r] = central[r]
    <3>1. CASE Queue
      BY <3>1, QueueFrame DEF shared
    <3>2. CASE UNCHANGED vars
      BY <3>2 DEF vars, shared
    <3> QED
      BY <3>1, <3>2, OthersStay, Steps
  <2>2. stage'[r] = "done"
    <3>1. stage \in [Requests -> W!Stages] /\ stage[r] = "done"
      BY <2>0 DEF TypeOK, Confirmed
    <3>2. ASSUME NEW q \in Requests,
                 W!Submit(q) \/ W!Take(q) \/ W!GiveBack(q) \/ W!Settle(q)
          PROVE  stage'[r] = "done"
      BY <3>1, <3>2 DEF W!Submit, W!Take, W!GiveBack, W!Settle, W!Move
    <3>3. CASE W!LoseAll
      BY <3>1, <3>3 DEF W!LoseAll
    <3> QED
      BY <3>1, <3>2, <3>3, StageStep DEF W!Next
  <2>3. r \notin orphaned'
    <3>1. ASSUME NEW w \in Writers, Cut(w) PROVE r # held[w]
      <4>1. stage[held[w]] = "taken"
        BY <3>1 DEF Cut, Unlink, W!GiveBack, W!Move
      <4> QED
        BY <4>1 DEF Confirmed
    <3>2. r \notin orphaned
      BY DEF Confirmed
    <3>3. orphaned' = orphaned \/ \E w \in Writers : Cut(w)
      <4>1. CASE Queue
        BY <4>1 DEF Queue, Submit, Take, Settle, Die, NoticeCut, history
      <4>2. CASE UNCHANGED vars
        BY <4>2 DEF vars, history
      <4>3. ASSUME NEW w \in Writers, Works(w) PROVE orphaned' = orphaned
        BY <2>0, <4>3, WorkFrame
      <4> QED
        BY <4>1, <4>2, <4>3, Steps
    <3> QED
      BY <3>1, <3>2, <3>3 DEF Cut
  <2> QED
    BY <2>1, <2>2, <2>3 DEF Confirmed
<1> QED
  BY <1>1, CoreHolds, PTL DEF Spec, ConfirmedFilesStay
=============================================================================
