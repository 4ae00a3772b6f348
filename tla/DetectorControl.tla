--------------------------- MODULE DetectorControl ---------------------------
(***************************************************************************)
(* Who operates the detectors of a beamline: the writers of the pedestal   *)
(* queue, which record pedestals and power detectors on (writer/start.py,  *)
(* detector/take_pedestal.py, detector/power_on_detector.py), and the slow *)
(* broker, which changes settings on request (broker_manager_slow.py).     *)
(* They share the trigger, one event code PV that is put and, 4 s later,   *)
(* read back (detector/trigger.py), and the detectors; nothing locks       *)
(* either.                                                                 *)
(*                                                                         *)
(* The requests come and go as WriteRequests says, without LoseAll.  Of    *)
(* the four settings only the gain mode is told apart: the pedestal uses   *)
(* no other, any of them can fail, and a call that leaves the gain mode    *)
(* out is one that finds it set already.  All modules of a detector are in *)
(* one gain mode: "dynamic", "fixed", which stands for fixed_gain1 and     *)
(* fixed_gain2, or "unknown", one that GAIN_MODES does not name.           *)
(* The pulse ids a pedestal spans are told apart by the attempt that read  *)
(* them.  A slow broker that dies is one whose call fails.                 *)
(***************************************************************************)
EXTENDS Integers, FiniteSets

CONSTANTS
  Detectors,
  Requests,    \* the requests of the queue detector_pedestal
  Writers,     \* the writer processes of that queue
  SlowBroker,  \* the slow broker's process, which serves one call at a time
  MaxEvents,   \* bound: calls of the slow broker and writers that die or lose
               \* their connection, together
  NoRequest    \* a writer holds nothing, the slow broker serves nothing

Actors == Writers \cup {SlowBroker}
Known  == {"dynamic", "fixed"}
Gains  == Known \cup {"unknown"}

(* power_on_detector names one detector; take_pedestal any number, and      *)
(* records by switching gains or, with pedestalmode, lets the detectors.    *)
Asks ==
  [kind: {"power on"}, detectors: {{d} : d \in Detectors}]
    \cup [kind: {"gains", "pedestal mode"}, detectors: SUBSET Detectors \ {{}}]

(* set_detector_settings.                                                   *)
Calls == [detector: Detectors, gain: Gains]

Attempts == 1..(MaxEvents + 1)
Torn     == 0 - 1

ASSUME ControlAssumption ==
  /\ MaxEvents \in Nat
  /\ NoRequest \notin Requests
  /\ SlowBroker \notin Writers

VARIABLES
  ask,        \* what each request asks for
  stage,      \* where each request is: see WriteRequests
  pc,         \* where each actor is
  held,       \* the request a writer works on
  attempt,    \* how many attempts at a request began
  mine,       \* which of them is the writer's
  linked,     \* RabbitMQ still has the writer's connection
  todo,       \* the detectors its loop has not reached
  original,   \* gain_mode_orig of its attempt
  call,       \* the call the slow broker serves
  trigger,    \* the event code of the trigger PV
  gain,       \* the gain mode of each detector
  acquiring,  \* detectors between startDetector and stopDetector
  inPedestal, \* detectors in pedestal mode
  record,     \* the attempt whose pulse ids run_file_json holds, 0 or Torn
  sent,       \* retrieve requests sent: request, detector and attempt
  wanted,     \* the gain mode last set by a user (history)
  strayed,    \* a fault ended a call while the trigger was stopped (history)
  unsettled,  \* detectors whose gain mode is disputed (history)
  abandoned,  \* detectors a failed or dead attempt left behind (history)
  orphaned,   \* requests whose writer lost its link while working (history)
  events      \* how many calls were made and links lost so far

requests == <<ask, stage>>
actors   == <<pc, held, attempt, mine, linked, todo, original, call>>
machine  == <<trigger, gain, acquiring, inPedestal>>
files    == <<record, sent>>
history  == <<wanted, strayed, unsettled, abandoned, orphaned>>
vars     == <<requests, actors, machine, files, history, events>>

W == INSTANCE WriteRequests WITH Capacity <- Cardinality(Writers)

ByGains == {"read", "dynamic", "fixed", "restore"}
ByMode  == {"halt", "enable", "resume", "halt again", "disable", "resume again"}

(* The code of take_pedestal, one loop over the detectors after the other:  *)
(* that by gains, then that by pedestal mode.  Reading the pulse ids, which *)
(* brackets the loops, is left out.                                         *)
AfterLoop(p) ==
  CASE p = "read" -> "dynamic"
    [] p = "dynamic" -> "fixed"
    [] p = "fixed" -> "restore"
    [] p = "restore" -> "record"
    [] p = "halt" -> "enable"
    [] p = "enable" -> "resume"
    [] p = "resume" -> "halt again"
    [] p = "halt again" -> "disable"
    [] p = "disable" -> "resume again"
    [] p = "resume again" -> "record"
    [] p = "send" -> "succeeded"

(* power_on_detector and set_detector_settings.                             *)
PowerOn  == {"stop detector", "configure", "start detector"}
Settings == {"compare", "set"}
Stops    == {"stop trigger", "stopping"}
Starts   == {"start trigger", "starting", "give up", "giving up"}
Thread   == ByGains \cup ByMode \cup {"record", "save", "send"} \cup PowerOn \cup Settings
              \cup Stops \cup Starts
Ends     == {"succeeded", "failed"}

(* Where an actor has stopped the trigger and not started it again.         *)
Holding == {"stopping"} \cup PowerOn \cup Settings \cup {"start trigger", "give up"}

TypeOK ==
  /\ ask \in [Requests -> Asks]
  /\ stage \in [Requests -> W!Stages]
  /\ pc \in [Actors -> {"idle"} \cup Thread \cup Ends]
  /\ held \in [Writers -> Requests \cup {NoRequest}]
  /\ attempt \in [Requests -> 0..(MaxEvents + 1)]
  /\ mine \in [Writers -> {0} \cup Attempts]
  /\ linked \in [Writers -> BOOLEAN]
  /\ todo \in [Writers -> SUBSET Detectors]
  /\ original \in [Writers -> [Detectors -> Gains]]
  /\ call \in Calls \cup {NoRequest}
  /\ trigger \in {"running", "stopped"}
  /\ gain \in [Detectors -> Gains]
  /\ acquiring \subseteq Detectors
  /\ inPedestal \subseteq Detectors
  /\ record \in [Requests -> {0, Torn} \cup Attempts]
  /\ sent \subseteq Requests \X Detectors \X Attempts
  /\ wanted \in [Detectors -> Gains]
  /\ strayed \in BOOLEAN
  /\ unsettled \subseteq Detectors
  /\ abandoned \subseteq Detectors
  /\ orphaned \subseteq Requests
  /\ events \in 0..MaxEvents

Init ==
  /\ ask \in [Requests -> Asks]
  /\ W!Init
  /\ pc = [a \in Actors |-> "idle"]
  /\ held = [w \in Writers |-> NoRequest]
  /\ attempt = [r \in Requests |-> 0]
  /\ mine = [w \in Writers |-> 0]
  /\ linked = [w \in Writers |-> TRUE]
  /\ todo = [w \in Writers |-> {}]
  /\ original = [w \in Writers |-> [d \in Detectors |-> "unknown"]]
  /\ call = NoRequest
  /\ trigger = "running"
  /\ gain \in [Detectors -> Gains]
  /\ acquiring = Detectors
  /\ inPedestal = {}
  /\ record = [r \in Requests |-> 0]
  /\ sent = {}
  /\ wanted = gain
  /\ strayed = FALSE
  /\ unsettled = {}
  /\ abandoned = {}
  /\ orphaned = {}
  /\ events = 0

Goto(a, p) == pc' = [pc EXCEPT ![a] = p]

(* The step of an actor from one place of the code to another that changes  *)
(* no local variable.                                                       *)
Step(a, from, to) ==
  /\ pc[a] = from
  /\ Goto(a, to)
  /\ UNCHANGED <<requests, held, attempt, mine, linked, todo, original, call, events>>

(* The detectors of an actor's request or call.                             *)
Of(a) == IF a = SlowBroker THEN {call.detector} ELSE ask[held[a]].detectors

(* A pedestal that switches gains has read that of d and not restored it.   *)
Switching(w, d) ==
  /\ pc[w] \in ByGains
  /\ d \in Of(w)
  /\ pc[w] = "read" => d \notin todo[w]
  /\ pc[w] = "restore" => d \in todo[w]

-----------------------------------------------------------------------------
(* Trigger.set: put, wait, read back.                                       *)

PutStop(a) ==
  /\ Step(a, "stop trigger", "stopping")
  /\ trigger' = "stopped"
  /\ UNCHANGED <<gain, acquiring, inPedestal, files, history>>

(* Whoever else started the trigger meanwhile makes this call fail.         *)
StopVerified(a) ==
  /\ trigger = "stopped"
  /\ Step(a, "stopping", IF a = SlowBroker THEN "compare" ELSE "stop detector")
  /\ UNCHANGED <<machine, files, history>>

StopRefuted(a) ==
  /\ trigger # "stopped"
  /\ Step(a, "stopping", "failed")
  /\ UNCHANGED <<machine, files, history>>

(* Mutant: power_on_detector starts the trigger outside of a finally.       *)
PutStartIfWell(a) ==
  /\ \/ Step(a, "start trigger", "starting") /\ trigger' = "running"
     \/ Step(a, "give up", "failed") /\ trigger' = trigger
  /\ UNCHANGED <<gain, acquiring, inPedestal, files, history>>

PutStart(a) ==
  /\ \/ Step(a, "start trigger", "starting")
     \/ Step(a, "give up", "giving up")
  /\ trigger' = "running"
  /\ UNCHANGED <<gain, acquiring, inPedestal, files, history>>

StartVerified(a) ==
  /\ \/ Step(a, "starting", IF trigger = "running" THEN "succeeded" ELSE "failed")
     \/ Step(a, "giving up", "failed")
  /\ UNCHANGED <<machine, files, history>>

-----------------------------------------------------------------------------
(* The slow broker.                                                         *)

FirstStep(kind) ==
  CASE kind = "power on" -> "stop trigger"
    [] kind = "gains" -> "read"
    [] kind = "pedestal mode" -> "halt"

Call(c) ==
  /\ pc[SlowBroker] = "idle"
  /\ events < MaxEvents
  /\ events' = events + 1
  /\ call' = c
  /\ Goto(SlowBroker, "stop trigger")
  /\ UNCHANGED <<requests, held, attempt, mine, linked, todo, original, machine,
                 files, history>>

Reply ==
  /\ pc[SlowBroker] \in Ends
  /\ Goto(SlowBroker, "idle")
  /\ call' = NoRequest
  /\ UNCHANGED <<requests, held, attempt, mine, linked, todo, original, machine,
                 files, history, events>>

(* What a user set while a pedestal switches gains is overwritten when the  *)
(* pedestal restores what it found.                                         *)
Want(d, g) ==
  /\ wanted' = [wanted EXCEPT ![d] = g]
  /\ unsettled' = IF \E w \in Writers : Switching(w, d) THEN unsettled \cup {d}
                  ELSE unsettled \ {d}
  /\ UNCHANGED <<strayed, abandoned, orphaned>>

(* set_detector_settings: a gain mode that is set already is left alone.    *)
CompareEqual ==
  /\ Step(SlowBroker, "compare", "start trigger")
  /\ gain[call.detector] = call.gain
  /\ Want(call.detector, call.gain)
  /\ UNCHANGED <<machine, files>>

CompareUnequal ==
  /\ Step(SlowBroker, "compare", "set")
  /\ gain[call.detector] # call.gain
  /\ UNCHANGED <<machine, files, history>>

SetGain(d, g) ==
  /\ g \in Known
  /\ gain' = [gain EXCEPT ![d] = g]
  /\ UNCHANGED <<trigger, acquiring, inPedestal>>

SetSettings ==
  /\ Step(SlowBroker, "set", "start trigger")
  /\ SetGain(call.detector, call.gain)
  /\ Want(call.detector, call.gain)
  /\ UNCHANGED files

(* An exception between stopping and starting the trigger: there is no      *)
(* finally.                                                                 *)
CallFails ==
  /\ \E from \in Settings \cup Stops \cup Starts :
       /\ Step(SlowBroker, from, "failed")
       /\ strayed' = (strayed \/ from \in Holding)
  /\ UNCHANGED <<machine, files, wanted, unsettled, abandoned, orphaned>>

-----------------------------------------------------------------------------
(* RabbitMQ and the writers.                                                *)

Submit(r) ==
  /\ W!Submit(r)
  /\ stage'[r] = "waiting"
  /\ UNCHANGED <<ask, actors, machine, files, history, events>>

Take(w, r) ==
  /\ pc[w] = "idle"
  /\ W!Take(r)
  /\ held' = [held EXCEPT ![w] = r]
  /\ attempt' = [attempt EXCEPT ![r] = @ + 1]
  /\ mine' = [mine EXCEPT ![w] = attempt[r] + 1]
  /\ todo' = [todo EXCEPT ![w] = ask[r].detectors]
  /\ Goto(w, FirstStep(ask[r].kind))
  /\ UNCHANGED <<ask, linked, original, call, machine, files, history, events>>

Forget(w) ==
  /\ held' = [held EXCEPT ![w] = NoRequest]
  /\ mine' = [mine EXCEPT ![w] = 0]
  /\ todo' = [todo EXCEPT ![w] = {}]
  /\ original' = [original EXCEPT ![w] = [d \in Detectors |-> "unknown"]]
  /\ Goto(w, "idle")

Settle(w) ==
  /\ pc[w] \in Ends
  /\ linked[w]
  /\ W!Settle(held[w])
  /\ stage'[held[w]] = IF pc[w] = "succeeded" THEN "done" ELSE "refused"
  /\ Forget(w)
  /\ UNCHANGED <<ask, attempt, linked, call, machine, files, history, events>>

(* What an attempt leaves behind when it ends where it is.                  *)
Leave(w) ==
  /\ strayed' = (strayed \/ pc[w] \in Holding)
  /\ unsettled' = unsettled \cup {d \in Detectors : Switching(w, d)}
  /\ abandoned' = IF pc[w] \in ByMode \cup PowerOn THEN abandoned \cup Of(w)
                  ELSE abandoned
  /\ UNCHANGED <<wanted>>

Unlink(w) ==
  /\ pc[w] # "idle"
  /\ linked[w]
  /\ events < MaxEvents
  /\ events' = events + 1
  /\ W!GiveBack(held[w])

(* A writer that ends is started again at once.                             *)
Die(w) ==
  /\ Unlink(w)
  /\ Leave(w)
  /\ Forget(w)
  /\ UNCHANGED <<ask, attempt, linked, call, machine, files, orphaned>>

Cut(w) ==
  /\ Unlink(w)
  /\ linked' = [linked EXCEPT ![w] = FALSE]
  /\ orphaned' = orphaned \cup {held[w]}
  /\ UNCHANGED <<ask, pc, held, attempt, mine, todo, original, call, machine,
                 files, wanted, strayed, unsettled, abandoned>>

NoticeCut(w) ==
  /\ ~linked[w]
  /\ Leave(w)
  /\ Forget(w)
  /\ linked' = [linked EXCEPT ![w] = TRUE]
  /\ UNCHANGED <<requests, attempt, call, machine, files, orphaned, events>>

-----------------------------------------------------------------------------
(* take_pedestal: one turn of a loop over the detectors.                    *)

Turn(w, p, d) ==
  /\ pc[w] = p
  /\ d \in todo[w]
  /\ IF todo[w] = {d}
       THEN Goto(w, AfterLoop(p)) /\ todo' = [todo EXCEPT ![w] = Of(w)]
       ELSE pc' = pc /\ todo' = [todo EXCEPT ![w] = @ \ {d}]
  /\ UNCHANGED <<requests, held, attempt, mine, linked, call, events>>

(* A pedestal that finds a gain mode another one left on the way takes it   *)
(* for the original.                                                        *)
ReadGain(w, d) ==
  /\ Turn(w, "read", d)
  /\ original' = [original EXCEPT ![w][d] = gain[d]]
  /\ unsettled' = IF \E v \in Writers \ {w} : Switching(v, d) THEN unsettled \cup {d}
                  ELSE unsettled
  /\ UNCHANGED <<machine, files, wanted, strayed, abandoned, orphaned>>

SwitchGain(w, d) ==
  /\ \E g \in Known : Turn(w, g, d) /\ SetGain(d, g)
  /\ UNCHANGED <<original, files, history>>

(* Mutant: the gain modes are not restored.                                 *)
RestoreDynamic(w, d) ==
  /\ Turn(w, "restore", d)
  /\ SetGain(d, "dynamic")
  /\ UNCHANGED <<original, files, history>>

RestoreGain(w, d) ==
  /\ Turn(w, "restore", d)
  /\ SetGain(d, original[w][d])
  /\ UNCHANGED <<original, files, history>>

(* Mutant: the detectors are not started again after the second stop.       *)
SwitchModeStopping(w, d) ==
  /\ \E p \in ByMode : Turn(w, p, d)
  /\ acquiring' = CASE pc[w] \in {"halt", "halt again"} -> acquiring \ {d}
                    [] pc[w] = "resume" -> acquiring \cup {d}
                    [] OTHER -> acquiring
  /\ inPedestal' = CASE pc[w] = "enable" -> inPedestal \cup {d}
                     [] pc[w] = "disable" -> inPedestal \ {d}
                     [] OTHER -> inPedestal
  /\ UNCHANGED <<original, trigger, gain, files, history>>

SwitchMode(w, d) ==
  /\ \E p \in ByMode : Turn(w, p, d)
  /\ acquiring' = CASE pc[w] \in {"halt", "halt again"} -> acquiring \ {d}
                    [] pc[w] \in {"resume", "resume again"} -> acquiring \cup {d}
                    [] OTHER -> acquiring
  /\ inPedestal' = CASE pc[w] = "enable" -> inPedestal \cup {d}
                     [] pc[w] = "disable" -> inPedestal \ {d}
                     [] OTHER -> inPedestal
  /\ UNCHANGED <<original, trigger, gain, files, history>>

(* detector_pedestal_retrieve: the pulse ids of this attempt go into        *)
(* run_file_json and then, with the requests to retrieve them, to the       *)
(* detector writers.                                                        *)

OpenRecord(w) ==
  /\ Step(w, "record", "save")
  /\ record[held[w]] # Torn
  /\ record' = [record EXCEPT ![held[w]] = Torn]
  /\ UNCHANGED <<sent, machine, history>>

(* Mutant: the record is saved as it was loaded.                            *)
SaveRecordUnchanged(w) ==
  /\ Step(w, "save", "send")
  /\ record' = [record EXCEPT ![held[w]] = 0]
  /\ UNCHANGED <<sent, machine, history>>

SaveRecord(w) ==
  /\ Step(w, "save", "send")
  /\ record' = [record EXCEPT ![held[w]] = mine[w]]
  /\ UNCHANGED <<sent, machine, history>>

(* Mutant: the pulse ids are read back from the file.                       *)
SendRetrieveRecorded(w, d) ==
  /\ Turn(w, "send", d)
  /\ sent' = sent \cup {<<held[w], d, record[held[w]]>>}
  /\ UNCHANGED <<original, record, machine, history>>

(* Mutant: the requests of a detector that was sent one before are left out. *)
SendRetrieveOnce(w, d) ==
  /\ Turn(w, "send", d)
  /\ sent' = IF \E n \in Attempts : <<held[w], d, n>> \in sent THEN sent
             ELSE sent \cup {<<held[w], d, mine[w]>>}
  /\ UNCHANGED <<original, record, machine, history>>

SendRetrieve(w, d) ==
  /\ Turn(w, "send", d)
  /\ sent' = sent \cup {<<held[w], d, mine[w]>>}
  /\ UNCHANGED <<original, record, machine, history>>

-----------------------------------------------------------------------------
(* power_on_detector.                                                       *)

Acquire(set) ==
  /\ acquiring' = set
  /\ UNCHANGED <<trigger, gain, inPedestal, files, history>>

(* Allowed to fail, with or without effect.                                 *)
StopDetector(w) ==
  /\ Step(w, "stop detector", "configure")
  /\ \E gone \in SUBSET Of(w) : Acquire(acquiring \ gone)

(* free_shared_memory, connect and apply_config.                            *)
ApplyConfig(w) ==
  /\ Step(w, "configure", "start detector")
  /\ UNCHANGED <<machine, files, history>>

StartDetector(w) ==
  /\ Step(w, "start detector", "start trigger")
  /\ Acquire(acquiring \cup Of(w))

(* Any DetectorError but that of the first stop: the finally starts the     *)
(* trigger.                                                                 *)
PowerOnFails(w) ==
  /\ \E from \in PowerOn \ {"stop detector"} : Step(w, from, "give up")
  /\ abandoned' = abandoned \cup Of(w)
  /\ UNCHANGED <<machine, files, wanted, strayed, unsettled, orphaned>>

Fail(w) ==
  /\ \E from \in Thread \ PowerOn : Step(w, from, "failed")
  /\ Leave(w)
  /\ UNCHANGED <<machine, files, orphaned>>

-----------------------------------------------------------------------------
TriggerStep(a) ==
  \/ PutStop(a) \/ StopVerified(a) \/ StopRefuted(a)
  \/ PutStart(a) \/ StartVerified(a)

SlowBrokerStep ==
  \/ TriggerStep(SlowBroker) \/ CompareEqual \/ CompareUnequal \/ SetSettings
   \/ CallFails \/ Reply

Pedestal(w) ==
  \/ \E d \in Detectors :
       ReadGain(w, d) \/ SwitchGain(w, d) \/ RestoreGain(w, d)
         \/ SwitchMode(w, d) \/ SendRetrieve(w, d)
  \/ OpenRecord(w) \/ SaveRecord(w)

WriterStep(w) ==
  \/ TriggerStep(w) \/ Pedestal(w)
  \/ StopDetector(w) \/ ApplyConfig(w) \/ StartDetector(w)
  \/ PowerOnFails(w) \/ Fail(w)

Next ==
  \/ \E c \in Calls : Call(c)
  \/ SlowBrokerStep
  \/ \E r \in Requests : Submit(r)
  \/ \E w \in Writers :
       \/ \E r \in Requests : Take(w, r)
       \/ WriterStep(w) \/ Settle(w) \/ Die(w) \/ Cut(w) \/ NoticeCut(w)

Spec == Init /\ [][Next]_vars

-----------------------------------------------------------------------------
(* The trigger is stopped only while some call that stopped it has yet to   *)
(* start it again, whatever calls of the slow broker and power-ons overlap  *)
(* and make each other's verification fail; unless a fault ended a call in  *)
(* between.                                                                 *)
TriggerIsHeld ==
  trigger = "stopped" => strayed \/ \E a \in Actors : pc[a] \in Holding

(* Pedestals leave every detector in the gain mode its user last set,       *)
(* however they overlap with settings of other detectors, with power-ons    *)
(* and with redelivered requests; where two actors switched the gain modes  *)
(* of one detector at a time or an attempt ended between, setting it again  *)
(* settles it.                                                              *)
GainIsWanted ==
  \A d \in Detectors :
    d \notin unsettled /\ (\A w \in Writers : ~Switching(w, d)) => gain[d] = wanted[d]

(* Whoever stops a detector or puts it into pedestal mode undoes that, in   *)
(* any interleaving of two writers, unless an attempt ended on the way.     *)
DetectorsGoOn ==
  \A d \in Detectors :
    \/ d \in abandoned
    \/ \E w \in Writers : pc[w] \in ByMode \cup PowerOn /\ d \in Of(w)
    \/ d \in acquiring \ inPedestal

(* A detector writer that gets a retrieve request of a pedestal finds the   *)
(* same pulse ids in run_file_json, unless the pedestal was taken twice.    *)
RetrieveFindsItsRange ==
  \A m \in sent : attempt[m[1]] = 1 => record[m[1]] = m[3]

(* A confirmed pedestal has sent a retrieve request with the pulse ids in   *)
(* run_file_json for each of its detectors, also when it was taken again    *)
(* after a crash, unless a writer had been given up and went on.            *)
ConfirmedIsSent ==
  \A r \in Requests :
    stage[r] = "done" /\ ask[r].kind # "power on" /\ r \notin orphaned
      => \A d \in ask[r].detectors : <<r, d, record[r]>> \in sent

=============================================================================
