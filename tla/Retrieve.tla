------------------------------ MODULE Retrieve ------------------------------
(***************************************************************************)
(* What the detector writers do with the write requests of one detector    *)
(* (writer/detector_writer.py, writer/convert_file.py): retrieve the raw   *)
(* file from the buffer, make a pedestal of it and put it into service, or *)
(* convert it and remove the raw file.  The writers share the stream       *)
(* configuration of the detector, which names the pedestal in service, the *)
(* central pedestal files, and the gain maps copied to the pgroup; nothing *)
(* locks them, and every file is truncated first and filled later.         *)
(*                                                                         *)
(* The requests come and go as WriteRequests says; its LoseAll is left     *)
(* out, since a lost request behaves as one that waits for ever.  A writer *)
(* that ends is started again at once.  acqNNNN.json, which the conversion *)
(* reads its options from, holds those of the request itself               *)
(* (Broker!AcceptedIsRecorded).  Opening a torn file raises.               *)
(***************************************************************************)
EXTENDS Integers, FiniteSets

CONSTANTS
  Requests,   \* the write requests, and the pedestal files named after them
  Writers,    \* the writer processes
  MaxBreaks,  \* bound: writers that die or lose their connection
  FirstPedestal,  \* the pedestal in service at first
  NoRequest   \* a writer holds nothing

(* What detector_retrieve tells apart: no conversion; one that writes an    *)
(* output file (adc_to_energy, disabled_modules, save_ppicker_events_only,  *)
(* selected_pulse_ids); compression or roi alone; a pedestal run.           *)
Kinds == {"plain", "export", "shrink", "pedestal"}
Asks  == [kind: Kinds, removeRaw: BOOLEAN]

(* Where the files of a request are: output_file, raw_data/ and daqtmp.     *)
Places    == {"data", "raw_data", "tmp"}
Pedestals == Requests \cup {FirstPedestal}
Contents  == {"absent", "torn", "raw"} \cup Pedestals

ASSUME RetrieveAssumption ==
  /\ MaxBreaks \in Nat
  /\ FirstPedestal \notin Requests
  /\ NoRequest \notin Requests
  /\ Pedestals \cap {"absent", "torn", "raw"} = {}

VARIABLES
  ask,       \* the options of each request
  gainFile,  \* the stream configuration names a gain file
  stage,     \* where each request is: see WriteRequests
  pc,        \* where each writer is
  held,      \* the request it works on
  linked,    \* RabbitMQ still has its connection
  place,     \* raw_file_name of its attempt
  using,     \* the pedestal its conversion took from the configuration
  file,      \* the files of each request; converted ones with their pedestal
  result,    \* the .res.h5 of a pedestal request
  central,   \* its copy in PEDESTAL_DIRECTORY
  config,    \* the stream configuration: the pedestal it names, or "torn"
  gainMap,   \* the copy of the gain maps in the pgroup
  served,    \* pedestals the configuration was saved with (history)
  again,     \* requests that were delivered more than once (history)
  spoilt,    \* a copy of the gain maps broke off (history)
  orphaned,  \* requests whose writer lost its link while working (history)
  breaks     \* how many links were lost so far

given    == <<ask, gainFile>>
requests == <<given, stage>>
writers  == <<pc, held, linked, place, using>>
shared   == <<result, central, config, gainMap>>
history  == <<served, again, spoilt, orphaned, breaks>>
vars     == <<requests, writers, file, shared, history>>

W == INSTANCE WriteRequests WITH Capacity <- Cardinality(Writers)

Raw      == {"start", "raw"}
Analysis == {"analyse", "result"}
Service  == {"copy", "copying", "update", "open config", "save config"}
Copying  == {"copying maps", "copying maps failing"}
Maps     == {"maps", "open maps", "maps failing", "open maps failing"} \cup Copying
Convert  == {"convert", "export", "exporting", "remove"}
Thread   == Raw \cup Analysis \cup Service \cup Maps \cup Convert
Ends     == {"succeeded", "failed"}

TypeOK ==
  /\ ask \in [Requests -> Asks]
  /\ gainFile \in BOOLEAN
  /\ stage \in [Requests -> W!Stages]
  /\ pc \in [Writers -> {"idle"} \cup Thread \cup Ends]
  /\ held \in [Writers -> Requests \cup {NoRequest}]
  /\ linked \in [Writers -> BOOLEAN]
  /\ place \in [Writers -> Places]
  /\ using \in [Writers -> Pedestals]
  /\ file \in [Requests -> [Places -> Contents]]
  /\ result \in [Requests -> {"absent", "torn", "good", "bad"}]
  /\ central \in [Requests -> {"absent", "torn", "good", "bad"}]
  /\ config \in Pedestals \cup {"torn"}
  /\ gainMap \in {"absent", "torn", "whole"}
  /\ served \subseteq Requests
  /\ again \subseteq Requests
  /\ spoilt \in BOOLEAN
  /\ orphaned \subseteq again
  /\ breaks \in 0..MaxBreaks

Init ==
  /\ ask \in [Requests -> Asks]
  /\ gainFile \in BOOLEAN
  /\ W!Init
  /\ pc = [w \in Writers |-> "idle"]
  /\ held = [w \in Writers |-> NoRequest]
  /\ linked = [w \in Writers |-> TRUE]
  /\ place = [w \in Writers |-> "data"]
  /\ using = [w \in Writers |-> FirstPedestal]
  /\ file = [r \in Requests |-> [p \in Places |-> "absent"]]
  /\ result = [r \in Requests |-> "absent"]
  /\ central = [r \in Requests |-> "absent"]
  /\ config = FirstPedestal
  /\ gainMap = "absent"
  /\ served = {}
  /\ again = {}
  /\ spoilt = FALSE
  /\ orphaned = {}
  /\ breaks = 0

Goto(w, p) == pc' = [pc EXCEPT ![w] = p]

(* The step of a writer from one place of the code to another that changes  *)
(* no local variable.                                                       *)
Step(w, from, to) ==
  /\ pc[w] = from
  /\ Goto(w, to)
  /\ UNCHANGED <<requests, held, linked, place, using>>

Put(r, p, content) == file' = [file EXCEPT ![r][p] = content]

RawIsWhole(w) == file[held[w]][place[w]] = "raw"

-----------------------------------------------------------------------------
(* RabbitMQ.                                                                *)

Submit(r) ==
  /\ W!Submit(r)
  /\ stage'[r] = "waiting"
  /\ UNCHANGED <<given, writers, file, shared, history>>

Take(w, r) ==
  /\ pc[w] = "idle"
  /\ W!Take(r)
  /\ held' = [held EXCEPT ![w] = r]
  /\ Goto(w, "start")
  /\ UNCHANGED <<given, linked, place, using, file, shared, history>>

(* process_async: the verdict, given by the main thread.  The attempt's     *)
(* local variables are gone.                                                *)
Settle(w) ==
  /\ pc[w] \in Ends
  /\ linked[w]
  /\ W!Settle(held[w])
  /\ stage'[held[w]] = IF pc[w] = "succeeded" THEN "done" ELSE "refused"
  /\ held' = [held EXCEPT ![w] = NoRequest]
  /\ place' = [place EXCEPT ![w] = "data"]
  /\ using' = [using EXCEPT ![w] = FirstPedestal]
  /\ Goto(w, "idle")
  /\ UNCHANGED <<given, linked, file, shared, history>>

(* What is being copied when the thread ends or fails stays as it is.       *)
BreakOff(w) == spoilt' = (spoilt \/ pc[w] \in Copying)

Restart(w) ==
  /\ BreakOff(w)
  /\ held' = [held EXCEPT ![w] = NoRequest]
  /\ place' = [place EXCEPT ![w] = "data"]
  /\ using' = [using EXCEPT ![w] = FirstPedestal]
  /\ Goto(w, "idle")

Unlink(w) ==
  /\ pc[w] # "idle"
  /\ linked[w]
  /\ breaks < MaxBreaks
  /\ breaks' = breaks + 1
  /\ W!GiveBack(held[w])
  /\ again' = again \cup {held[w]}

Die(w) ==
  /\ Unlink(w)
  /\ Restart(w)
  /\ UNCHANGED <<given, linked, file, shared, served, orphaned>>

Cut(w) ==
  /\ Unlink(w)
  /\ linked' = [linked EXCEPT ![w] = FALSE]
  /\ orphaned' = orphaned \cup {held[w]}
  /\ UNCHANGED <<given, pc, held, place, using, file, shared, served, spoilt>>

NoticeCut(w) ==
  /\ ~linked[w]
  /\ Restart(w)
  /\ linked' = [linked EXCEPT ![w] = TRUE]
  /\ UNCHANGED <<requests, file, shared, served, again, orphaned, breaks>>

-----------------------------------------------------------------------------
(* detector_retrieve: the raw file.                                         *)

(* daqtmp is used for raw files that will be removed if it has room.        *)
RawPlaces(r) ==
  IF ask[r].kind \in {"plain", "pedestal"} THEN {"data"}
  ELSE {"raw_data"} \cup (IF ask[r].removeRaw THEN {"tmp"} ELSE {})

OpenRaw(w) ==
  /\ pc[w] = "start"
  /\ \E p \in RawPlaces(held[w]) :
       /\ place' = [place EXCEPT ![w] = p]
       /\ Put(held[w], p, "torn")
  /\ Goto(w, "raw")
  /\ UNCHANGED <<requests, held, linked, using, shared, history>>

AfterRaw(r) ==
  CASE ask[r].kind = "plain" -> "succeeded"
    [] ask[r].kind = "pedestal" -> "analyse"
    [] OTHER -> "convert"

FillRaw(w) ==
  /\ Step(w, "raw", AfterRaw(held[w]))
  /\ Put(held[w], place[w], "raw")
  /\ UNCHANGED <<shared, history>>

-----------------------------------------------------------------------------
(* create_pedestal_file: a result without a good pixel is saved, and then   *)
(* raises.                                                                  *)

OpenResult(w) ==
  /\ Step(w, "analyse", "result")
  /\ RawIsWhole(w)
  /\ result' = [result EXCEPT ![held[w]] = "torn"]
  /\ UNCHANGED <<file, central, config, gainMap, history>>

(* Mutant: a result without a good pixel does not raise.                    *)
FillResultUnchecked(w) ==
  /\ \E quality \in {"good", "bad"} :
       /\ Step(w, "result", "copy")
       /\ result' = [result EXCEPT ![held[w]] = quality]
  /\ UNCHANGED <<file, central, config, gainMap, history>>

FillResult(w) ==
  /\ \E quality \in {"good", "bad"} :
       /\ Step(w, "result", IF quality = "good" THEN "copy" ELSE "failed")
       /\ result' = [result EXCEPT ![held[w]] = quality]
  /\ UNCHANGED <<file, central, config, gainMap, history>>

(* copy_pedestal_file: copy whatever the result file holds, and name the    *)
(* copy in the stream configuration.                                        *)

OpenCentral(w) ==
  /\ Step(w, "copy", "copying")
  /\ central' = [central EXCEPT ![held[w]] = "torn"]
  /\ UNCHANGED <<file, result, config, gainMap, history>>

(* Mutant: the raw file is copied, not the result.                          *)
FillCentralRaw(w) ==
  /\ Step(w, "copying", "update")
  /\ central' = [central EXCEPT ![held[w]] = file[held[w]][place[w]]]
  /\ UNCHANGED <<file, result, config, gainMap, history>>

FillCentral(w) ==
  /\ Step(w, "copying", "update")
  /\ central' = [central EXCEPT ![held[w]] = result[held[w]]]
  /\ UNCHANGED <<file, result, config, gainMap, history>>

LoadConfig(w) ==
  /\ Step(w, "update", "open config")
  /\ config # "torn"
  /\ UNCHANGED <<file, shared, history>>

OpenConfig(w) ==
  /\ Step(w, "open config", "save config")
  /\ config' = "torn"
  /\ UNCHANGED <<file, result, central, gainMap, history>>

SaveConfig(w) ==
  /\ Step(w, "save config", "maps")
  /\ config' = held[w]
  /\ served' = served \cup {held[w]}
  /\ UNCHANGED <<file, result, central, gainMap, again, spoilt, orphaned,
                 breaks>>

(* copy_calibration_files, in a finally: run after a failure to put the     *)
(* pedestal into service as well, which is raised again in the end.  If the *)
(* configuration names a gain file, it is copied to the pgroup unless there *)
(* is a copy, whole or not.  (The pixel mask, if there is one, is copied in *)
(* the same way.)                                                           *)

ServiceFails(w) ==
  /\ \E from \in Service : Step(w, from, "maps failing")
  /\ UNCHANGED <<file, shared, history>>

(* Mutant: what the finally does ends the exception.                        *)
AfterMapsSwallowed(p) == "succeeded"

AfterMaps(p) == IF p \in {"maps", "copying maps"} THEN "succeeded" ELSE "failed"

NoMaps(w) ==
  /\ \E from \in {"maps", "maps failing"} : Step(w, from, AfterMaps(from))
  /\ config # "torn"
  /\ ~gainFile
  /\ UNCHANGED <<file, shared, history>>

MapsExist(w) ==
  /\ \E from \in {"maps", "maps failing"} : Step(w, from, AfterMaps(from))
  /\ config # "torn"
  /\ gainFile
  /\ gainMap # "absent"
  /\ UNCHANGED <<file, shared, history>>

MissMaps(w) ==
  /\ \/ Step(w, "maps", "open maps")
     \/ Step(w, "maps failing", "open maps failing")
  /\ config # "torn"
  /\ gainFile
  /\ gainMap = "absent"
  /\ UNCHANGED <<file, shared, history>>

OpenMaps(w) ==
  /\ \/ Step(w, "open maps", "copying maps")
     \/ Step(w, "open maps failing", "copying maps failing")
  /\ gainMap' = "torn"
  /\ UNCHANGED <<file, result, central, config, history>>

FillMaps(w) ==
  /\ \E from \in {"copying maps", "copying maps failing"} :
       Step(w, from, AfterMaps(from))
  /\ gainMap' = "whole"
  /\ UNCHANGED <<file, result, central, config, history>>

-----------------------------------------------------------------------------
(* convert_file.                                                            *)

LoadCalibration(w) ==
  /\ pc[w] = "convert"
  /\ config # "torn"
  /\ using' = [using EXCEPT ![w] = config]
  /\ Goto(w, "export")
  /\ UNCHANGED <<requests, held, linked, place, file, shared, history>>

(* ju.File reads the pedestal when it is made and the raw file when it is   *)
(* exported.                                                                *)
CanOpen(w) ==
  /\ RawIsWhole(w)
  /\ using[w] \in Requests => central[using[w]] \in {"good", "bad"}

(* compression or roi alone: the frames are counted, and nothing is written *)
(* or removed.                                                              *)
CountFrames(w) ==
  /\ Step(w, "export", "succeeded")
  /\ ask[held[w]].kind = "shrink"
  /\ RawIsWhole(w)
  /\ UNCHANGED <<file, shared, history>>

(* Mutant: remove_raw_files is not reset.                                   *)
NoFrameSelectedRemoving(w) ==
  /\ Step(w, "export", IF ask[held[w]].removeRaw THEN "remove" ELSE "succeeded")
  /\ ask[held[w]].kind = "export"
  /\ CanOpen(w)
  /\ UNCHANGED <<file, shared, history>>

NoFrameSelected(w) ==
  /\ Step(w, "export", "succeeded")
  /\ ask[held[w]].kind = "export"
  /\ CanOpen(w)
  /\ UNCHANGED <<file, shared, history>>

OpenOutput(w) ==
  /\ Step(w, "export", "exporting")
  /\ ask[held[w]].kind = "export"
  /\ CanOpen(w)
  /\ Put(held[w], "data", "torn")
  /\ UNCHANGED <<shared, history>>

FillOutput(w) ==
  /\ Step(w, "exporting", IF ask[held[w]].removeRaw THEN "remove" ELSE "succeeded")
  /\ RawIsWhole(w)
  /\ Put(held[w], "data", using[w])
  /\ UNCHANGED <<shared, history>>

RemoveRaw(w) ==
  /\ Step(w, "remove", "succeeded")
  /\ file[held[w]][place[w]] # "absent"
  /\ Put(held[w], place[w], "absent")
  /\ UNCHANGED <<shared, history>>

(* Anything outside of the try statement raises: no room, a missing or torn *)
(* file, a failing sf_writer, crystfel lists or DAP results that cannot be  *)
(* written.                                                                 *)
Fail(w) ==
  /\ \/ \E from \in Thread \ Service : Step(w, from, "failed")
     \/ Step(w, "succeeded", "failed") /\ ask[held[w]].kind # "pedestal"
  /\ BreakOff(w)
  /\ UNCHANGED <<file, shared, served, again, orphaned, breaks>>

-----------------------------------------------------------------------------
Pedestal(w) ==
  \/ OpenResult(w) \/ FillResult(w) \/ OpenCentral(w) \/ FillCentral(w)
  \/ LoadConfig(w) \/ OpenConfig(w) \/ SaveConfig(w) \/ ServiceFails(w)
  \/ NoMaps(w) \/ MapsExist(w) \/ MissMaps(w) \/ OpenMaps(w) \/ FillMaps(w)

Conversion(w) ==
  \/ LoadCalibration(w) \/ CountFrames(w) \/ NoFrameSelected(w)
  \/ OpenOutput(w) \/ FillOutput(w) \/ RemoveRaw(w)

Next ==
  \/ \E r \in Requests : Submit(r)
  \/ \E w \in Writers :
       \/ \E r \in Requests : Take(w, r)
       \/ OpenRaw(w) \/ FillRaw(w) \/ Pedestal(w) \/ Conversion(w) \/ Fail(w)
       \/ Settle(w) \/ Die(w) \/ Cut(w) \/ NoticeCut(w)

Spec == Init /\ [][Next]_vars

-----------------------------------------------------------------------------
Whole(r, p) == file[r][p] \notin {"absent", "torn"}

(* A confirmed request, whose writer nobody gave up while it worked.        *)
Confirmed(r) == stage[r] = "done" /\ r \notin orphaned

(* The data of a confirmed request is somewhere: in the output file, or in  *)
(* a raw file that convert_file then must not have removed, whatever        *)
(* attempts at other places died before.                                    *)
DataSurvives ==
  \A r \in Requests : Confirmed(r) => \E p \in Places : Whole(r, p)

(* The pedestal in service is complete and has good pixels: always if its   *)
(* request was delivered once, failed or not, and once it is confirmed if   *)
(* it was delivered again after a crash.                                    *)
CurrentPedestalIsGood ==
  \A r \in Requests :
    config = r /\ (r \notin again \/ Confirmed(r)) => central[r] = "good"

(* A confirmed pedestal has been in service; and if there is a gain file,   *)
(* the pgroup has a copy of it, although both are updated under a finally:  *)
(* a whole one, as long as no copy ever broke off (it would never be made   *)
(* again), and once no other writer that found none goes on copying.        *)
MapsCopied ==
  /\ gainMap # "absent"
  /\ gainMap = "whole" \/ spoilt \/ \E w \in Writers : pc[w] \in Copying

PedestalTookEffect ==
  \A r \in Requests :
    stage[r] = "done" /\ ask[r].kind = "pedestal"
      => r \in served /\ (gainFile => MapsCopied)

(* A confirmed request without a filter has its output file (the answer to  *)
(* the client lists it, broker_rest_api.md).                                *)
OutputExists ==
  \A r \in Requests :
    Confirmed(r) /\ ask[r].kind # "export" => Whole(r, "data")

=============================================================================
