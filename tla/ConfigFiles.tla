----------------------------- MODULE ConfigFiles -----------------------------
(***************************************************************************)
(* How set_pvlist of the broker and set_dap_settings of the slow broker    *)
(* change the configuration of a beamline's EPICS buffer ("pv") and of a   *)
(* detector's analysis pipeline ("dap").  Both read the file, rewrite it   *)
(* in place and keep a copy named after the second it is made in: the      *)
(* broker copies the new content afterwards, the slow broker the old one   *)
(* before, and puts it back when the rewrite fails.                        *)
(*                                                                         *)
(* A file that is being rewritten, or whose rewrite broke off, is torn;    *)
(* json_load raises on it, and a call that finds it torn changes nothing.  *)
(***************************************************************************)
EXTENDS Integers

CONSTANTS
  MaxSecond,  \* bound: seconds that go by
  MaxFaults   \* bound: calls that fail or die

Files == {"pv", "dap"}

Absent == 0 - 2
Torn   == 0 - 1
First  == 0     \* what was there at first; for "dap" also {}

VARIABLES
  config,  \* the content of each file: the call that wrote it, or one of those
  backup,  \* the copies made of it, by second
  pc,      \* where the call that changes it is
  stamp,   \* the second in the name of its copy
  good,    \* what the last call left that was answered with "ok", or had only
           \* to be answered when the process died (history)
  hurt,    \* a call died, or failed while it undid a failed one (history)
  second,  \* the time
  calls,   \* how many calls were made so far
  faults   \* how many of them failed or died

vars == <<config, backup, pc, stamp, good, hurt, second, calls, faults>>

Seconds == 0..MaxSecond
Places  == {"idle", "empty", "fill empty", "load", "stamp", "copy", "open",
            "fill", "answer", "restore", "put back"}

TypeOK ==
  /\ config \in [Files -> {Absent, Torn} \cup 0..calls]
  /\ backup \in [Files -> [Seconds -> {Absent, Torn} \cup 0..calls]]
  /\ pc \in [Files -> Places]
  /\ stamp \in [Files -> Seconds]
  /\ good \in [Files -> {Absent} \cup 0..calls]
  /\ hurt \subseteq Files
  /\ second \in Seconds
  /\ calls \in Nat
  /\ faults \in 0..MaxFaults

(* set_pvlist wants its file to be there, set_dap_settings creates it.      *)
Init ==
  /\ config \in [Files -> {Absent, First}]
  /\ config["pv"] = First
  /\ backup = [f \in Files |-> [s \in Seconds |-> Absent]]
  /\ pc = [f \in Files |-> "idle"]
  /\ stamp = [f \in Files |-> 0]
  /\ good = config
  /\ hurt = {}
  /\ second = 0
  /\ calls = 0
  /\ faults = 0

Tick ==
  /\ second < MaxSecond
  /\ second' = second + 1
  /\ UNCHANGED <<config, backup, pc, stamp, good, hurt, calls, faults>>

Goto(f, from, to) == pc[f] = from /\ pc' = [pc EXCEPT ![f] = to]

Put(f, content) == config' = [config EXCEPT ![f] = content]

Quiet == UNCHANGED <<hurt, second, calls, faults>>

(* All that is left to do is to answer "ok" for what is in the file.        *)
Succeed(f) == good' = [good EXCEPT ![f] = config'[f]]

-----------------------------------------------------------------------------
SetPvlist ==
  /\ Goto("pv", "idle", "open")
  /\ config["pv"] \notin {Absent, Torn}
  /\ calls' = calls + 1
  /\ UNCHANGED <<config, backup, stamp, good, hurt, second, faults>>

SetDapSettings ==
  /\ Goto("dap", "idle", IF config["dap"] = Absent THEN "empty" ELSE "load")
  /\ config["dap"] # Torn
  /\ calls' = calls + 1
  /\ UNCHANGED <<config, backup, stamp, good, hurt, second, faults>>

CreateEmpty ==
  /\ \/ Goto("dap", "empty", "fill empty") /\ Put("dap", Torn)
     \/ Goto("dap", "fill empty", "load") /\ Put("dap", First)
  /\ UNCHANGED <<backup, stamp, good>>
  /\ Quiet

(* Mutant: no copy is made before the file is changed.                      *)
CompareUnsaved ==
  /\ \/ Goto("dap", "load", "idle") /\ Put("dap", config["dap"]) /\ Succeed("dap")
     \/ Goto("dap", "load", "open") /\ UNCHANGED <<config, good>>
  /\ UNCHANGED <<backup, stamp>>
  /\ Quiet

(* The parameters are compared with those in the file: none may differ.     *)
Compare ==
  /\ \/ Goto("dap", "load", "idle") /\ Put("dap", config["dap"]) /\ Succeed("dap")
     \/ Goto("dap", "load", "stamp") /\ UNCHANGED <<config, good>>
  /\ UNCHANGED <<backup, stamp>>
  /\ Quiet

(* shutil.copyfile to the file of this second.                              *)
OpenBackup(f) ==
  /\ Goto(f, "stamp", "copy")
  /\ stamp' = [stamp EXCEPT ![f] = second]
  /\ backup' = [backup EXCEPT ![f][second] = Torn]
  /\ UNCHANGED <<config, good>>
  /\ Quiet

CopyToBackup(f) ==
  /\ \/ f = "pv" /\ Goto(f, "copy", "answer") /\ Put(f, config[f]) /\ Succeed(f)
     \/ f = "dap" /\ Goto(f, "copy", "open") /\ UNCHANGED <<config, good>>
  /\ backup' = [backup EXCEPT ![f][stamp[f]] = config[f]]
  /\ UNCHANGED stamp
  /\ Quiet

(* json_save.                                                               *)
OpenConfig(f) ==
  /\ Goto(f, "open", "fill")
  /\ Put(f, Torn)
  /\ UNCHANGED <<backup, stamp, good>>
  /\ Quiet

(* Mutant: set_pvlist keeps no copy.                                        *)
FillConfigOnly(f) ==
  /\ Goto(f, "fill", "idle")
  /\ Put(f, calls)
  /\ Succeed(f)
  /\ UNCHANGED <<backup, stamp>>
  /\ Quiet

FillConfig(f) ==
  /\ Put(f, calls)
  /\ \/ f = "pv" /\ Goto(f, "fill", "stamp") /\ UNCHANGED good
     \/ f = "dap" /\ Goto(f, "fill", "answer") /\ Succeed(f)
  /\ UNCHANGED <<backup, stamp>>
  /\ Quiet

Answer(f) ==
  /\ Goto(f, "answer", "idle")
  /\ UNCHANGED <<config, backup, stamp, good>>
  /\ Quiet

(* set_dap_settings puts the copy back when json_save raises, before or     *)
(* after it truncated the file.                                             *)
Restore ==
  /\ \/ Goto("dap", "restore", "put back") /\ Put("dap", Torn)
     \/ Goto("dap", "put back", "idle") /\ Put("dap", backup["dap"][stamp["dap"]])
  /\ UNCHANGED <<backup, stamp, good>>
  /\ Quiet

Fault(f, place) ==
  /\ pc[f] # "idle"
  /\ pc' = [pc EXCEPT ![f] = place]
  /\ faults < MaxFaults
  /\ faults' = faults + 1
  /\ UNCHANGED <<config, backup, stamp, good, second, calls>>

(* Mutant: a failed rewrite is not undone.                                  *)
FailTorn(f) ==
  /\ Fault(f, "idle")
  /\ hurt' = IF pc[f] \in {"fill empty", "restore", "put back"}
               THEN hurt \cup {f} ELSE hurt

(* A failure while {} is written, or while the copy is put back, leaves a   *)
(* torn file.                                                               *)
Fail(f) ==
  /\ pc[f] # "answer"
  /\ Fault(f, IF f = "dap" /\ pc[f] \in {"open", "fill"} THEN "restore" ELSE "idle")
  /\ hurt' = IF pc[f] \in {"fill empty", "restore", "put back"}
               THEN hurt \cup {f} ELSE hurt

Die(f) == Fault(f, "idle") /\ hurt' = hurt \cup {f}

Steps(f) == OpenBackup(f) \/ CopyToBackup(f) \/ OpenConfig(f) \/ FillConfig(f) \/ Answer(f)

Works ==
  \/ CreateEmpty \/ Compare \/ Restore
  \/ \E f \in Files : Steps(f) \/ Fail(f) \/ Die(f)

Next == SetPvlist \/ SetDapSettings \/ Works \/ Tick

Spec == Init /\ [][Next]_vars

-----------------------------------------------------------------------------
(* Wherever calls fail and die, also while a failed one is undone, and     *)
(* however many share a second and so a copy's name: analysis settings that *)
(* were confirmed, or saved by a call that died before its answer, and are  *)
(* torn now are in one of the copies.                                       *)
DapSettingsSurvive ==
  config["dap"] = Torn /\ good["dap"] # Absent
    => \E s \in Seconds : backup["dap"][s] = good["dap"]

(* A call of set_dap_settings that fails changes nothing, unless undoing it *)
(* failed too or the process died.                                          *)
DapFailureUndone ==
  pc["dap"] = "idle" /\ "dap" \notin hurt
    => \/ config["dap"] = good["dap"]
       \/ good["dap"] = Absent /\ config["dap"] = First

(* A PV list that was confirmed, or had only to be, and whose file is torn  *)
(* now is in one of the copies, unless making one of them broke off.        *)
PvlistSurvives ==
  config["pv"] = Torn /\ good["pv"] # First
    => \E s \in Seconds : backup["pv"][s] \in {good["pv"], Torn}

=============================================================================
