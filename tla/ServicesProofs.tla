--------------------------- MODULE ServicesProofs ---------------------------
(***************************************************************************)
(* The theorems about Services, for any scripts and files and any number   *)
(* of calls, failures and pushes of others.  The three services share no   *)
(* variable, so that each has an invariant of its own.                     *)
(***************************************************************************)
EXTENDS Services, WellFoundedInduction, TLAPS

(* Contents of calls up to n, or none.                                      *)
Upto(n) == {C!Absent, C!Torn} \cup 0..n

(* TypeOK of ConfigFiles, and where a file is known to be whole.            *)
ConfigTyped ==
  /\ config \in [C!Files -> Upto(calls)]
  /\ backup \in [C!Files -> [C!Seconds -> Upto(calls)]]
  /\ configPc \in [C!Files -> C!Places]
  /\ stamp \in [C!Files -> C!Seconds]
  /\ good \in [C!Files -> {C!Absent} \cup 0..calls]
  /\ hurt \subseteq C!Files
  /\ second \in C!Seconds
  /\ calls \in Nat
  /\ configFaults \in 0..MaxFaults
  /\ configPc["dap"] \in {"load", "stamp", "copy", "open"} => config["dap"] \in 0..calls
  /\ configPc["pv"] \in {"stamp", "copy"} => config["pv"] \in 0..calls

(* The content set_dap_settings may not lose: what was confirmed, or {}.    *)
Kept(content) == content = good["dap"] \/ (good["dap"] = C!Absent /\ content = C!First)

(* The settings are what they should be, or torn and in the copy of the     *)
(* call that rewrites them.                                                 *)
DapOK ==
  /\ config["dap"] = C!Torn \/ Kept(config["dap"])
  /\ configPc["dap"] \in {"open", "fill", "restore", "put back"}
       => LET copy == backup["dap"][stamp["dap"]]
          IN  Kept(copy) /\ copy # C!Absent
  /\ configPc["dap"] = "answer" => config["dap"] # C!Torn
  /\ configPc["dap"] = "empty" => config["dap"] = C!Absent
  /\ configPc["dap"] = "fill empty" => good["dap"] = C!Absent
  /\ configPc["dap"] = "idle" /\ "dap" \notin hurt => config["dap"] # C!Torn
  /\ DapSettingsSurvive

(* A confirmed list has a copy, until another is made in the same second.   *)
PvlistOK ==
  good["pv"] # C!First
    => \E s \in C!Seconds : backup["pv"][s] \in {good["pv"], C!Torn}

(* TypeOK of DapScripts, and what the script of a call contains once it is  *)
(* written: code that was uploaded.                                         *)
ScriptTyped ==
  /\ S!TypeOK
  /\ scriptPc # "idle" => code # 0
  /\ scriptPc \in {"test", "add", "commit"} => tree[script] = code

(* How far the clone's files and index are ahead of its last commit.        *)
OthersAsInHead == \A s \in Scripts \ {script} : tree[s] = head[s]

CloneOK ==
  /\ scriptPc \in {"open", "fill", "test", "clean", "add", "commit", "push"} => ~rebasing
  /\ scriptPc \in {"open", "fill", "test", "add"} => index = head
  /\ scriptPc = "open" => tree = head
  /\ scriptPc \in {"fill", "test", "add", "commit"} => OthersAsInHead
  /\ scriptPc = "commit" => index = tree
  /\ scriptPc = "push" => index = head /\ tree = head /\ head[script] = code
  /\ CleanWhenIdle

(* Whatever has a commit, or is about to have one, was tested or merged.    *)
TestedOK ==
  /\ \A s \in Scripts : {origin[s], head[s], index[s]} \subseteq passed \cup merged \cup {S!Missing}
  /\ scriptPc \in {"add", "commit", "push"} => code \in passed

(* The code of a call is that of no commit yet, and confirmed code is in    *)
(* every commit the next pull may leave.                                    *)
KeptOK ==
  /\ scriptPc \in {"update", "open", "fill", "test", "clean", "add", "commit"}
       => \A s \in Scripts : code \notin {origin[s], base[s], head[s]}
  /\ scriptPc = "push" => code # base[script]
  /\ scriptPc # "idle" => code >= confirmed[script]
  /\ \A s \in Scripts : IF head[s] = base[s] THEN origin[s] >= confirmed[s]
                                             ELSE head[s] >= confirmed[s]

(* The loop comes to the files in order.                                    *)
CopiedOK ==
  /\ \A f \in copied, g \in todo : f < g
  /\ LastReportedIsThere

(* The slow broker serves one request at a time.                            *)
OneRequest ==
  /\ configPc["dap"] # "idle" => scriptPc = "idle" /\ copyPc = "idle"
  /\ scriptPc # "idle" => copyPc = "idle"

IInv ==
  /\ ConfigTyped /\ DapOK /\ PvlistOK
  /\ ScriptTyped /\ CloneOK /\ TestedOK /\ KeptOK
  /\ U!TypeOK /\ CopiedOK
  /\ OneRequest

-----------------------------------------------------------------------------
(* A step of one service leaves the other two alone, and the slow broker    *)
(* only begins a request when it serves none.                               *)
LEMMA Steps ==
  ASSUME [Next]_vars
  PROVE  /\ [C!Next]_configVars /\ [S!Next]_scriptVars /\ [U!Next]_copyVars
<1>1. CASE Call
  BY <1>1 DEF Call, C!Next, S!Next, U!Next, configVars, scriptVars, copyVars
<1>2. CASE Serve
  BY <1>2 DEF Serve, C!Next, S!Next, U!Next
<1>3. CASE Elsewhere
  BY <1>3 DEF Elsewhere, C!Next, S!Next, U!Next
<1>4. CASE UNCHANGED vars
  BY <1>4 DEF vars
<1> QED
  BY <1>1, <1>2, <1>3, <1>4 DEF Next

LEMMA UptoGrows ==
  ASSUME NEW n \in Nat
  PROVE  Upto(n) \subseteq Upto(n + 1) /\ 0..n \subseteq 0..(n + 1)
BY DEF Upto

LEMMA InUpto ==
  ASSUME NEW n \in Nat
  PROVE  /\ C!Torn \in Upto(n) /\ C!First \in Upto(n) /\ n \in Upto(n) /\ 0..n \subseteq Upto(n)
         /\ C!Torn \notin 0..n /\ C!Absent \notin 0..n /\ C!First \in 0..n
         /\ C!Absent # C!Torn /\ C!First # C!Torn /\ C!First # C!Absent
         /\ Upto(n) \ {C!Absent, C!Torn} = 0..n
BY DEF Upto, C!Torn, C!First, C!Absent

LEMMA ConfigTypesAreTypes == ConfigTyped => C!TypeOK
BY DEF C!TypeOK, ConfigTyped, Upto

LEMMA CallTypes ==
  ASSUME ConfigTyped, C!SetPvlist \/ C!SetDapSettings
  PROVE  ConfigTyped'
<1> USE DEF ConfigTyped
<1>1. /\ calls' = calls + 1 /\ calls' \in Nat
      /\ Upto(calls) \subseteq Upto(calls') /\ 0..calls \subseteq 0..calls'
      /\ UNCHANGED <<config, backup, stamp, good, hurt, second, configFaults>>
  BY UptoGrows DEF C!SetPvlist, C!SetDapSettings
<1>2. config' \in [C!Files -> Upto(calls')]
  BY <1>1
<1>3. backup' \in [C!Files -> [C!Seconds -> Upto(calls')]]
  BY <1>1
<1>4. good' \in [C!Files -> {C!Absent} \cup 0..calls']
  BY <1>1
<1>5. configPc' \in [C!Files -> C!Places]
  BY DEF C!SetPvlist, C!SetDapSettings, C!Goto, C!Places, C!Files
<1>6. configPc'["dap"] \in {"load", "stamp", "copy", "open"} => config'["dap"] \in 0..calls'
  <2>1. CASE C!SetPvlist
    BY <1>1, <2>1 DEF C!SetPvlist, C!Goto, C!Files
  <2>2. CASE C!SetDapSettings
    <3>1. config["dap"] \in Upto(calls) /\ config["dap"] # C!Torn
      BY <2>2 DEF C!SetDapSettings, C!Files
    <3>2. configPc'["dap"] = (IF config["dap"] = C!Absent THEN "empty" ELSE "load")
      BY <2>2 DEF C!SetDapSettings, C!Goto, C!Files
    <3> QED
      BY <1>1, <3>1, <3>2, InUpto
  <2> QED
    BY <2>1, <2>2
<1>7. configPc'["pv"] \in {"stamp", "copy"} => config'["pv"] \in 0..calls'
  BY <1>1 DEF C!SetPvlist, C!SetDapSettings, C!Goto, C!Files
<1> QED
  BY <1>1, <1>2, <1>3, <1>4, <1>5, <1>6, <1>7


(* The steps of a call under way change no number of a call.                *)
LEMMA WorkTypes ==
  ASSUME ConfigTyped, ServicesAssumption, C!Works
  PROVE  ConfigTyped'
<1> USE DEF ConfigTyped
<1>0. calls' = calls /\ second' = second
  BY DEF C!Works, C!CreateEmpty, C!Compare, C!Restore, C!Steps, C!OpenBackup, C!CopyToBackup,
         C!OpenConfig, C!FillConfig, C!Answer, C!Fail, C!Die, C!Fault, C!Quiet
<1>1. CASE C!CreateEmpty
  <2>1. config' \in [C!Files -> Upto(calls)]
    BY <1>1, InUpto DEF C!CreateEmpty, C!Put
  <2>2. configPc' \in [C!Files -> C!Places]
    BY <1>1 DEF C!CreateEmpty, C!Goto, C!Places
  <2>3. configPc'["dap"] = "load" => config'["dap"] \in 0..calls
    <3>1. configPc'["dap"] = "load" => config'["dap"] = C!First
      BY <1>1 DEF C!CreateEmpty, C!Goto, C!Put, C!Files
    <3>2. C!First \in 0..calls
      BY InUpto
    <3> QED
      BY <3>1, <3>2
  <2>4. configPc'["dap"] \in {"fill empty", "load"}
    BY <1>1 DEF C!CreateEmpty, C!Goto, C!Files
  <2>5. configPc'["pv"] = configPc["pv"] /\ config'["pv"] = config["pv"]
    BY <1>1 DEF C!CreateEmpty, C!Goto, C!Put, C!Files
  <2> QED
    BY <1>0, <1>1, <2>1, <2>2, <2>3, <2>4, <2>5 DEF C!CreateEmpty, C!Quiet
<1>2. CASE C!Compare
  <2>1. configPc["dap"] = "load" /\ config["dap"] \in 0..calls
    BY <1>2 DEF C!Compare, C!Goto
  <2>2. config' = config
    BY <1>2 DEF C!Compare, C!Put
  <2>3. good' \in [C!Files -> {C!Absent} \cup 0..calls]
    BY <1>2, <2>1, <2>2 DEF C!Compare, C!Succeed
  <2>4. configPc' \in [C!Files -> C!Places]
    BY <1>2 DEF C!Compare, C!Goto, C!Places
  <2>5. configPc'["dap"] \in {"idle", "stamp"} /\ configPc'["pv"] = configPc["pv"]
    BY <1>2 DEF C!Compare, C!Goto, C!Files
  <2> QED
    BY <1>0, <1>2, <2>1, <2>2, <2>3, <2>4, <2>5 DEF C!Compare, C!Quiet
<1>3. CASE C!Restore
  <2>1. backup["dap"][stamp["dap"]] \in Upto(calls)
    BY DEF C!Files
  <2>2. config' \in [C!Files -> Upto(calls)]
    BY <1>3, <2>1, InUpto DEF C!Restore, C!Put
  <2>3. configPc' \in [C!Files -> C!Places]
    BY <1>3 DEF C!Restore, C!Goto, C!Places
  <2>4. configPc'["dap"] \in {"idle", "put back"}
    BY <1>3 DEF C!Restore, C!Goto, C!Files
  <2>5. configPc'["pv"] = configPc["pv"] /\ config'["pv"] = config["pv"]
    BY <1>3 DEF C!Restore, C!Goto, C!Put, C!Files
  <2> QED
    BY <1>0, <1>3, <2>2, <2>3, <2>4, <2>5 DEF C!Restore, C!Quiet
<1>4. ASSUME NEW f \in C!Files, C!OpenBackup(f) PROVE ConfigTyped'
  <2>1. backup' \in [C!Files -> [C!Seconds -> Upto(calls)]]
    BY <1>4, InUpto DEF C!OpenBackup
  <2>2. configPc' \in [C!Files -> C!Places]
    BY <1>4 DEF C!OpenBackup, C!Goto, C!Places
  <2>3. stamp' \in [C!Files -> C!Seconds]
    BY <1>4 DEF C!OpenBackup
  <2>4. \A g \in C!Files : configPc'[g] = configPc[g] \/ (configPc[g] = "stamp" /\ configPc'[g] = "copy")
    BY <1>4 DEF C!OpenBackup, C!Goto
  <2> QED
    BY <1>0, <1>4, <2>1, <2>2, <2>3, <2>4 DEF C!OpenBackup, C!Quiet, C!Files
<1>5. ASSUME NEW f \in C!Files, C!CopyToBackup(f) PROVE ConfigTyped'
  <2>0. configPc[f] = "copy" /\ config[f] \in 0..calls
    BY <1>5 DEF C!CopyToBackup, C!Goto, C!Files
  <2>1. config' = config
    BY <1>5 DEF C!CopyToBackup, C!Put
  <2>2. good' \in [C!Files -> {C!Absent} \cup 0..calls]
    BY <1>5, <2>0, <2>1 DEF C!CopyToBackup, C!Succeed
  <2>3. backup' \in [C!Files -> [C!Seconds -> Upto(calls)]]
    BY <1>5 DEF C!CopyToBackup
  <2>4. configPc' \in [C!Files -> C!Places]
    BY <1>5 DEF C!CopyToBackup, C!Goto, C!Places
  <2>5. \A g \in C!Files : configPc'[g] = configPc[g] \/ (g = f /\ configPc'[g] \in {"answer", "open"})
    BY <1>5 DEF C!CopyToBackup, C!Goto
  <2> QED
    BY <1>0, <1>5, <2>0, <2>1, <2>2, <2>3, <2>4, <2>5 DEF C!CopyToBackup, C!Quiet, C!Files
<1>6. ASSUME NEW f \in C!Files, C!OpenConfig(f) PROVE ConfigTyped'
  <2>1. config' \in [C!Files -> Upto(calls)]
    BY <1>6, InUpto DEF C!OpenConfig, C!Put
  <2>2. configPc' \in [C!Files -> C!Places]
    BY <1>6 DEF C!OpenConfig, C!Goto, C!Places
  <2>3. \A g \in C!Files : \/ configPc'[g] = configPc[g] /\ config'[g] = config[g]
                          \/ configPc'[g] = "fill"
    BY <1>6 DEF C!OpenConfig, C!Goto, C!Put
  <2> QED
    BY <1>0, <1>6, <2>1, <2>2, <2>3 DEF C!OpenConfig, C!Quiet, C!Files
<1>7. ASSUME NEW f \in C!Files, C!FillConfig(f) PROVE ConfigTyped'
  <2>1. config' \in [C!Files -> Upto(calls)] /\ config'[f] = calls /\ calls \in 0..calls
    BY <1>7, InUpto DEF C!FillConfig, C!Put
  <2>2. good' \in [C!Files -> {C!Absent} \cup 0..calls]
    BY <1>7, <2>1 DEF C!FillConfig, C!Succeed
  <2>3. configPc' \in [C!Files -> C!Places]
    BY <1>7 DEF C!FillConfig, C!Goto, C!Places
  <2>4. \A g \in C!Files \ {f} : configPc'[g] = configPc[g] /\ config'[g] = config[g]
    BY <1>7 DEF C!FillConfig, C!Goto, C!Put
  <2>5. f = "pv" \/ (f = "dap" /\ configPc'[f] = "answer")
    BY <1>7 DEF C!FillConfig, C!Goto
  <2> QED
    BY <1>0, <1>7, <2>1, <2>2, <2>3, <2>4, <2>5 DEF C!FillConfig, C!Quiet, C!Files
<1>8. ASSUME NEW f \in C!Files, C!Fail(f) \/ C!Die(f) PROVE ConfigTyped'
  <2>1. configPc' \in [C!Files -> C!Places]
    BY <1>8 DEF C!Fail, C!Die, C!Fault, C!Places
  <2>2. \A g \in C!Files : configPc'[g] = configPc[g] \/ configPc'[g] \in {"idle", "restore"}
    BY <1>8 DEF C!Fail, C!Die, C!Fault
  <2>3. hurt' \subseteq C!Files
    BY <1>8 DEF C!Fail, C!Die
  <2>4. configFaults' \in 0..MaxFaults
    <3>1. MaxFaults \in Nat /\ configFaults' = configFaults + 1 /\ configFaults < MaxFaults
      BY <1>8 DEF C!Fail, C!Die, C!Fault, ServicesAssumption
    <3> QED
      BY <3>1
  <2> QED
    BY <1>0, <1>8, <2>1, <2>2, <2>3, <2>4 DEF C!Fail, C!Die, C!Fault, C!Files
<1>9. ASSUME NEW f \in C!Files, C!Answer(f) PROVE ConfigTyped'
  <2>1. configPc' \in [C!Files -> C!Places]
    BY <1>9 DEF C!Answer, C!Goto, C!Places
  <2>2. \A g \in C!Files : configPc'[g] = configPc[g] \/ configPc'[g] = "idle"
    BY <1>9 DEF C!Answer, C!Goto
  <2> QED
    BY <1>0, <1>9, <2>1, <2>2 DEF C!Answer, C!Quiet, C!Files
<1> QED
  BY <1>1, <1>2, <1>3, <1>4, <1>5, <1>6, <1>7, <1>8, <1>9 DEF C!Works, C!Steps

LEMMA ConfigStep ==
  ASSUME ServicesAssumption, ConfigTyped, [C!Next]_configVars
  PROVE  ConfigTyped'
<1>1. CASE C!Tick
  BY <1>1 DEF C!Tick, ConfigTyped, C!Seconds, ServicesAssumption
<1>2. CASE UNCHANGED configVars
  BY <1>2 DEF configVars, ConfigTyped
<1> QED
  BY <1>1, <1>2, CallTypes, WorkTypes DEF C!Next

LEMMA ScriptTypes ==
  ASSUME ServicesAssumption, ScriptTyped, [S!Next]_scriptVars
  PROVE  ScriptTyped'
<1> USE DEF ScriptTyped, S!TypeOK, S!Missing, S!Goto, S!clone, S!current, S!history, S!bounds
<1>1. ASSUME NEW s \in Scripts, S!OthersPush(s) PROVE ScriptTyped'
  <2>1. codes' = codes + 1 /\ codes + 1 \in 0..codes' /\ 0..codes \subseteq 0..codes'
    BY <1>1 DEF S!OthersPush
  <2>2. S!Versions \subseteq S!Versions'
    BY <2>1 DEF S!Versions
  <2>3. origin' \in S!Versions'
    BY <1>1, <2>1 DEF S!OthersPush, S!Versions
  <2>4. tree \in [Scripts -> S!Torn..codes']
    BY <2>1 DEF S!Torn
  <2>5. passed' \subseteq 1..codes' /\ merged \subseteq 1..codes'
    <3>1. 1..codes \subseteq 1..codes' /\ codes + 1 \in 1..codes'
      BY <2>1
    <3> QED
      BY <1>1, <3>1 DEF S!OthersPush
  <2> QED
    BY <1>1, <2>1, <2>2, <2>3, <2>4, <2>5 DEF S!OthersPush
<1>2. ASSUME NEW s \in Scripts, S!Upload(s) PROVE ScriptTyped'
  <2>1. codes' = codes + 1 /\ codes + 1 \in 0..codes' /\ 0..codes \subseteq 0..codes'
    BY <1>2 DEF S!Upload
  <2>2. S!Versions \subseteq S!Versions'
    BY <2>1 DEF S!Versions
  <2>3. /\ tree \in [Scripts -> S!Torn..codes'] /\ passed \subseteq 1..codes'
        /\ merged \subseteq 1..codes'
    BY <2>1 DEF S!Torn
  <2> QED
    BY <1>2, <2>1, <2>2, <2>3 DEF S!Upload
<1>3. ASSUME codes' = codes PROVE S!Versions' = S!Versions
  BY <1>3 DEF S!Versions
<1>4. \A v \in S!Versions : v \in [Scripts -> S!Torn..codes]
  BY DEF S!Versions, S!Torn
<1>5. CASE S!Pull
  <2>1. S!Rebased(S!Missing) \in S!Versions
    BY DEF S!Rebased, S!Versions
  <2> QED
    BY <1>3, <1>4, <1>5, <2>1 DEF S!Pull, S!MoveTo
<1>6. CASE S!Refuse
  BY <1>3, <1>6 DEF S!Refuse
<1>16. CASE S!PullMerges
  <2>1. codes' = codes + 1 /\ codes + 1 \in 0..codes' /\ 0..codes \subseteq 0..codes'
    BY <1>16 DEF S!PullMerges
  <2>2. S!Versions \subseteq S!Versions' /\ S!Versions' = [Scripts -> 0..(codes + 1)]
    BY <2>1 DEF S!Versions
  <2>3. S!Rebased(codes + 1) \in [Scripts -> 0..(codes + 1)]
    BY DEF S!Rebased, S!Versions
  <2>4. {base', head', index'} \subseteq S!Versions'
    BY <1>16, <2>2, <2>3 DEF S!PullMerges, S!MoveTo
  <2>5. tree' \in [Scripts -> S!Torn..codes']
    BY <1>16, <2>1, <2>3 DEF S!PullMerges, S!MoveTo, S!Torn
  <2>6. merged' \subseteq 1..codes' /\ passed' \subseteq 1..codes'
    BY <1>16, <2>1 DEF S!PullMerges
  <2> QED
    BY <1>16, <2>1, <2>2, <2>4, <2>5, <2>6 DEF S!PullMerges
<1>17. CASE S!PullStops
  <2>0. origin \in [Scripts -> S!Torn..codes] /\ S!Torn \in S!Torn..codes
    BY <1>4 DEF S!Torn
  <2>1. tree' \in [Scripts -> S!Torn..codes]
    BY <1>17, <2>0 DEF S!PullStops
  <2> QED
    BY <1>3, <1>17, <2>1 DEF S!PullStops
<1>7. CASE S!WriteScript
  <2>1. S!Torn \in S!Torn..codes /\ code \in S!Torn..codes
    BY DEF S!Torn
  <2> QED
    BY <1>3, <1>7, <2>1 DEF S!WriteScript, S!Torn
<1>8. CASE S!Passes \/ S!FailsTest
  <2>1. scriptPc = "test" /\ UNCHANGED <<origin, base, head, index, tree, rebasing, script, code,
                                      merged, confirmed, broken, codes, pushes, scriptFaults>>
    BY <1>8 DEF S!Passes, S!FailsTest
  <2>0. code \in 1..codes
    BY <2>1
  <2>2. passed' \subseteq 1..codes
    BY <1>8, <2>0 DEF S!Passes, S!FailsTest
  <2>3. scriptPc' \in {"add", "clean"}
    BY <1>8 DEF S!Passes, S!FailsTest
  <2> QED
    BY <1>3, <2>1, <2>2, <2>3
<1>9. CASE S!Clean
  BY <1>3, <1>4, <1>9 DEF S!Clean
<1>10. CASE S!Add
  <2>1. index' \in S!Versions
    BY <1>10 DEF S!Add, S!Versions
  <2> QED
    BY <1>3, <1>10, <2>1 DEF S!Add
<1>11. CASE S!Commit
  BY <1>3, <1>11 DEF S!Commit
<1>12. CASE S!Push \/ S!PushRejected
  <2>1. confirmed' \in S!Versions
    BY <1>12 DEF S!Push, S!PushRejected, S!Confirm, S!Versions
  <2> QED
    BY <1>3, <1>12, <2>1 DEF S!Push, S!PushRejected
<1>13. CASE S!PushUnanswered
  BY <1>3, <1>13, ServicesAssumption DEF S!PushUnanswered, ServicesAssumption
<1>14. CASE S!Fail \/ S!Die
  <2>1. scriptPc' \in {"idle", "clean"} /\ scriptPc # "idle"
    BY <1>14 DEF S!Fail, S!Die, S!Fault
  <2>2. scriptFaults' \in 0..MaxFaults
    BY <1>14 DEF S!Fail, S!Die, S!Fault, ServicesAssumption
  <2>3. broken' \in BOOLEAN
    BY <1>14 DEF S!Fail, S!Die
  <2> QED
    BY <1>3, <1>14, <2>1, <2>2, <2>3 DEF S!Fail, S!Die, S!Fault
<1>15. CASE UNCHANGED scriptVars
  BY <1>3, <1>15 DEF scriptVars
<1> QED
  BY <1>1, <1>2, <1>5, <1>6, <1>7, <1>8, <1>9, <1>10, <1>11, <1>12, <1>13, <1>14, <1>15,
     <1>16, <1>17 DEF S!Next, S!Works

(* The least of the files to be copied is one of them.                      *)
LEMMA Least ==
  ASSUME NEW T \in SUBSET Nat, T # {}
  PROVE  U!Min(T) \in T /\ \A t \in T : U!Min(T) =< t
<1>1. PICK R : R = {ss \in Nat \X Nat : ss[1] < ss[2]}
  OBVIOUS
<1>2. R = OpToRel(<, Nat)
  BY <1>1 DEF OpToRel
<1>3. IsWellFoundedOn(R, Nat)
  BY <1>2, NatLessThanWellFounded
<1>4. PICK m \in T : \A t \in T : ~(<<t, m>> \in R)
  BY <1>3, WFMin
<1>5. ASSUME NEW t \in T PROVE m =< t
  <2>1. t \in Nat /\ m \in Nat
    OBVIOUS
  <2>2. CASE t < m
    <3>1. <<t, m>> \in Nat \X Nat /\ <<t, m>>[1] < <<t, m>>[2]
      BY <2>1, <2>2
    <3>2. <<t, m>> \in R
      BY <1>1, <3>1
    <3> QED
      BY <1>4, <3>2
  <2> QED
    BY <2>1, <2>2
<1> QED
  BY <1>4, <1>5 DEF U!Min

LEMMA MinIsIn ==
  ASSUME ServicesAssumption, U!TypeOK, todo # {}
  PROVE  U!Min(todo) \in todo /\ \A t \in todo : U!Min(todo) =< t
<1>1. todo \in SUBSET Nat
  BY DEF U!TypeOK, ServicesAssumption
<1> QED
  BY <1>1, Least

LEMMA CopyTypes ==
  ASSUME ServicesAssumption, U!TypeOK, [U!Next]_copyVars
  PROVE  U!TypeOK'
<1> USE DEF U!TypeOK
<1>1. closed' \in BOOLEAN
  <2>1. closed' = closed \/ closed' = TRUE
    BY DEF copyVars, U!Next, U!Works, U!Close, U!CopyUserFiles, U!OpenCopy, U!FillCopy, U!PassOver,
           U!At, U!Answer, U!Die
  <2> QED
    BY <2>1
<1>2. aux' \in [U!Names -> {U!Absent, U!Torn} \cup Sources]
  <2>1. ASSUME NEW f \in Sources, U!OpenCopy(f) \/ U!FillCopy(f)
        PROVE  aux' \in [U!Names -> {U!Absent, U!Torn} \cup Sources]
    BY <2>1 DEF U!OpenCopy, U!FillCopy, U!Change
  <2>2. (\E f \in Sources : U!OpenCopy(f) \/ U!FillCopy(f)) \/ aux' = aux
    BY DEF copyVars, U!Next, U!Works, U!Close, U!CopyUserFiles, U!PassOver, U!Answer, U!Die
  <2> QED
    BY <2>1, <2>2
<1>3. copyPc' \in {"idle", "copying", "fill"}
  BY DEF copyVars, U!Next, U!Works, U!Close, U!CopyUserFiles, U!OpenCopy, U!FillCopy, U!PassOver,
         U!At, U!Answer, U!Die
<1>4. files' \subseteq Sources /\ todo' \subseteq files' /\ copied' \subseteq files' \ todo'
  <2>1. ASSUME NEW f \in Sources, U!OpenCopy(f) \/ U!FillCopy(f) \/ U!PassOver(f)
        PROVE  /\ files' = files /\ todo' \in {todo, todo \ {f}}
               /\ copied' \in {copied, copied \cup {f}} /\ (copied' # copied => todo' = todo \ {f})
    BY <2>1 DEF U!OpenCopy, U!FillCopy, U!PassOver, U!At
  <2>2. ASSUME NEW f \in Sources, U!FillCopy(f) PROVE f \in files
    <3>1. todo # {} /\ f \in todo
      BY <2>2, MinIsIn DEF U!FillCopy, U!At
    <3> QED
      BY <3>1
  <2>3. ASSUME NEW f \in Sources, U!OpenCopy(f) \/ U!PassOver(f) PROVE copied' = copied
    BY <2>3 DEF U!OpenCopy, U!PassOver
  <2>4. \/ UNCHANGED <<files, todo, copied>>
        \/ files' = {} /\ todo' = {} /\ copied' = {}
        \/ \E fs \in SUBSET Sources : files' = fs /\ todo' = fs /\ copied' = {}
        \/ \E f \in Sources : U!OpenCopy(f) \/ U!FillCopy(f) \/ U!PassOver(f)
    BY DEF copyVars, U!Next, U!Works, U!Close, U!CopyUserFiles, U!Answer, U!Die
  <2>5. CASE \E f \in Sources : U!OpenCopy(f) \/ U!PassOver(f)
    BY <2>1, <2>3, <2>5
  <2>6. CASE \E f \in Sources : U!FillCopy(f)
    <3>1. PICK f \in Sources : U!FillCopy(f)
      BY <2>6
    <3>2. /\ f \in files /\ files' = files /\ todo' \in {todo, todo \ {f}}
          /\ copied' = copied \/ (copied' = copied \cup {f} /\ todo' = todo \ {f})
      BY <2>1, <2>2, <3>1
    <3> QED
      BY <3>2
  <2> QED
    BY <2>4, <2>5, <2>6
<1>5. copies' \in Nat
  BY DEF copyVars, U!Next, U!Works, U!Close, U!CopyUserFiles, U!OpenCopy, U!FillCopy, U!PassOver,
         U!At, U!Answer, U!Die
<1>6. copyFaults' \in 0..MaxFaults
  BY DEF ServicesAssumption, copyVars, U!Next, U!Works, U!Close, U!CopyUserFiles, U!OpenCopy,
         U!FillCopy, U!PassOver, U!At, U!Answer, U!Die
<1> QED
  BY <1>1, <1>2, <1>3, <1>4, <1>5, <1>6

-----------------------------------------------------------------------------
(* A step that is none of set_dap_settings, or not visible to it.           *)
DapSame ==
  /\ config'["dap"] = config["dap"] /\ backup'["dap"] = backup["dap"]
  /\ configPc'["dap"] = configPc["dap"] /\ stamp'["dap"] = stamp["dap"]
  /\ good'["dap"] = good["dap"] /\ ("dap" \in hurt' <=> "dap" \in hurt)

LEMMA DapSameOK == DapOK /\ DapSame => DapOK'
BY DEF DapOK, DapSame, Kept, DapSettingsSurvive, C!DapSettingsSurvive

(* A copy of settings that were confirmed is one they survive in.           *)
LEMMA Survive ==
  ASSUME ConfigTyped, Kept(backup["dap"][stamp["dap"]])
  PROVE  DapSettingsSurvive
BY DEF ConfigTyped, Kept, DapSettingsSurvive, C!DapSettingsSurvive, C!Files

LEMMA NotTorn ==
  ASSUME config["dap"] # C!Torn
  PROVE  DapSettingsSurvive
BY DEF DapSettingsSurvive, C!DapSettingsSurvive

LEMMA DapWorks ==
  ASSUME ServicesAssumption, ConfigTyped, ConfigTyped', DapOK,
         \/ C!SetDapSettings \/ C!CreateEmpty \/ C!Compare \/ C!Restore
         \/ C!Steps("dap") \/ C!Fail("dap") \/ C!Die("dap")
  PROVE  DapOK'
<1>0. /\ calls \in Nat /\ calls' \in Nat /\ "dap" \in C!Files
      /\ DOMAIN config = C!Files /\ DOMAIN backup = C!Files /\ DOMAIN configPc = C!Files
      /\ DOMAIN stamp = C!Files /\ DOMAIN good = C!Files
      /\ DOMAIN backup["dap"] = C!Seconds /\ stamp["dap"] \in C!Seconds /\ second \in C!Seconds
      /\ good["dap"] # C!Torn
  BY InUpto DEF ConfigTyped, C!Files, C!Absent, C!Torn
<1>1. CASE C!SetDapSettings
  <2>1. /\ configPc'["dap"] = (IF config["dap"] = C!Absent THEN "empty" ELSE "load")
        /\ UNCHANGED <<config, backup, stamp, good, hurt>>
        /\ config["dap"] # C!Torn
    BY <1>0, <1>1 DEF C!SetDapSettings, C!Goto
  <2>2. DapSettingsSurvive'
    BY <2>1, NotTorn DEF DapSettingsSurvive, C!DapSettingsSurvive
  <2> QED
    BY <2>1, <2>2 DEF DapOK, Kept
<1>2. CASE C!CreateEmpty
  <2>1. /\ UNCHANGED <<backup, stamp, good, hurt>>
        /\ \/ configPc["dap"] = "empty" /\ configPc'["dap"] = "fill empty" /\ config'["dap"] = C!Torn
           \/ configPc["dap"] = "fill empty" /\ configPc'["dap"] = "load" /\ config'["dap"] = C!First
    BY <1>0, <1>2 DEF C!CreateEmpty, C!Goto, C!Put, C!Quiet
  <2>2. good["dap"] = C!Absent
    <3>1. CASE configPc["dap"] = "empty"
      BY <3>1, InUpto, <1>0 DEF DapOK, Kept
    <3> QED
      BY <2>1, <3>1 DEF DapOK
  <2> QED
    BY <2>1, <2>2 DEF DapOK, Kept, DapSettingsSurvive, C!DapSettingsSurvive
<1>3. CASE C!Compare
  <2>1. /\ UNCHANGED <<config, backup, stamp, hurt>> /\ configPc["dap"] = "load"
        /\ \/ configPc'["dap"] = "idle" /\ good'["dap"] = config["dap"]
           \/ configPc'["dap"] = "stamp" /\ good' = good
    BY <1>0, <1>3 DEF C!Compare, C!Goto, C!Put, C!Quiet, C!Succeed, ConfigTyped
  <2>2. config["dap"] # C!Torn
    BY <1>0, <2>1, InUpto DEF ConfigTyped
  <2> QED
    BY <2>1, <2>2 DEF DapOK, Kept, DapSettingsSurvive, C!DapSettingsSurvive
<1>4. CASE C!OpenBackup("dap")
  <2>1. /\ UNCHANGED <<config, good, hurt>>
        /\ configPc["dap"] = "stamp" /\ configPc'["dap"] = "copy"
    BY <1>0, <1>4 DEF C!OpenBackup, C!Goto, C!Quiet
  <2>2. config["dap"] # C!Torn
    BY <1>0, <2>1, InUpto DEF ConfigTyped
  <2> QED
    BY <2>1, <2>2 DEF DapOK, Kept, DapSettingsSurvive, C!DapSettingsSurvive
<1>5. CASE C!CopyToBackup("dap")
  <2>1. /\ UNCHANGED <<config, good, hurt, stamp>>
        /\ configPc["dap"] = "copy" /\ configPc'["dap"] = "open"
        /\ backup'["dap"][stamp["dap"]] = config["dap"]
    BY <1>0, <1>5 DEF C!CopyToBackup, C!Goto, C!Quiet, C!Put, ConfigTyped
  <2>2. config["dap"] # C!Torn /\ config["dap"] # C!Absent
    BY <1>0, <2>1, InUpto DEF ConfigTyped
  <2> QED
    BY <2>1, <2>2 DEF DapOK, Kept, DapSettingsSurvive, C!DapSettingsSurvive
<1>6. CASE C!OpenConfig("dap")
  <2>1. /\ UNCHANGED <<backup, good, hurt, stamp>>
        /\ configPc["dap"] = "open" /\ configPc'["dap"] = "fill"
        /\ config'["dap"] = C!Torn
    BY <1>0, <1>6 DEF C!OpenConfig, C!Goto, C!Quiet, C!Put
  <2>2. Kept(backup["dap"][stamp["dap"]]) /\ backup["dap"][stamp["dap"]] # C!Absent
    BY <2>1 DEF DapOK
  <2>3. DapSettingsSurvive'
    BY <1>0, <2>1, <2>2 DEF Kept, DapSettingsSurvive, C!DapSettingsSurvive
  <2> QED
    BY <2>1, <2>2, <2>3 DEF DapOK, Kept
<1>7. CASE C!FillConfig("dap")
  <2>1. /\ UNCHANGED <<backup, hurt, stamp>>
        /\ configPc'["dap"] = "answer" /\ config'["dap"] = calls /\ good'["dap"] = calls
    BY <1>0, <1>7 DEF C!FillConfig, C!Goto, C!Quiet, C!Put, C!Succeed
  <2>2. calls # C!Torn
    BY <1>0 DEF C!Torn
  <2> QED
    BY <2>1, <2>2 DEF DapOK, Kept, DapSettingsSurvive, C!DapSettingsSurvive
<1>8. CASE C!Restore
  <2>1. /\ UNCHANGED <<backup, good, hurt, stamp>>
        /\ \/ configPc["dap"] = "restore" /\ configPc'["dap"] = "put back" /\ config'["dap"] = C!Torn
           \/ /\ configPc["dap"] = "put back" /\ configPc'["dap"] = "idle"
              /\ config'["dap"] = backup["dap"][stamp["dap"]]
    BY <1>0, <1>8 DEF C!Restore, C!Goto, C!Quiet, C!Put
  <2>2. Kept(backup["dap"][stamp["dap"]]) /\ backup["dap"][stamp["dap"]] # C!Absent
    BY <2>1 DEF DapOK
  <2>3. backup["dap"][stamp["dap"]] # C!Torn
    BY <1>0, <2>2, InUpto DEF Kept
  <2>4. DapSettingsSurvive'
    BY <1>0, <2>1, <2>2 DEF Kept, DapSettingsSurvive, C!DapSettingsSurvive
  <2> QED
    BY <2>1, <2>2, <2>3, <2>4 DEF DapOK, Kept
<1>9. CASE C!Fail("dap") \/ C!Die("dap")
  <2>1. /\ UNCHANGED <<config, backup, good, stamp>>
        /\ configPc["dap"] # "idle"
        /\ \/ configPc'["dap"] = "idle"
           \/ configPc["dap"] \in {"open", "fill"} /\ configPc'["dap"] = "restore"
        /\ configPc["dap"] \in {"answer", "fill", "fill empty", "restore", "put back"} /\ configPc'["dap"] = "idle"
             => "dap" \in hurt'
    BY <1>0, <1>9 DEF C!Fail, C!Die, C!Fault
  <2>2. configPc["dap"] \in {"empty", "load", "stamp", "copy", "open"} => config["dap"] # C!Torn
    BY <1>0, InUpto DEF DapOK, ConfigTyped
  <2>3. configPc["dap"] \in C!Places
    BY <1>0 DEF ConfigTyped
  <2>4. DapSettingsSurvive'
    BY <2>1 DEF DapOK, DapSettingsSurvive, C!DapSettingsSurvive
  <2>5. configPc'["dap"] = "idle" /\ "dap" \notin hurt' => config'["dap"] # C!Torn
    BY <2>1, <2>2, <2>3 DEF C!Places
  <2> QED
    BY <2>1, <2>4, <2>5 DEF DapOK, Kept
<1>10. CASE C!Answer("dap")
  <2>1. /\ UNCHANGED <<config, backup, good, hurt, stamp>>
        /\ configPc["dap"] = "answer" /\ configPc'["dap"] = "idle"
    BY <1>0, <1>10 DEF C!Answer, C!Goto, C!Quiet
  <2>2. DapSettingsSurvive'
    BY <2>1 DEF DapOK, DapSettingsSurvive, C!DapSettingsSurvive
  <2> QED
    BY <2>1, <2>2 DEF DapOK, Kept
<1> QED
  BY <1>1, <1>2, <1>3, <1>4, <1>5, <1>6, <1>7, <1>8, <1>9, <1>10 DEF C!Steps

LEMMA DapStep ==
  ASSUME ServicesAssumption, ConfigTyped, ConfigTyped', DapOK, [C!Next]_configVars
  PROVE  DapOK'
<1>0. /\ {"pv", "dap"} \subseteq C!Files
      /\ DOMAIN config = C!Files /\ DOMAIN backup = C!Files /\ DOMAIN configPc = C!Files
      /\ DOMAIN stamp = C!Files /\ DOMAIN good = C!Files
  BY DEF ConfigTyped, C!Files
<1>1. CASE C!SetPvlist \/ C!Steps("pv") \/ C!Fail("pv") \/ C!Die("pv")
  <2>1. /\ config'["dap"] = config["dap"] /\ good'["dap"] = good["dap"]
        /\ configPc'["dap"] = configPc["dap"]
    <3>1. CASE C!SetPvlist \/ C!OpenBackup("pv") \/ C!CopyToBackup("pv")
      BY <1>0, <3>1 DEF C!SetPvlist, C!OpenBackup, C!CopyToBackup, C!Goto, C!Put, C!Succeed
    <3>2. CASE C!OpenConfig("pv") \/ C!FillConfig("pv") \/ C!Answer("pv")
      BY <1>0, <3>2 DEF C!OpenConfig, C!FillConfig, C!Answer, C!Goto, C!Put, C!Succeed
    <3>3. CASE C!Fail("pv") \/ C!Die("pv")
      BY <1>0, <3>3 DEF C!Fail, C!Die, C!Fault
    <3> QED
      BY <1>1, <3>1, <3>2, <3>3 DEF C!Steps
  <2>2. backup'["dap"] = backup["dap"] /\ stamp'["dap"] = stamp["dap"]
    BY <1>0, <1>1 DEF C!SetPvlist, C!Steps, C!OpenBackup, C!CopyToBackup, C!OpenConfig,
           C!FillConfig, C!Answer, C!Fail, C!Die, C!Fault
  <2>3. "dap" \in hurt' <=> "dap" \in hurt
    BY <1>1 DEF C!SetPvlist, C!Steps, C!OpenBackup, C!CopyToBackup, C!OpenConfig, C!FillConfig,
           C!Answer, C!Fail, C!Die, C!Fault, C!Quiet
  <2> QED
    BY <2>1, <2>2, <2>3, DapSameOK DEF DapSame
<1>2. CASE C!Tick \/ UNCHANGED configVars
  BY <1>2, DapSameOK DEF DapSame, C!Tick, configVars
<1> QED
  BY <1>1, <1>2, DapWorks DEF C!Next, C!Works, C!Files

LEMMA PvlistStep ==
  ASSUME ServicesAssumption, ConfigTyped, ConfigTyped', PvlistOK, [C!Next]_configVars
  PROVE  PvlistOK'
<1>0. /\ {"pv", "dap"} \subseteq C!Files
      /\ DOMAIN config = C!Files /\ DOMAIN backup = C!Files /\ DOMAIN configPc = C!Files
      /\ DOMAIN stamp = C!Files /\ DOMAIN good = C!Files
  BY DEF ConfigTyped, C!Files
<1>1. CASE backup'["pv"] = backup["pv"] /\ good'["pv"] = good["pv"]
  BY <1>1 DEF PvlistOK
<1>2. CASE C!OpenBackup("pv")
  <2>1. second \in C!Seconds /\ backup'["pv"][second] = C!Torn
    BY <1>2 DEF C!OpenBackup, ConfigTyped, C!Files
  <2> QED
    BY <2>1 DEF PvlistOK
<1>3. CASE C!CopyToBackup("pv")
  <2>1. /\ stamp["pv"] \in C!Seconds /\ backup'["pv"][stamp["pv"]] = config["pv"]
        /\ good'["pv"] = config["pv"]
    BY <1>3 DEF C!CopyToBackup, C!Put, C!Succeed, ConfigTyped, C!Files
  <2> QED
    BY <2>1 DEF PvlistOK
<1>4. CASE \/ C!OpenConfig("pv") \/ C!FillConfig("pv") \/ C!Answer("pv")
           \/ C!Fail("pv") \/ C!Die("pv") \/ C!SetPvlist
  BY <1>1, <1>4 DEF C!OpenConfig, C!FillConfig, C!Answer, C!Fail, C!Die, C!Fault, C!SetPvlist
<1>5. CASE \/ C!SetDapSettings \/ C!CreateEmpty \/ C!Compare \/ C!Restore \/ C!Steps("dap")
           \/ C!Fail("dap") \/ C!Die("dap")
  <2>1. backup'["pv"] = backup["pv"]
    BY <1>0, <1>5 DEF C!SetDapSettings, C!CreateEmpty, C!Compare, C!Restore, C!Steps,
           C!OpenBackup, C!CopyToBackup, C!OpenConfig, C!FillConfig, C!Answer, C!Fail, C!Die, C!Fault
  <2>2. good'["pv"] = good["pv"]
    <3>1. CASE C!SetDapSettings \/ C!CreateEmpty \/ C!Compare \/ C!Restore
      BY <1>0, <3>1 DEF C!SetDapSettings, C!CreateEmpty, C!Compare, C!Restore, C!Succeed
    <3>2. CASE C!Steps("dap") \/ C!Fail("dap") \/ C!Die("dap")
      BY <1>0, <3>2 DEF C!Steps, C!OpenBackup, C!CopyToBackup, C!OpenConfig, C!FillConfig,
             C!Answer, C!Fail, C!Die, C!Fault, C!Succeed
    <3> QED
      BY <1>5, <3>1, <3>2
  <2> QED
    BY <1>1, <2>1, <2>2
<1>6. CASE C!Tick \/ UNCHANGED configVars
  BY <1>1, <1>6 DEF C!Tick, configVars
<1> QED
  BY <1>2, <1>3, <1>4, <1>5, <1>6 DEF C!Next, C!Works, C!Steps, C!Files

-----------------------------------------------------------------------------
LEMMA CloneStep ==
  ASSUME ServicesAssumption, ScriptTyped, CloneOK, [S!Next]_scriptVars
  PROVE  CloneOK'
<1> USE DEF CleanWhenIdle, S!CleanWhenIdle, S!Dirty
<1>0. /\ script \in Scripts /\ rebasing \in BOOLEAN
      /\ head \in S!Versions /\ index \in S!Versions /\ DOMAIN tree = Scripts
  BY DEF ScriptTyped, S!TypeOK
<1>1. ASSUME NEW s \in Scripts, S!OthersPush(s) PROVE CloneOK'
  BY <1>1 DEF S!OthersPush, S!clone, S!current, CloneOK, OthersAsInHead
<1>2. ASSUME NEW s \in Scripts, S!Upload(s) PROVE CloneOK'
  BY <1>2 DEF S!Upload, S!Goto, S!clone, S!history, CloneOK
<1>3. CASE S!Refuse
  BY <1>3 DEF S!Refuse, S!Goto, S!clone, S!current, S!history, CloneOK
<1>4. CASE S!Pull \/ S!PullMerges
  <2>1. ~rebasing' /\ tree' = head' /\ index' = head' /\ scriptPc' = "open"
    BY <1>4 DEF S!Pull, S!PullMerges, S!MoveTo, S!Goto, S!Dirty
  <2> QED
    BY <2>1 DEF CloneOK
<1>5. CASE S!PullStops
  <2>1. broken' /\ scriptPc' = "idle"
    BY <1>5 DEF S!PullStops, S!Goto
  <2> QED
    BY <2>1 DEF CloneOK
<1>6. CASE S!WriteScript
  <2>1. /\ UNCHANGED <<index, head, rebasing, script>>
        /\ \/ scriptPc = "open" /\ scriptPc' = "fill"
           \/ scriptPc = "fill" /\ scriptPc' = "test"
        /\ \A s \in Scripts \ {script} : tree'[s] = tree[s]
    BY <1>0, <1>6 DEF S!WriteScript, S!Goto, S!current
  <2> QED
    BY <2>1 DEF CloneOK, OthersAsInHead
<1>7. CASE S!Passes \/ S!FailsTest
  <2>1. /\ UNCHANGED <<index, head, tree, rebasing, script>>
        /\ scriptPc = "test" /\ scriptPc' \in {"add", "clean"}
    BY <1>7 DEF S!Passes, S!FailsTest, S!Goto, S!clone, S!current
  <2> QED
    BY <2>1 DEF CloneOK, OthersAsInHead
<1>8. CASE S!Clean
  <2>1. /\ rebasing' = rebasing /\ index' = head' /\ tree' = head'
        /\ scriptPc = "clean" /\ scriptPc' = "idle"
    BY <1>8 DEF S!Clean, S!Goto
  <2> QED
    BY <2>1 DEF CloneOK
<1>9. CASE S!Add
  <2>1. /\ UNCHANGED <<head, tree, rebasing, script>>
        /\ scriptPc = "add" /\ scriptPc' = "commit"
        /\ index' = [index EXCEPT ![script] = tree[script]]
    BY <1>9 DEF S!Add, S!Goto, S!current
  <2>2. index = head /\ \A s \in Scripts \ {script} : tree[s] = head[s]
    BY <2>1 DEF CloneOK, OthersAsInHead
  <2>3. index' = tree'
    <3>1. index \in [Scripts -> 0..codes] /\ tree \in [Scripts -> S!Torn..codes]
      BY DEF ScriptTyped, S!TypeOK, S!Versions, S!Missing
    <3>2. \A s \in Scripts : index'[s] = tree[s]
      BY <2>1, <2>2, <3>1
    <3> QED
      BY <2>1, <3>1, <3>2
  <2> QED
    BY <2>1, <2>3 DEF CloneOK, OthersAsInHead
<1>10. CASE S!Commit
  <2>1. /\ UNCHANGED <<index, tree, rebasing, script, code>>
        /\ scriptPc = "commit" /\ scriptPc' = "push" /\ head' = index
    BY <1>10 DEF S!Commit, S!Goto, S!current
  <2> QED
    BY <2>1 DEF CloneOK, ScriptTyped
<1>11. CASE S!Push \/ S!PushRejected \/ S!PushUnanswered
  <2>1. /\ UNCHANGED <<index, head, tree, rebasing>> /\ scriptPc = "push" /\ scriptPc' = "idle"
    BY <1>11 DEF S!Push, S!PushRejected, S!PushUnanswered, S!Goto, S!clone
  <2> QED
    BY <2>1 DEF CloneOK
<1>12. CASE S!Fail
  <2>1. /\ UNCHANGED <<index, head, tree, rebasing, script>>
        /\ scriptPc' = (IF scriptPc \in {"open", "fill", "test"} THEN "clean" ELSE "idle")
        /\ broken' = (broken \/ scriptPc \in {"clean", "add", "commit"})
    BY <1>12 DEF S!Fail, S!Fault, S!clone, S!current
  <2>2. scriptPc \in {"update", "open", "fill", "test", "clean", "add", "commit", "push"}
    BY <1>12 DEF S!Fail, S!Fault, ScriptTyped, S!TypeOK
  <2> QED
    BY <2>1, <2>2 DEF CloneOK
<1>13. CASE S!Die
  <2>1. /\ UNCHANGED <<index, head, tree, rebasing>> /\ scriptPc' = "idle"
        /\ broken' = (broken \/ scriptPc \in {"fill", "test", "clean", "add", "commit"})
    BY <1>13 DEF S!Die, S!Fault, S!clone
  <2>2. scriptPc \in {"update", "open", "fill", "test", "clean", "add", "commit", "push"}
    BY <1>13 DEF S!Die, S!Fault, ScriptTyped, S!TypeOK
  <2> QED
    BY <2>1, <2>2 DEF CloneOK
<1>14. CASE UNCHANGED scriptVars
  BY <1>14 DEF scriptVars, CloneOK, OthersAsInHead
<1> QED
  BY <1>1, <1>2, <1>3, <1>4, <1>5, <1>6, <1>7, <1>8, <1>9, <1>10, <1>11, <1>12, <1>13, <1>14
     DEF S!Next, S!Works

LEMMA TestedStep ==
  ASSUME ServicesAssumption, ScriptTyped, CloneOK, TestedOK, [S!Next]_scriptVars
  PROVE  TestedOK'
<1>0. passed \subseteq passed' /\ merged \subseteq merged'
  BY DEF S!Next, S!Works, scriptVars, S!OthersPush, S!Upload, S!Refuse, S!Pull, S!PullMerges,
         S!PullStops,
         S!WriteScript, S!Passes, S!FailsTest, S!Clean, S!Add, S!Commit, S!Push, S!PushRejected,
         S!PushUnanswered, S!Fail, S!Die, S!Fault, S!history
<1>1. ASSUME NEW s \in Scripts, S!OthersPush(s) PROVE TestedOK'
  <2>1. /\ UNCHANGED <<head, index, scriptPc, code>> /\ codes + 1 \in passed'
        /\ origin' = [origin EXCEPT ![s] = codes + 1] /\ DOMAIN origin = Scripts
    BY <1>1 DEF S!OthersPush, S!clone, S!current, ScriptTyped, S!TypeOK, S!Versions
  <2> QED
    BY <1>0, <2>1 DEF TestedOK
<1>2. ASSUME NEW s \in Scripts, S!Upload(s) PROVE TestedOK'
  BY <1>2 DEF S!Upload, S!Goto, S!clone, S!history, TestedOK
<1>3. CASE S!Refuse \/ S!WriteScript \/ S!FailsTest \/ S!Fail \/ S!Die \/ S!PushRejected
  <2>1. /\ UNCHANGED <<origin, head, index, passed, merged>>
        /\ scriptPc' \in {"idle", "fill", "test", "clean"}
    BY <1>3 DEF S!Refuse, S!WriteScript, S!FailsTest, S!Fail, S!Die, S!Fault, S!Goto,
           S!clone, S!history, S!PushRejected
  <2> QED
    BY <2>1 DEF TestedOK
<1>4. CASE S!Pull
  <2>1. /\ origin' = origin /\ head' = S!Rebased(S!Missing) /\ index' = S!Rebased(S!Missing)
        /\ scriptPc' = "open" /\ passed' = passed /\ merged' = merged
    BY <1>4 DEF S!Pull, S!MoveTo, S!Goto, S!history
  <2>2. \A s \in Scripts : S!Rebased(S!Missing)[s] \in {head[s], origin[s], S!Missing}
    BY DEF S!Rebased
  <2> QED
    BY <2>1, <2>2 DEF TestedOK
<1>11. CASE S!PullMerges
  <2>1. /\ origin' = origin /\ head' = S!Rebased(codes + 1) /\ index' = S!Rebased(codes + 1)
        /\ scriptPc' = "open" /\ passed' = passed /\ codes + 1 \in merged'
    BY <1>11 DEF S!PullMerges, S!MoveTo, S!Goto
  <2>2. \A s \in Scripts : S!Rebased(codes + 1)[s] \in {head[s], origin[s], codes + 1}
    BY DEF S!Rebased
  <2> QED
    BY <1>0, <2>1, <2>2 DEF TestedOK
<1>12. CASE S!PullStops
  <2>1. /\ UNCHANGED <<origin, head, passed, merged>> /\ index' = origin /\ scriptPc' = "idle"
    BY <1>12 DEF S!PullStops, S!Goto
  <2> QED
    BY <2>1 DEF TestedOK
<1>5. CASE S!Passes
  <2>1. UNCHANGED <<origin, head, index, code>> /\ code \in passed'
    BY <1>5 DEF S!Passes, S!clone, S!current
  <2> QED
    BY <1>0, <2>1 DEF TestedOK
<1>6. CASE S!Clean
  <2>1. UNCHANGED <<origin, head, passed, merged>> /\ index' = head /\ scriptPc' = "idle"
    BY <1>6 DEF S!Clean, S!Goto, S!history
  <2> QED
    BY <2>1 DEF TestedOK
<1>7. CASE S!Add
  <2>1. /\ UNCHANGED <<origin, head, passed, merged, code>> /\ scriptPc = "add"
        /\ index' = [index EXCEPT ![script] = tree[script]] /\ tree[script] = code
        /\ DOMAIN index = Scripts
    BY <1>7 DEF S!Add, S!Goto, S!current, S!history, ScriptTyped, S!TypeOK, S!Versions
  <2> QED
    BY <2>1 DEF TestedOK
<1>8. CASE S!Commit
  <2>1. UNCHANGED <<origin, index, passed, merged, code>> /\ head' = index /\ scriptPc = "commit"
    BY <1>8 DEF S!Commit, S!Goto, S!current, S!history
  <2> QED
    BY <2>1 DEF TestedOK
<1>9. CASE S!Push \/ S!PushUnanswered
  <2>1. UNCHANGED <<head, index, passed, merged>> /\ origin' = head /\ scriptPc' = "idle"
    BY <1>9 DEF S!Push, S!PushUnanswered, S!Goto, S!clone, S!history
  <2> QED
    BY <2>1 DEF TestedOK
<1>10. CASE UNCHANGED scriptVars
  BY <1>10 DEF scriptVars, TestedOK
<1> QED
  BY <1>1, <1>2, <1>3, <1>4, <1>5, <1>6, <1>7, <1>8, <1>9, <1>10, <1>11, <1>12 DEF S!Next, S!Works

LEMMA KeptStep ==
  ASSUME ServicesAssumption, ScriptTyped, ScriptTyped', CloneOK, KeptOK, [S!Next]_scriptVars
  PROVE  KeptOK'
<1> DEFINE Before == {"update", "open", "fill", "test", "clean", "add", "commit"}
<1>0. /\ script \in Scripts /\ code \in Nat /\ codes \in Nat /\ code <= codes
      /\ \A v \in {origin, base, head, confirmed} :
           DOMAIN v = Scripts /\ \A s \in Scripts : v[s] \in Nat /\ v[s] <= codes
  BY DEF ScriptTyped, S!TypeOK, S!Versions, S!Missing
<1>1. ASSUME NEW s \in Scripts, S!OthersPush(s) PROVE KeptOK'
  <2>1. /\ UNCHANGED <<base, head, scriptPc, script, code, confirmed>>
        /\ origin' = [origin EXCEPT ![s] = codes + 1]
    BY <1>1 DEF S!OthersPush, S!clone, S!current
  <2>2. \A t \in Scripts : origin'[t] >= origin[t] /\ origin'[t] \in {origin[t], codes + 1}
    BY <1>0, <2>1
  <2>3. code # codes + 1
    BY <1>0
  <2>4. scriptPc \in Before => \A t \in Scripts : code \notin {origin'[t], base[t], head[t]}
    BY <2>2, <2>3 DEF KeptOK
  <2>5. \A t \in Scripts : head[t] = base[t] => origin'[t] >= confirmed[t]
    <3>1. \A t \in Scripts : head[t] = base[t] => origin[t] >= confirmed[t]
      BY DEF KeptOK
    <3>2. \A t \in Scripts : codes + 1 >= confirmed[t]
      BY <1>0
    <3> QED
      BY <2>2, <3>1, <3>2
  <2> QED
    BY <2>1, <2>4, <2>5 DEF KeptOK
<1>2. ASSUME NEW s \in Scripts, S!Upload(s) PROVE KeptOK'
  <2>1. /\ UNCHANGED <<origin, base, head, confirmed>>
        /\ scriptPc' = "update" /\ script' = s /\ code' = codes + 1
    BY <1>2 DEF S!Upload, S!Goto, S!clone, S!history
  <2>2. \A t \in Scripts : code' \notin {origin[t], base[t], head[t]} /\ code' >= confirmed[t]
    BY <1>0, <2>1
  <2> QED
    BY <2>1, <2>2 DEF KeptOK
<1>3. ASSUME UNCHANGED <<origin, base, head, script, code, confirmed>>,
             scriptPc' # "idle" => scriptPc # "idle",
             scriptPc' \in Before => scriptPc \in Before,
             scriptPc' = "push" => scriptPc = "push"
      PROVE  KeptOK'
  BY <1>3 DEF KeptOK
<1>4. CASE S!Refuse \/ S!PullStops \/ S!WriteScript
  BY <1>3, <1>4 DEF S!Refuse, S!PullStops, S!WriteScript, S!Goto, S!clone, S!current, S!history
<1>5. CASE S!Passes \/ S!FailsTest \/ S!Clean \/ S!Add
  BY <1>3, <1>5 DEF S!Passes, S!FailsTest, S!Clean, S!Add, S!Goto, S!clone, S!current, S!history
<1>6. CASE S!Fail \/ S!Die
  BY <1>3, <1>6 DEF S!Fail, S!Die, S!Fault, S!clone, S!current
<1>7. CASE UNCHANGED scriptVars
  BY <1>3, <1>7 DEF scriptVars
<1>8. CASE S!Pull \/ S!PullMerges
  <2>1. /\ UNCHANGED <<origin, script, code, confirmed>> /\ base' = origin
        /\ scriptPc = "update" /\ scriptPc' = "open"
        /\ \A s \in Scripts : \/ head'[s] = (IF head[s] # base[s] THEN head[s] ELSE origin[s])
                             \/ head'[s] = codes + 1
    <3>1. CASE S!Pull
      BY <3>1 DEF S!Pull, S!MoveTo, S!Goto, S!Both, S!Rebased, S!Ahead, S!current, S!history
    <3>2. CASE S!PullMerges
      BY <3>2 DEF S!PullMerges, S!MoveTo, S!Goto, S!Rebased, S!Ahead, S!current
    <3> QED
      BY <1>8, <3>1, <3>2
  <2>2. \A s \in Scripts : head'[s] \in {head[s], origin[s], codes + 1}
    BY <2>1
  <2>3. code # codes + 1 /\ \A s \in Scripts : code \notin {origin[s], base[s], head[s]}
    BY <1>0, <2>1 DEF KeptOK
  <2>4. ASSUME NEW s \in Scripts
        PROVE  IF head'[s] = origin[s] THEN origin[s] >= confirmed[s] ELSE head'[s] >= confirmed[s]
    <3>1. codes + 1 >= confirmed[s]
      BY <1>0
    <3> QED
      BY <2>1, <3>1 DEF KeptOK
  <2>5. \A s \in Scripts : code \notin {origin[s], head'[s]}
    BY <2>2, <2>3
  <2>6. code >= confirmed[script]
    BY <2>1 DEF KeptOK
  <2> QED
    BY <2>1, <2>4, <2>5, <2>6 DEF KeptOK
<1>9. CASE S!Commit
  <2>1. /\ UNCHANGED <<origin, base, script, code, confirmed>> /\ head' = index
        /\ scriptPc = "commit" /\ scriptPc' = "push"
    BY <1>9 DEF S!Commit, S!Goto, S!current, S!history
  <2>2. index[script] = code /\ \A s \in Scripts \ {script} : index[s] = head[s]
    BY <2>1 DEF CloneOK, OthersAsInHead, ScriptTyped
  <2>3. code # base[script] /\ code >= confirmed[script]
    BY <1>0, <2>1 DEF KeptOK
  <2>4. ASSUME NEW s \in Scripts
        PROVE  IF head'[s] = base[s] THEN origin[s] >= confirmed[s] ELSE head'[s] >= confirmed[s]
    <3>1. CASE s = script
      BY <2>1, <2>2, <2>3, <3>1
    <3>2. CASE s # script
      BY <2>1, <2>2, <3>2 DEF KeptOK
    <3> QED
      BY <3>1, <3>2
  <2> QED
    BY <2>1, <2>3, <2>4 DEF KeptOK
<1>10. CASE S!Push
  <2>1. /\ origin' = head /\ base' = head /\ head' = head /\ scriptPc = "push" /\ scriptPc' = "idle"
        /\ origin = base /\ confirmed' = [confirmed EXCEPT ![script] = code]
    BY <1>10 DEF S!Push, S!Goto, S!Confirm
  <2>2. head[script] = code
    BY <2>1 DEF CloneOK
  <2>3. ASSUME NEW s \in Scripts PROVE head[s] >= confirmed'[s]
    <3>1. CASE s = script
      BY <1>0, <2>1, <2>2, <3>1
    <3>2. CASE s # script
      <4>1. confirmed'[s] = confirmed[s]
        BY <1>0, <2>1, <3>2
      <4> QED
        BY <2>1, <4>1 DEF KeptOK
    <3> QED
      BY <3>1, <3>2
  <2> QED
    BY <2>1, <2>3 DEF KeptOK
<1>11. CASE S!PushRejected
  <2>1. /\ UNCHANGED <<origin, base, head>> /\ scriptPc = "push" /\ scriptPc' = "idle"
        /\ confirmed' = [confirmed EXCEPT ![script] = code]
    BY <1>11 DEF S!PushRejected, S!Goto, S!Confirm, S!clone
  <2>2. head[script] = code /\ code # base[script]
    BY <2>1 DEF CloneOK, KeptOK
  <2>3. ASSUME NEW s \in Scripts
        PROVE  IF head[s] = base[s] THEN origin[s] >= confirmed'[s] ELSE head[s] >= confirmed'[s]
    <3>1. CASE s = script
      BY <1>0, <2>1, <2>2, <3>1
    <3>2. CASE s # script
      <4>1. confirmed'[s] = confirmed[s]
        BY <1>0, <2>1, <3>2
      <4> QED
        BY <4>1 DEF KeptOK
    <3> QED
      BY <3>1, <3>2
  <2> QED
    BY <2>1, <2>3 DEF KeptOK
<1>12. CASE S!PushUnanswered
  <2>1. /\ UNCHANGED <<head, confirmed>> /\ scriptPc = "push" /\ scriptPc' = "idle"
        /\ origin = base /\ origin' = head /\ base' = head
    BY <1>12 DEF S!PushUnanswered, S!Goto, S!history
  <2> QED
    BY <2>1 DEF KeptOK
<1> QED
  BY <1>1, <1>2, <1>4, <1>5, <1>6, <1>7, <1>8, <1>9, <1>10, <1>11, <1>12 DEF S!Next, S!Works

LEMMA CopiedStep ==
  ASSUME ServicesAssumption, U!TypeOK, CopiedOK, [U!Next]_copyVars
  PROVE  CopiedOK'
<1> USE DEF LastReportedIsThere, U!LastReportedIsThere
<1>0. /\ files \subseteq Sources /\ Sources \subseteq Nat /\ DOMAIN aux = U!Names
      /\ \A f \in Sources : NameOf[f] \in U!Names
      /\ copied \subseteq files /\ todo \subseteq files
  BY DEF U!TypeOK, U!Names, ServicesAssumption
<1>1. ASSUME NEW fs \in SUBSET Sources, U!CopyUserFiles(fs) PROVE CopiedOK'
  BY <1>1 DEF U!CopyUserFiles, CopiedOK
<1>2. CASE U!Die
  BY <1>2 DEF U!Die, CopiedOK
<1>3. CASE U!Answer \/ U!Close \/ UNCHANGED copyVars
  BY <1>3 DEF U!Answer, U!Close, copyVars, CopiedOK
<1>4. ASSUME NEW f \in Sources, U!OpenCopy(f) PROVE CopiedOK'
  <2>1. UNCHANGED <<files, todo, copied>> /\ aux' = [aux EXCEPT ![NameOf[f]] = U!Torn] /\ f \in todo
    BY <1>4, MinIsIn DEF U!OpenCopy, U!At, U!Change
  <2>2. \A c \in copied : c < f
    BY <2>1 DEF CopiedOK
  <2>3. ASSUME NEW c \in copied, NameOf[c] # NameOf[f] PROVE aux'[NameOf[c]] = aux[NameOf[c]]
    BY <1>0, <2>1, <2>3
  <2>4. ASSUME NEW c \in copied, \A g \in files : g > c => NameOf[g] # NameOf[c]
        PROVE  aux'[NameOf[c]] = c
    <3>1. f > c /\ f \in files /\ NameOf[f] # NameOf[c]
      BY <1>0, <2>1, <2>2, <2>4
    <3> QED
      BY <2>3, <2>4, <3>1 DEF CopiedOK
  <2> QED
    BY <2>1, <2>4 DEF CopiedOK
<1>5. ASSUME NEW f \in Sources, U!FillCopy(f) PROVE CopiedOK'
  <2>1. /\ files' = files /\ todo' = todo \ {f} /\ copied' = copied \cup {f}
        /\ aux' = [aux EXCEPT ![NameOf[f]] = f]
        /\ f \in todo /\ \A t \in todo : f =< t
    BY <1>5, MinIsIn DEF U!FillCopy, U!At, U!Change
  <2>2. \A c \in copied : c < f
    BY <2>1 DEF CopiedOK
  <2>3. \A c \in copied', t \in todo' : c < t
    <3>1. \A t \in todo' : f < t
      BY <1>0, <2>1
    <3> QED
      BY <2>1, <3>1 DEF CopiedOK
  <2>4. ASSUME NEW c \in copied, NameOf[c] # NameOf[f] PROVE aux'[NameOf[c]] = aux[NameOf[c]]
    BY <1>0, <2>1, <2>4
  <2>5. ASSUME NEW c \in copied, \A g \in files : g > c => NameOf[g] # NameOf[c]
        PROVE  aux'[NameOf[c]] = c
    <3>1. f > c /\ f \in files /\ NameOf[f] # NameOf[c]
      BY <1>0, <2>1, <2>2, <2>5
    <3> QED
      BY <2>4, <2>5, <3>1 DEF CopiedOK
  <2>6. aux'[NameOf[f]] = f
    BY <1>0, <2>1
  <2> QED
    BY <2>1, <2>3, <2>5, <2>6 DEF CopiedOK
<1>6. ASSUME NEW f \in Sources, U!PassOver(f) PROVE CopiedOK'
  BY <1>6 DEF U!PassOver, U!At, CopiedOK
<1> QED
  BY <1>1, <1>2, <1>3, <1>4, <1>5, <1>6 DEF U!Next, U!Works

-----------------------------------------------------------------------------
LEMMA OneStep ==
  ASSUME ConfigTyped, OneRequest, [Next]_vars
  PROVE  OneRequest'
<1> USE DEF OneRequest
<1>0. "dap" \in C!Files /\ DOMAIN configPc = C!Files
  BY DEF ConfigTyped, C!Files
<1>1. CASE Call
  <2>1. CASE C!SetPvlist /\ UNCHANGED <<scriptVars, copyVars>>
    BY <1>0, <2>1 DEF C!SetPvlist, C!Goto, scriptVars, copyVars
  <2>2. CASE C!SetDapSettings /\ SlowBrokerIsIdle /\ UNCHANGED <<scriptVars, copyVars>>
    BY <2>2 DEF SlowBrokerIsIdle, scriptVars, copyVars
  <2>3. CASE SlowBrokerIsIdle /\ UNCHANGED <<configVars, copyVars>>
    BY <2>3 DEF SlowBrokerIsIdle, configVars, copyVars
  <2>4. CASE SlowBrokerIsIdle /\ UNCHANGED <<configVars, scriptVars>>
    BY <2>4 DEF SlowBrokerIsIdle, configVars, scriptVars
  <2> QED
    BY <1>1, <2>1, <2>2, <2>3, <2>4 DEF Call
<1>2. CASE C!Works /\ UNCHANGED <<scriptVars, copyVars>>
  <2>1. configPc'["dap"] # "idle" => configPc["dap"] # "idle"
    BY <1>0, <1>2 DEF C!Works, C!CreateEmpty, C!Compare, C!Restore, C!Steps, C!OpenBackup,
           C!CopyToBackup, C!OpenConfig, C!FillConfig, C!Answer, C!Fail, C!Die, C!Fault, C!Goto
  <2> QED
    BY <1>2, <2>1 DEF scriptVars, copyVars
<1>3. CASE S!Works /\ UNCHANGED <<configVars, copyVars>>
  <2>1. scriptPc # "idle"
    BY <1>3 DEF S!Works, S!Refuse, S!Pull, S!PullMerges, S!PullStops, S!WriteScript, S!Passes, S!FailsTest,
           S!Clean, S!Add, S!Commit, S!Push, S!PushRejected, S!PushUnanswered, S!Fail, S!Die,
           S!Fault, S!Goto
  <2> QED
    BY <1>3, <2>1 DEF configVars, copyVars
<1>4. CASE U!Works /\ UNCHANGED <<configVars, scriptVars>>
  <2>1. copyPc # "idle"
    BY <1>4 DEF U!Works, U!OpenCopy, U!FillCopy, U!PassOver, U!At, U!Answer, U!Die
  <2> QED
    BY <1>4, <2>1 DEF configVars, scriptVars
<1>5. CASE Elsewhere
  <2>1. CASE C!Tick /\ UNCHANGED <<scriptVars, copyVars>>
    BY <2>1 DEF C!Tick, scriptVars, copyVars
  <2>2. ASSUME NEW s \in Scripts, S!OthersPush(s), UNCHANGED <<configVars, copyVars>>
        PROVE  OneRequest'
    BY <2>2 DEF S!OthersPush, configVars, copyVars
  <2>3. CASE U!Close /\ UNCHANGED <<configVars, scriptVars>>
    BY <2>3 DEF U!Close, configVars, scriptVars
  <2> QED
    BY <1>5, <2>1, <2>2, <2>3 DEF Elsewhere
<1>6. CASE UNCHANGED vars
  BY <1>6 DEF vars, configVars, scriptVars, copyVars
<1> QED
  BY <1>1, <1>2, <1>3, <1>4, <1>5, <1>6 DEF Next, Serve

LEMMA InitOK == Init => IInv
<1> SUFFICES ASSUME Init PROVE IInv
  OBVIOUS
<1>0. MaxSecond \in Nat /\ MaxFaults \in Nat /\ MaxPushes \in Nat
  BY ServicesAssumption DEF ServicesAssumption
<1>1. ConfigTyped
  BY <1>0 DEF Init, C!Init, ConfigTyped, Upto, C!Files, C!Seconds, C!Places, C!Absent, C!First, C!Torn
<1>2. DapOK /\ PvlistOK
  <2>1. configPc["dap"] = "idle" /\ good = config /\ config["dap"] \in {C!Absent, C!First}
        /\ config["pv"] = C!First
    BY DEF Init, C!Init, C!Files
  <2> QED
    BY <2>1, InUpto, NotTorn DEF DapOK, PvlistOK, Kept
<1>3. ScriptTyped
  <2>1. codes = 0 /\ S!Nothing \in S!Versions /\ S!Nothing \in [Scripts -> S!Torn..codes]
    BY DEF Init, S!Init, S!Nothing, S!Missing, S!Torn, S!Versions
  <2>2. {origin, base, head, index, confirmed} \subseteq S!Versions /\ tree \in [Scripts -> S!Torn..codes]
    BY <2>1 DEF Init, S!Init
  <2>3. /\ rebasing \in BOOLEAN /\ broken \in BOOLEAN /\ scriptPc = "idle" /\ script \in Scripts
        /\ code = 0 /\ passed = {} /\ merged = {} /\ pushes = 0 /\ scriptFaults = 0
    BY DEF Init, S!Init
  <2> QED
    BY <1>0, <2>1, <2>2, <2>3 DEF ScriptTyped, S!TypeOK
<1>4. CloneOK
  BY DEF Init, S!Init, CloneOK, CleanWhenIdle, S!CleanWhenIdle, S!Dirty
<1>5. TestedOK /\ KeptOK
  BY DEF Init, S!Init, S!Nothing, S!Missing, TestedOK, KeptOK
<1>6. U!TypeOK
  <2>1. aux \in [U!Names -> {U!Absent, U!Torn} \cup Sources]
    BY DEF Init, U!Init
  <2>2. /\ closed \in BOOLEAN /\ copyPc = "idle" /\ files = {} /\ todo = {} /\ copied = {}
        /\ copies = 0 /\ copyFaults = 0
    BY DEF Init, U!Init
  <2> QED
    BY <1>0, <2>1, <2>2 DEF U!TypeOK
<1>7. CopiedOK
  BY DEF Init, U!Init, CopiedOK, LastReportedIsThere, U!LastReportedIsThere
<1>8. OneRequest
  BY DEF Init, C!Init, S!Init, U!Init, OneRequest, C!Files
<1> QED
  BY <1>1, <1>2, <1>3, <1>4, <1>5, <1>6, <1>7, <1>8 DEF IInv

LEMMA InvStep == IInv /\ [Next]_vars => IInv'
<1> SUFFICES ASSUME IInv, [Next]_vars PROVE IInv'
  OBVIOUS
<1>1. ConfigTyped' /\ ScriptTyped' /\ U!TypeOK'
  BY ServicesAssumption, Steps, ConfigStep, ScriptTypes, CopyTypes DEF IInv
<1>2. DapOK' /\ PvlistOK'
  BY <1>1, ServicesAssumption, Steps, DapStep, PvlistStep DEF IInv
<1>3. CloneOK' /\ TestedOK' /\ KeptOK'
  BY <1>1, ServicesAssumption, Steps, CloneStep, TestedStep, KeptStep DEF IInv
<1>4. CopiedOK' /\ OneRequest'
  BY <1>1, ServicesAssumption, Steps, CopiedStep, OneStep DEF IInv
<1> QED
  BY <1>1, <1>2, <1>3, <1>4 DEF IInv

LEMMA Inductive == Spec => []IInv
BY InitOK, InvStep, PTL DEF Spec

(* Every state is of its types, and the slow broker serves one request at a *)
(* time.                                                                    *)
THEOREM TypeCorrect == Spec => []TypeOK
<1>1. IInv => TypeOK
  BY ConfigTypesAreTypes DEF IInv, TypeOK, ScriptTyped, OneRequest
<1> QED
  BY <1>1, Inductive, PTL

(* Confirmed analysis settings that are torn are in a copy, wherever calls  *)
(* failed or died and whichever copies have one name (set_dap_settings).    *)
THEOREM SettingsSurvive == Spec => []DapSettingsSurvive
<1>1. IInv => DapSettingsSurvive
  BY DEF IInv, DapOK
<1> QED
  BY <1>1, Inductive, PTL

(* A call that fails leaves the settings it found, unless undoing it failed *)
(* or the process died (set_dap_settings).                                  *)
THEOREM FailureUndone == Spec => []DapFailureUndone
<1>1. IInv => DapFailureUndone
  BY DEF IInv, DapOK, Kept, DapFailureUndone, C!DapFailureUndone
<1> QED
  BY <1>1, Inductive, PTL

(* A confirmed PV list that is torn is in a copy, unless the making of one  *)
(* broke off (set_pvlist).                                                  *)
THEOREM Pvlist == Spec => []PvlistSurvives
<1>1. IInv => PvlistSurvives
  BY DEF IInv, PvlistOK, PvlistSurvives, C!PvlistSurvives
<1> QED
  BY <1>1, Inductive, PTL

(* Code that is published was loaded and run, or git made it of two         *)
(* commits' when it put one on top of the other (upload_custom_dap_script,  *)
(* GitRepo.update).                                                         *)
THEOREM Published == Spec => []PublishedIsTested
<1>1. IInv => PublishedIsTested
  BY DEF IInv, TestedOK, PublishedIsTested, S!PublishedIsTested
<1> QED
  BY <1>1, Inductive, PTL

(* A confirmed script is in the repository or waits in the clone, whatever  *)
(* is uploaded, fails or is pushed by others afterwards (GitRepo).          *)
THEOREM ScriptsKept == Spec => []ConfirmedIsKept
<1>1. IInv => ConfirmedIsKept
  BY DEF IInv, KeptOK, ConfirmedIsKept, S!ConfirmedIsKept
<1> QED
  BY <1>1, Inductive, PTL

(* The clone is only refused after a death, a failed cleaning or a conflict *)
(* (GitRepo.update).                                                        *)
THEOREM CloneClean == Spec => []CleanWhenIdle
<1>1. IInv => CleanWhenIdle
  BY DEF IInv, CloneOK
<1> QED
  BY <1>1, Inductive, PTL

(* Of the files reported as copied that have one name the last is there     *)
(* (copy_user_files).                                                       *)
THEOREM LastReported == Spec => []LastReportedIsThere
<1>1. IInv => LastReportedIsThere
  BY DEF IInv, CopiedOK
<1> QED
  BY <1>1, Inductive, PTL

-----------------------------------------------------------------------------
(* The copying that a closing of the pgroup finds under way goes on, but    *)
(* only to its end: no other begins, and no file is written but those it    *)
(* has not come to.                                                         *)
OnlyFinishesCopying ==
  [][closed =>
       /\ closed' /\ copies' = copies /\ todo' \subseteq todo
       /\ \A n \in U!Names : aux'[n] # aux[n] =>
            \E f \in todo : NameOf[f] = n /\ aux'[n] \in {U!Torn, f}]_vars

(* What copy_user_files of the slow broker still does after                 *)
(* close_pgroup_writing of the broker, which it looks for once.             *)
THEOREM AfterClosing == Spec => OnlyFinishesCopying
<1>1. IInv /\ [Next]_vars =>
        [closed =>
           /\ closed' /\ copies' = copies /\ todo' \subseteq todo
           /\ \A n \in U!Names : aux'[n] # aux[n] =>
                \E f \in todo : NameOf[f] = n /\ aux'[n] \in {U!Torn, f}]_vars
  <2> SUFFICES ASSUME IInv, [Next]_vars, closed
               PROVE  /\ closed' /\ copies' = copies /\ todo' \subseteq todo
                      /\ \A n \in U!Names : aux'[n] # aux[n] =>
                           \E f \in todo : NameOf[f] = n /\ aux'[n] \in {U!Torn, f}
    OBVIOUS
  <2>0. U!TypeOK /\ [U!Next]_copyVars
    BY Steps DEF IInv
  <2>1. ASSUME NEW f \in Sources, U!OpenCopy(f) \/ U!FillCopy(f)
        PROVE  /\ UNCHANGED <<closed, copies>> /\ todo' \subseteq todo /\ f \in todo
               /\ \A n \in U!Names : aux'[n] = aux[n] \/ (NameOf[f] = n /\ aux'[n] \in {U!Torn, f})
    <3>1. f \in todo
      BY <2>0, <2>1, ServicesAssumption, MinIsIn DEF U!OpenCopy, U!FillCopy, U!At
    <3>2. UNCHANGED <<closed, copies>> /\ todo' \subseteq todo
      BY <2>1 DEF U!OpenCopy, U!FillCopy, U!At
    <3>3. \E content \in {U!Torn, f} : aux' = [aux EXCEPT ![NameOf[f]] = content]
      BY <2>1 DEF U!OpenCopy, U!FillCopy, U!Change
    <3>4. DOMAIN aux = U!Names
      BY <2>0 DEF U!TypeOK
    <3> QED
      BY <3>1, <3>2, <3>3, <3>4
  <2>2. CASE UNCHANGED <<closed, aux, copies>> /\ todo' \subseteq todo
    BY <2>2
  <2>3. \/ \E f \in Sources : U!OpenCopy(f) \/ U!FillCopy(f)
        \/ UNCHANGED <<closed, aux, copies>> /\ todo' \subseteq todo
    BY <2>0 DEF copyVars, U!Next, U!Works, U!Close, U!CopyUserFiles, U!PassOver, U!At, U!Answer,
                U!Die
  <2> QED
    BY <2>1, <2>2, <2>3
<1> QED
  BY <1>1, Inductive, PTL DEF Spec, OnlyFinishesCopying
=============================================================================
