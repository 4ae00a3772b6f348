------------------------------ MODULE Services -------------------------------
(***************************************************************************)
(* The requests of the two broker processes that only change files: those  *)
(* of ConfigFiles, DapScripts and UserFiles.  The broker serves set_pvlist *)
(* and close_pgroup_writing, the slow broker set_dap_settings,             *)
(* upload_custom_dap_script and copy_user_files; each serves one request   *)
(* at a time, and whatever dies is the one it serves.                      *)
(***************************************************************************)
EXTENDS Integers, FiniteSets

CONSTANTS
  Scripts, Sources, NameOf, MaxSecond, MaxPushes, MaxFaults,
  MaxCalls  \* bound: calls of all kinds, but close_pgroup_writing

ASSUME ServicesAssumption ==
  /\ Sources \subseteq Nat \ {0}
  /\ {MaxSecond, MaxPushes, MaxFaults, MaxCalls} \subseteq Nat

VARIABLES
  config, backup, configPc, stamp, good, hurt, second, calls, configFaults,
  origin, base, head, index, tree, rebasing, scriptPc, script, code, passed, merged,
  confirmed, broken, codes, pushes, scriptFaults,
  closed, aux, copyPc, files, todo, copied, copies, copyFaults

configVars == <<config, backup, configPc, stamp, good, hurt, second, calls, configFaults>>
scriptVars == <<origin, base, head, index, tree, rebasing, scriptPc, script, code,
                passed, merged, confirmed, broken, codes, pushes, scriptFaults>>
copyVars   == <<closed, aux, copyPc, files, todo, copied, copies, copyFaults>>
vars == <<configVars, scriptVars, copyVars>>

C == INSTANCE ConfigFiles WITH pc <- configPc, faults <- configFaults
S == INSTANCE DapScripts WITH pc <- scriptPc, faults <- scriptFaults
U == INSTANCE UserFiles WITH pc <- copyPc, faults <- copyFaults

Init == C!Init /\ S!Init /\ U!Init

SlowBrokerIsIdle == configPc["dap"] = "idle" /\ scriptPc = "idle" /\ copyPc = "idle"

MayCall == calls + (codes - pushes - Cardinality(merged)) + copies < MaxCalls

(* The bounds of the three hold for them together.                          *)
Bounded == configFaults' + scriptFaults' + copyFaults' <= MaxFaults

Call ==
  /\ MayCall
  /\ \/ C!SetPvlist /\ UNCHANGED <<scriptVars, copyVars>>
     \/ /\ SlowBrokerIsIdle
        /\ \/ C!SetDapSettings /\ UNCHANGED <<scriptVars, copyVars>>
           \/ \E s \in Scripts : S!Upload(s) /\ UNCHANGED <<configVars, copyVars>>
           \/ \E fs \in SUBSET Sources :
                U!CopyUserFiles(fs) /\ UNCHANGED <<configVars, scriptVars>>

Serve ==
  /\ \/ C!Works /\ UNCHANGED <<scriptVars, copyVars>>
     \/ S!Works /\ UNCHANGED <<configVars, copyVars>>
     \/ U!Works /\ UNCHANGED <<configVars, scriptVars>>
  /\ Bounded

Elsewhere ==
  \/ C!Tick /\ UNCHANGED <<scriptVars, copyVars>>
  \/ \E s \in Scripts : S!OthersPush(s) /\ UNCHANGED <<configVars, copyVars>>
  \/ U!Close /\ UNCHANGED <<configVars, scriptVars>>

Next == Call \/ Serve \/ Elsewhere

Spec == Init /\ [][Next]_vars

-----------------------------------------------------------------------------
(* The types of the three, and that the slow broker serves one request.     *)
TypeOK ==
  /\ C!TypeOK
  /\ S!TypeOK
  /\ U!TypeOK
  /\ configPc["dap"] # "idle" => scriptPc = "idle" /\ copyPc = "idle"
  /\ scriptPc # "idle" => copyPc = "idle"

(* What ConfigFiles, DapScripts and UserFiles say of their files, with the  *)
(* other requests served in between.                                        *)
DapSettingsSurvive  == C!DapSettingsSurvive
DapFailureUndone    == C!DapFailureUndone
PvlistSurvives      == C!PvlistSurvives
PublishedIsTested   == S!PublishedIsTested
ConfirmedIsKept     == S!ConfirmedIsKept
CleanWhenIdle       == S!CleanWhenIdle
LastReportedIsThere == U!LastReportedIsThere

=============================================================================
