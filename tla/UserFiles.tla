------------------------------ MODULE UserFiles ------------------------------
(***************************************************************************)
(* copy_user_files of the slow broker, which copies files that users name  *)
(* to the aux directory of a run, against close_pgroup_writing of the      *)
(* broker, another process: the copying looks for CLOSED once, at first.   *)
(* The aux directory names a file after the last part of its path.         *)
(***************************************************************************)
EXTENDS Integers, FiniteSetsExt

CONSTANTS
  Sources,  \* the files users may name, numbered as their paths are sorted
  NameOf,   \* the last part of the path of each
  MaxFaults \* bound: processes that die

Absent == 0
Torn   == 0 - 1
Names  == {NameOf[f] : f \in Sources}

VARIABLES
  closed,  \* the pgroup has a file CLOSED
  aux,     \* the directory: the file each name in it is a copy of
  pc,      \* where the call is
  files,   \* what it was asked to copy
  todo,    \* what it has not come to
  copied,  \* destination_files; the others it came to are in error_files
  copies,  \* how many calls were made so far
  faults   \* how many of them died

vars == <<closed, aux, pc, files, todo, copied, copies, faults>>

TypeOK ==
  /\ closed \in BOOLEAN
  /\ aux \in [Names -> {Absent, Torn} \cup Sources]
  /\ pc \in {"idle", "copying", "fill"}
  /\ files \subseteq Sources
  /\ todo \subseteq files
  /\ copied \subseteq files \ todo
  /\ copies \in Nat
  /\ faults \in 0..MaxFaults

Init ==
  /\ closed = FALSE
  /\ aux = [n \in Names |-> Absent]
  /\ pc = "idle"
  /\ files = {} /\ todo = {} /\ copied = {}
  /\ copies = 0 /\ faults = 0

(* close_pgroup_writing.                                                    *)
Close ==
  /\ ~closed
  /\ closed' = TRUE
  /\ UNCHANGED <<aux, pc, files, todo, copied, copies, faults>>

(* A call that was under way when the pgroup was closed goes on.            *)
CopyUserFiles(fs) ==
  /\ pc = "idle"
  /\ ~closed
  /\ pc' = "copying"
  /\ files' = fs
  /\ todo' = fs
  /\ copied' = {}
  /\ copies' = copies + 1
  /\ UNCHANGED <<closed, aux, faults>>

(* The loop comes to file f, or is done with it.                            *)
At(f, from, to) ==
  /\ pc = from
  /\ pc' = to
  /\ todo # {} /\ f = Min(todo)
  /\ UNCHANGED <<closed, files, copies, faults>>

Change(name, content) == aux' = [aux EXCEPT ![name] = content]

(* shutil.copy2.                                                            *)
OpenCopy(f) ==
  /\ At(f, "copying", "fill")
  /\ Change(NameOf[f], Torn)
  /\ UNCHANGED <<todo, copied>>

FillCopy(f) ==
  /\ At(f, "fill", "copying")
  /\ Change(NameOf[f], f)
  /\ todo' = todo \ {f}
  /\ copied' = copied \cup {f}

(* Mutant: a file that was not copied is reported as if it were.            *)
PassOverReported(f) ==
  /\ At(f, "copying", "copying") \/ At(f, "fill", "copying")
  /\ todo' = todo \ {f}
  /\ copied' = copied \cup {f}
  /\ UNCHANGED aux

(* A file that is not there or of another group, and a copy that fails.     *)
PassOver(f) ==
  /\ At(f, "copying", "copying") \/ At(f, "fill", "copying")
  /\ todo' = todo \ {f}
  /\ UNCHANGED <<aux, copied>>

(* The answer; what it says is kept for a while.                            *)
Answer ==
  /\ pc = "copying"
  /\ todo = {}
  /\ pc' = "idle"
  /\ UNCHANGED <<closed, aux, files, todo, copied, copies, faults>>

Die ==
  /\ pc # "idle"
  /\ pc' = "idle"
  /\ faults < MaxFaults
  /\ faults' = faults + 1
  /\ files' = {} /\ todo' = {} /\ copied' = {}
  /\ UNCHANGED <<closed, aux, copies>>

Works ==
  \/ \E f \in Sources : OpenCopy(f) \/ FillCopy(f) \/ PassOver(f)
  \/ Answer \/ Die

Next == Close \/ (\E fs \in SUBSET Sources : CopyUserFiles(fs)) \/ Works

Spec == Init /\ [][Next]_vars

-----------------------------------------------------------------------------
(* Of the files reported as copied that have one name the last is there,    *)
(* whole: the others were overwritten.  Where a later copy to the same name *)
(* broke off, the report still names the earlier.                           *)
LastReportedIsThere ==
  \A f \in copied :
    (\A g \in files : g > f => NameOf[g] # NameOf[f])
      => aux[NameOf[f]] = f

=============================================================================
