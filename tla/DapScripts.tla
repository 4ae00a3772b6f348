----------------------------- MODULE DapScripts ------------------------------
(***************************************************************************)
(* How upload_custom_dap_script of the slow broker publishes a script of   *)
(* the detector analysis pipeline: through a clone of a git repository     *)
(* that is kept between calls (utils/gitrepo.py), into which the code is   *)
(* written, loaded and tried out before it is committed and pushed.        *)
(* Others push to the repository too.                                      *)
(*                                                                         *)
(* Commits are told apart by the scripts they leave.  Two commits that     *)
(* change one script conflict or are merged by git, which then makes a     *)
(* code of its own.  The repository ignores what importing a script leaves *)
(* in __pycache__.                                                         *)
(***************************************************************************)
EXTENDS Integers

CONSTANTS
  Scripts,
  MaxPushes,  \* bound: pushes of others
  MaxFaults   \* bound: steps that fail for another reason than the code,
              \* and processes that die

Missing == 0
Torn    == 0 - 1

VARIABLES
  origin,    \* the code of each script in the repository: the upload or push
             \* it came with, or the pull that merged it
  base,      \* what the commits of the clone that were not pushed are based on
  head,      \* the last commit of the clone's branch
  index,     \* its index
  tree,      \* its files
  rebasing,  \* a rebase stopped at a conflict: HEAD is not at the branch, which
             \* only moves when a rebase ends
  pc,        \* where the call is
  script,    \* the script it uploads
  code,      \* its code
  passed,    \* code that was loaded and ran, or that others pushed (history)
  merged,    \* code that git made of two commits' (history)
  confirmed, \* the last code of each script that was answered "ok" (history)
  broken,    \* a call died or could not clean up, or a rebase stopped (history)
  codes,     \* how many codes were uploaded, pushed and merged so far
  pushes,    \* how many of them others pushed
  faults     \* how many steps failed so far

clone   == <<base, head, index, tree, rebasing>>
current == <<script, code>>
history == <<passed, merged, confirmed, broken>>
bounds  == <<codes, pushes, faults>>
vars    == <<origin, clone, pc, current, history, bounds>>

Versions == [Scripts -> Missing..codes]

TypeOK ==
  /\ origin \in Versions
  /\ base \in Versions
  /\ head \in Versions
  /\ index \in Versions
  /\ tree \in [Scripts -> Torn..codes]
  /\ rebasing \in BOOLEAN
  /\ pc \in {"idle", "update", "open", "fill", "test", "clean", "add", "commit", "push"}
  /\ script \in Scripts
  /\ code \in 0..codes
  /\ passed \subseteq 1..codes
  /\ merged \subseteq 1..codes
  /\ confirmed \in Versions
  /\ broken \in BOOLEAN
  /\ codes \in Nat
  /\ pushes \in 0..MaxPushes
  /\ faults \in 0..MaxFaults

Nothing == [s \in Scripts |-> Missing]

Init ==
  /\ origin = Nothing
  /\ base = Nothing
  /\ head = Nothing
  /\ index = Nothing
  /\ tree = Nothing
  /\ rebasing = FALSE
  /\ pc = "idle"
  /\ script \in Scripts
  /\ code = 0
  /\ passed = {}
  /\ merged = {}
  /\ confirmed = Nothing
  /\ broken = FALSE
  /\ codes = 0
  /\ pushes = 0
  /\ faults = 0

Goto(from, to) == pc = from /\ pc' = to

OthersPush(s) ==
  /\ pushes < MaxPushes
  /\ pushes' = pushes + 1
  /\ codes' = codes + 1
  /\ origin' = [origin EXCEPT ![s] = codes + 1]
  /\ passed' = passed \cup {codes + 1}
  /\ UNCHANGED <<clone, pc, current, merged, confirmed, broken, faults>>

Upload(s) ==
  /\ Goto("idle", "update")
  /\ script' = s
  /\ codes' = codes + 1
  /\ code' = codes + 1
  /\ UNCHANGED <<origin, clone, history, pushes, faults>>

-----------------------------------------------------------------------------
(* GitRepo.update.                                                          *)

Dirty == rebasing \/ tree # head \/ index # head

Refuse ==
  /\ Goto("update", "idle")
  /\ Dirty
  /\ UNCHANGED <<origin, clone, current, history, bounds>>

(* Commits that were not pushed are put on top of what others pushed.  A    *)
(* script that both added conflicts; the changes of both to one that was    *)
(* there conflict or, where they do not touch, are merged.                  *)
Ahead(s)     == head[s] # base[s]
Both         == {s \in Scripts : Ahead(s) /\ origin[s] # base[s]}
Rebased(new) == [s \in Scripts |-> IF s \in Both THEN new
                                   ELSE IF Ahead(s) THEN head[s] ELSE origin[s]]

MoveTo(commit) ==
  /\ base' = origin
  /\ head' = commit
  /\ index' = commit
  /\ tree' = commit

Pull ==
  /\ Goto("update", "open")
  /\ ~Dirty
  /\ Both = {}
  /\ MoveTo(Rebased(Missing))
  /\ UNCHANGED <<origin, rebasing, current, history, bounds>>

PullMerges ==
  /\ Goto("update", "open")
  /\ ~Dirty
  /\ Both # {}
  /\ \A s \in Both : base[s] # Missing
  /\ MoveTo(Rebased(codes + 1))
  /\ codes' = codes + 1
  /\ merged' = merged \cup {codes + 1}
  /\ UNCHANGED <<origin, rebasing, current, passed, confirmed, broken, pushes, faults>>

(* The file git could not merge is left with both versions in it, on top of *)
(* what others pushed.                                                      *)
PullStops ==
  /\ Goto("update", "idle")
  /\ ~Dirty
  /\ \E s \in Both : tree' = [origin EXCEPT ![s] = Torn]
  /\ index' = origin
  /\ rebasing' = TRUE
  /\ broken' = TRUE
  /\ UNCHANGED <<origin, base, head, current, passed, merged, confirmed, bounds>>

-----------------------------------------------------------------------------
(* write_to_file, load_proc_from_file and test_run.                         *)

WriteScript ==
  /\ \/ Goto("open", "fill") /\ tree' = [tree EXCEPT ![script] = Torn]
     \/ Goto("fill", "test") /\ tree' = [tree EXCEPT ![script] = code]
  /\ UNCHANGED <<origin, base, head, index, rebasing, current, history, bounds>>

Passes ==
  /\ Goto("test", "add")
  /\ passed' = passed \cup {code}
  /\ UNCHANGED <<origin, clone, current, merged, confirmed, broken, bounds>>

(* Mutant: a failed test leaves the file.                                   *)
FailsTestUncleaned ==
  /\ Goto("test", "idle")
  /\ UNCHANGED <<origin, clone, current, history, bounds>>

(* Mutant: a failed test is not seen.                                       *)
FailsTestUnraised ==
  /\ Goto("test", "add")
  /\ UNCHANGED <<origin, clone, current, history, bounds>>

(* No module, no function in it, or one that runs for more than 0.1 s; what *)
(* the function raises, or does to the metadata, stays in the child process *)
(* that runs it.                                                            *)
FailsTest ==
  /\ Goto("test", "clean")
  /\ UNCHANGED <<origin, clone, current, history, bounds>>

(* Mutant: what was not pushed is given up, too.                            *)
CleanToOrigin ==
  /\ Goto("clean", "idle")
  /\ base' = origin
  /\ head' = origin
  /\ index' = origin
  /\ tree' = origin
  /\ UNCHANGED <<origin, rebasing, current, history, bounds>>

(* GitRepo.clean: fetch, reset --hard HEAD, clean -fdx.                     *)
Clean ==
  /\ Goto("clean", "idle")
  /\ index' = head
  /\ tree' = head
  /\ UNCHANGED <<origin, base, head, rebasing, current, history, bounds>>

-----------------------------------------------------------------------------
(* GitRepo.commit.                                                          *)

Add ==
  /\ Goto("add", "commit")
  /\ index' = [index EXCEPT ![script] = tree[script]]
  /\ UNCHANGED <<origin, base, head, tree, rebasing, current, history, bounds>>

Commit ==
  /\ Goto("commit", "push")
  /\ head' = index
  /\ UNCHANGED <<origin, base, index, tree, rebasing, current, history, bounds>>

Confirm == confirmed' = [confirmed EXCEPT ![script] = code]

Push ==
  /\ Goto("push", "idle")
  /\ origin = base
  /\ origin' = head
  /\ base' = head
  /\ Confirm
  /\ UNCHANGED <<head, index, tree, rebasing, current, passed, merged, broken, bounds>>

(* Remote.push reports a rejected push in what it returns, which commit     *)
(* ignores: the call is answered with "ok".                                 *)
PushRejected ==
  /\ Goto("push", "idle")
  /\ origin # base
  /\ Confirm
  /\ UNCHANGED <<origin, clone, current, passed, merged, broken, bounds>>

-----------------------------------------------------------------------------
Fault(place) ==
  /\ pc # "idle"
  /\ pc' = place
  /\ faults < MaxFaults
  /\ faults' = faults + 1
  /\ UNCHANGED <<origin, clone, current, passed, merged, confirmed, codes, pushes>>

(* Mutant: a failure to write the file is not seen.                         *)
FailUnseen ==
  /\ Fault(IF pc \in {"open", "fill", "test"} THEN "add" ELSE "idle")
  /\ broken' = (broken \/ pc \in {"clean", "add", "commit"})

(* What fails in the try block is cleaned up; neither update nor clean nor  *)
(* commit is in it.                                                         *)
Fail ==
  /\ Fault(IF pc \in {"open", "fill", "test"} THEN "clean" ELSE "idle")
  /\ broken' = (broken \/ pc \in {"clean", "add", "commit"})

Die ==
  /\ Fault("idle")
  /\ broken' = (broken \/ pc \in {"fill", "test", "clean", "add", "commit"})

(* The repository took the push, the connection broke before it said so.    *)
(* The next pull finds the commits there.                                   *)
PushUnanswered ==
  /\ Goto("push", "idle")
  /\ origin = base
  /\ origin' = head
  /\ base' = head
  /\ faults < MaxFaults
  /\ faults' = faults + 1
  /\ UNCHANGED <<head, index, tree, rebasing, current, history, codes, pushes>>

Works ==
  \/ Refuse \/ Pull \/ PullMerges \/ PullStops
  \/ WriteScript \/ Passes \/ FailsTest \/ Clean
  \/ Add \/ Commit \/ Push \/ PushRejected \/ PushUnanswered \/ Fail \/ Die

Next ==
  \/ \E s \in Scripts : OthersPush(s) \/ Upload(s)
  \/ Works

Spec == Init /\ [][Next]_vars

-----------------------------------------------------------------------------
(* The code the slow broker publishes was loaded and run, whatever failed   *)
(* uploads, crashes and unpushed commits are left in the clone; or it is    *)
(* what git made of two that were, which nobody loads or runs.              *)
PublishedIsTested == \A s \in Scripts : origin[s] \in passed \cup merged \cup {Missing}

(* A script that was confirmed, or a merge with it, is in the repository or *)
(* stays in a commit of the clone, unless replaced by a later one: no       *)
(* failed upload of another script takes it back.                           *)
ConfirmedIsKept ==
  \A s \in Scripts : origin[s] >= confirmed[s] \/ head[s] >= confirmed[s]

(* Uploads are only refused for a clone that is not clean after a call died *)
(* or could not clean up, or after a conflict.                              *)
CleanWhenIdle == pc \in {"idle", "update"} /\ Dirty => broken

=============================================================================
