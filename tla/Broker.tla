------------------------------- MODULE Broker -------------------------------
(***************************************************************************)
(* The broker's handlers that number runs and acquisitions and hand out    *)
(* the write requests of one pgroup: advance_run_number,                   *)
(* get_current_run_number, retrieve_from_buffers, close_pgroup_writing.    *)
(* The server handles one request at a time, so one set of handler         *)
(* variables is enough; what interleaves is the failure of a handler at    *)
(* any of its steps with the retries of the clients.  Every file is opened *)
(* with "w" (truncated) and written a moment later: a handler that stops   *)
(* in between leaves an empty file behind.                                 *)
(*                                                                         *)
(* Requests rejected before anything is written (missing fields, bad pulse *)
(* ids or rate, a closed pgroup in advance_run_number) change nothing and  *)
(* are left out.                                                           *)
(***************************************************************************)
EXTENDS Integers, Sequences, FiniteSets

CONSTANTS
  Suffixes,  \* what a cleaned user tag adds to a run directory, or nothing
  Sources,   \* what can be retrieved, numbered in the order it is sent:
             \* epics PVs, BS channels, cameras, then the detectors
  MaxRun,    \* bound: run numbers handed out
  MaxAcq,    \* bound: unique acquisition numbers, steps of a run
  WideRun,   \* the least run number printed without leading zeros (1000)
  Radix,     \* the base run numbers are printed in (10)
  NoRun,     \* the request names no run number
  NoJob,     \* no request is being handled
  Absent,    \* the file does not exist
  Blank      \* the file is empty

Runs     == 0..MaxRun
Steps    == 1..MaxAcq
Counters == {"LAST_RUN", "LAST_ARUN"}
Dirs     == Runs \X Suffixes

Retrieves == [kind: {"retrieve"}, run: Runs \cup {NoRun}, suffix: Suffixes,
              sources: SUBSET Sources, flawed: BOOLEAN]
Numberings == [kind: {"advance", "current"}]
Jobs == Retrieves \cup Numberings

Messages == [dir: Dirs, acq: Steps, source: Sources, uniq: Steps]
Entries  == [acq: Steps, uniq: Steps]
Answers  == [dir: Dirs, acq: Steps, uniq: Steps, sources: SUBSET Sources]

ASSUME BrokerAssumption ==
  /\ Sources \subseteq Nat
  /\ MaxRun \in Nat \ {0}
  /\ MaxAcq \in Nat \ {0}
  /\ NoRun \notin Runs
  /\ NoJob \notin Jobs
  /\ Absent \notin Nat
  /\ Blank \notin Nat
  /\ Absent # Blank

VARIABLES
  last,      \* contents of run_info/LAST_RUN and run_info/LAST_ARUN
  closed,    \* run_info/CLOSED exists
  dirs,      \* the run directories that exist
  acqFile,   \* meta/acqNNNN.json of each directory: the request it records
  scanFile,  \* meta/scan.json of each directory: absent, torn or saved
  scan,      \* the entries that scan.json was last read or saved with
  granted,   \* run numbers handed out, in order (history)
  sent,      \* write requests handed to RabbitMQ (history)
  accepted,  \* retrieve requests answered with "ok" (history)
  step,      \* where the handler is
  job,       \* the request it handles
  ctr,       \* the counter file it works on
  run, acq, uniq,  \* its run number, step in the run, unique number
  todo       \* the sources it still has to send

files   == <<last, closed, dirs, acqFile, scanFile, scan>>
history == <<granted, sent, accepted>>
handler == <<step, job, ctr, run, acq, uniq, todo>>
vars    == <<files, history, handler>>

Dir == <<run, job.suffix>>

TypeOK ==
  /\ last \in [Counters -> Nat \cup {Absent, Blank}]
  /\ closed \in BOOLEAN
  /\ dirs \subseteq Dirs
  /\ acqFile \in [Dirs -> [Steps -> Steps \cup {Absent, Blank}]]
  /\ scanFile \in [Dirs -> {"absent", "torn", "saved"}]
  /\ scan \in [Dirs -> Seq(Entries)]
  /\ granted \in Seq(Runs)
  /\ sent \subseteq Messages
  /\ accepted \subseteq Answers
  /\ step \in {"idle", "counter", "zero", "bump", "validate", "save", "saving",
               "connect", "send", "scan", "scanning", "reply"}
  /\ job \in Jobs \cup {NoJob}
  /\ ctr \in Counters
  /\ run \in Runs
  /\ acq \in Steps
  /\ uniq \in 0..MaxAcq
  /\ todo \subseteq Sources

Init ==
  /\ last = [c \in Counters |-> Absent]
  /\ closed = FALSE
  /\ dirs = {}
  /\ acqFile = [d \in Dirs |-> [n \in Steps |-> Absent]]
  /\ scanFile = [d \in Dirs |-> "absent"]
  /\ scan = [d \in Dirs |-> <<>>]
  /\ granted = <<>>
  /\ sent = {}
  /\ accepted = {}
  /\ step = "idle"
  /\ job = NoJob
  /\ ctr = "LAST_RUN"
  /\ run = 0
  /\ acq = 1
  /\ uniq = 0
  /\ todo = {}

-----------------------------------------------------------------------------
(* Leaving the handler, with an answer or with an exception: its local      *)
(* variables are gone.                                                      *)
Return ==
  /\ step' = "idle"
  /\ job' = NoJob
  /\ ctr' = "LAST_RUN"
  /\ run' = 0
  /\ acq' = 1
  /\ uniq' = 0
  /\ todo' = {}

Goto(s) == step' = s

(* Bounds of the model, not of the code: a number is only asked for while   *)
(* there is one left to give.                                               *)
BelowBound(c, max) == last[c] \in Nat => last[c] < max

Receive(j) ==
  /\ step = "idle"
  /\ BelowBound("LAST_RUN", MaxRun) \/ (j.kind = "retrieve" /\ j.run # NoRun)
                                    \/ j.kind = "current"
  /\ BelowBound("LAST_ARUN", MaxAcq) \/ j.kind # "retrieve"
  /\ j.kind = "retrieve" \/ ~closed
  /\ job' = j
  /\ Goto("counter")
  /\ UNCHANGED <<files, history, ctr, run, acq, uniq, todo>>

Close ==
  /\ step = "idle"
  /\ ~closed
  /\ closed' = TRUE
  /\ UNCHANGED <<last, dirs, acqFile, scanFile, scan, history, handler>>

-----------------------------------------------------------------------------
(* get_run_number: create the counter file with 0, read it, and write the   *)
(* number back if the caller takes a new one.                               *)

CreateCounter ==
  /\ step = "counter"
  /\ last[ctr] = Absent
  /\ last' = [last EXCEPT ![ctr] = Blank]
  /\ Goto("zero")
  /\ UNCHANGED <<closed, dirs, acqFile, scanFile, scan, history,
                 job, ctr, run, acq, uniq, todo>>

WriteZero ==
  /\ step = "zero"
  /\ last' = [last EXCEPT ![ctr] = 0]
  /\ Goto("counter")
  /\ UNCHANGED <<closed, dirs, acqFile, scanFile, scan, history,
                 job, ctr, run, acq, uniq, todo>>

Increments ==
  \/ ctr = "LAST_ARUN"
  \/ job.kind = "advance"
  \/ job.kind = "retrieve" /\ job.run = NoRun

(* int("") raises.                                                          *)
CounterUnreadable ==
  /\ step = "counter"
  /\ last[ctr] = Blank
  /\ Return
  /\ UNCHANGED <<files, history>>

TakeNumber ==
  /\ step = "counter"
  /\ last[ctr] \in Nat
  /\ Increments
  /\ IF ctr = "LAST_RUN"
       THEN run' = last[ctr] + 1 /\ UNCHANGED uniq
       ELSE uniq' = last[ctr] + 1 /\ UNCHANGED run
  /\ last' = [last EXCEPT ![ctr] = Blank]
  /\ Goto("bump")
  /\ UNCHANGED <<closed, dirs, acqFile, scanFile, scan, history,
                 job, ctr, acq, todo>>

WriteRun ==
  /\ step = "bump"
  /\ ctr = "LAST_RUN"
  /\ last' = [last EXCEPT ![ctr] = run]
  /\ granted' = Append(granted, run)
  /\ IF job.kind = "advance"
       THEN Return
       ELSE /\ Goto("validate")
            /\ UNCHANGED <<job, ctr, run, acq, uniq, todo>>
  /\ UNCHANGED <<closed, dirs, acqFile, scanFile, scan, sent, accepted>>

(* Mutant: the number read is written back, not the one taken.              *)
WriteAcqUnchanged ==
  /\ step = "bump"
  /\ ctr = "LAST_ARUN"
  /\ last' = [last EXCEPT ![ctr] = uniq - 1]
  /\ Goto("save")
  /\ UNCHANGED <<closed, dirs, acqFile, scanFile, scan, history,
                 job, ctr, run, acq, uniq, todo>>

(* Mutant: the request is not saved in meta/.                               *)
WriteAcqUnrecorded ==
  /\ step = "bump"
  /\ ctr = "LAST_ARUN"
  /\ last' = [last EXCEPT ![ctr] = uniq]
  /\ Goto("connect")
  /\ UNCHANGED <<closed, dirs, acqFile, scanFile, scan, history,
                 job, ctr, run, acq, uniq, todo>>

WriteAcq ==
  /\ step = "bump"
  /\ ctr = "LAST_ARUN"
  /\ last' = [last EXCEPT ![ctr] = uniq]
  /\ Goto("save")
  /\ UNCHANGED <<closed, dirs, acqFile, scanFile, scan, history,
                 job, ctr, run, acq, uniq, todo>>

(* Mutant: allowed_run_number is not called.                                *)
ReadNumberUnchecked ==
  /\ step = "counter"
  /\ last[ctr] \in Nat
  /\ ~Increments
  /\ IF job.kind = "retrieve"
       THEN /\ run' = job.run
            /\ Goto("validate")
            /\ UNCHANGED <<job, ctr, acq, uniq, todo>>
       ELSE Return
  /\ UNCHANGED <<files, history>>

(* get_current_run_number answers; a retrieve that names its run goes on if *)
(* the run is not beyond the last one.                                      *)
ReadNumber ==
  /\ step = "counter"
  /\ last[ctr] \in Nat
  /\ ~Increments
  /\ \/ /\ job.kind = "retrieve"
        /\ job.run <= last[ctr]
        /\ run' = job.run
        /\ Goto("validate")
        /\ UNCHANGED <<job, ctr, acq, uniq, todo>>
     \/ /\ job.kind = "retrieve" => job.run > last[ctr]
        /\ Return
  /\ UNCHANGED <<files, history>>

-----------------------------------------------------------------------------
(* retrieve_from_buffers: the checks that come after the run number, then   *)
(* the directories, the step number and the record of the request.          *)

(* glob("run0001*"): the digits of run r start those of run s.  Padding to  *)
(* four digits makes that equality up to 999; run 1000 also finds 10000 to  *)
(* 10009 (no pgroup gets to six digits).                                    *)
StartsLike(r, s) == s = r \/ (r >= WideRun /\ s \div Radix = r)

(* Mutant: tag_matching_previous is not called.                             *)
TagIgnored == TRUE

TagMatchesPrevious ==
  \/ Dir \in dirs
  \/ \A d \in dirs : ~StartsLike(run, d[1])

(* Mutant: retrieve_from_buffers does not look for CLOSED.                  *)
MayWriteClosed == TagMatchesPrevious /\ ~job.flawed

MayWrite == TagMatchesPrevious /\ ~closed /\ ~job.flawed

Reject ==
  /\ step = "validate"
  /\ ~MayWrite
  /\ Return
  /\ UNCHANGED <<files, history>>

(* get_current_step_in_scan: the number of files in meta/, scan.json        *)
(* included, or 1 for an empty directory.                                   *)
FilesIn(d) == Cardinality({n \in Steps : acqFile[d][n] # Absent})
                + (IF scanFile[d] = "absent" THEN 0 ELSE 1)

(* Mutants: no 1 for an empty directory; only the records are counted, not  *)
(* scan.json; only the steps listed in scan.json are counted.               *)
NextStepFromZero(d) == FilesIn(d)
NextStepOfRecords(d) ==
  IF FilesIn(d) = 0 THEN 1
                    ELSE Cardinality({n \in Steps : acqFile[d][n] # Absent})
NextStepOfScan(d) == Len(scan[d]) + 1

NextStep(d) == IF FilesIn(d) = 0 THEN 1 ELSE FilesIn(d)

Validate ==
  /\ step = "validate"
  /\ MayWrite
  /\ NextStep(Dir) <= MaxAcq
  /\ dirs' = dirs \cup {Dir}
  /\ acq' = NextStep(Dir)
  /\ ctr' = "LAST_ARUN"
  /\ Goto("counter")
  /\ UNCHANGED <<last, closed, acqFile, scanFile, scan, history,
                 job, run, uniq, todo>>

OpenAcqFile ==
  /\ step = "save"
  /\ acqFile' = [acqFile EXCEPT ![Dir][acq] = Blank]
  /\ Goto("saving")
  /\ UNCHANGED <<last, closed, dirs, scanFile, scan, history,
                 job, ctr, run, acq, uniq, todo>>

SaveAcqFile ==
  /\ step = "saving"
  /\ acqFile' = [acqFile EXCEPT ![Dir][acq] = uniq]
  /\ Goto("connect")
  /\ UNCHANGED <<last, closed, dirs, scanFile, scan, history,
                 job, ctr, run, acq, uniq, todo>>

-----------------------------------------------------------------------------
(* Sending one write request per source over one connection to RabbitMQ.    *)

Connect ==
  /\ step = "connect"
  /\ todo' = job.sources
  /\ Goto("send")
  /\ UNCHANGED <<files, history, job, ctr, run, acq, uniq>>

Message(s) == [dir |-> Dir, acq |-> acq, source |-> s, uniq |-> uniq]

IsNext(s) == s \in todo /\ \A t \in todo : s <= t

Send(s) ==
  /\ step = "send"
  /\ IsNext(s)
  /\ sent' = sent \cup {Message(s)}
  /\ todo' = todo \ {s}
  /\ UNCHANGED <<files, granted, accepted, step, job, ctr, run, acq, uniq>>

(* send() publishes the request and then its status: it may fail after the  *)
(* request is out.                                                          *)
SendFailsLate(s) ==
  /\ step = "send"
  /\ IsNext(s)
  /\ sent' = sent \cup {Message(s)}
  /\ Return
  /\ UNCHANGED <<files, granted, accepted>>

Disconnect ==
  /\ step = "send"
  /\ todo = {}
  /\ Goto("scan")
  /\ UNCHANGED <<files, history, job, ctr, run, acq, uniq, todo>>

-----------------------------------------------------------------------------
(* The bookkeeping of the scan, and the answer.                             *)

ScanUnreadable ==
  /\ step = "scan"
  /\ scanFile[Dir] = "torn"
  /\ Return
  /\ UNCHANGED <<files, history>>

OpenScan ==
  /\ step = "scan"
  /\ scanFile[Dir] # "torn"
  /\ scanFile' = [scanFile EXCEPT ![Dir] = "torn"]
  /\ Goto("scanning")
  /\ UNCHANGED <<last, closed, dirs, acqFile, scan, history,
                 job, ctr, run, acq, uniq, todo>>

(* Mutant: a fresh list is saved, without the entries loaded from the file. *)
SaveScanAnew ==
  /\ step = "scanning"
  /\ scan' = [scan EXCEPT ![Dir] = <<[acq |-> acq, uniq |-> uniq]>>]
  /\ scanFile' = [scanFile EXCEPT ![Dir] = "saved"]
  /\ Goto("reply")
  /\ UNCHANGED <<last, closed, dirs, acqFile, history,
                 job, ctr, run, acq, uniq, todo>>

SaveScan ==
  /\ step = "scanning"
  /\ scan' = [scan EXCEPT ![Dir] = Append(@, [acq |-> acq, uniq |-> uniq])]
  /\ scanFile' = [scanFile EXCEPT ![Dir] = "saved"]
  /\ Goto("reply")
  /\ UNCHANGED <<last, closed, dirs, acqFile, history,
                 job, ctr, run, acq, uniq, todo>>

Answer == [dir |-> Dir, acq |-> acq, uniq |-> uniq, sources |-> job.sources]

Reply ==
  /\ step = "reply"
  /\ accepted' = accepted \cup {Answer}
  /\ Return
  /\ UNCHANGED <<files, granted, sent>>

(* A file cannot be written, RabbitMQ cannot be reached or is lost, or the  *)
(* broker dies: whatever was written so far stays.                          *)
Abort ==
  /\ step # "idle"
  /\ Return
  /\ UNCHANGED <<files, history>>

Next ==
  \/ \E j \in Jobs : Receive(j)
  \/ Close
  \/ CreateCounter \/ WriteZero \/ CounterUnreadable
  \/ TakeNumber \/ WriteRun \/ WriteAcq \/ ReadNumber
  \/ Validate \/ Reject \/ OpenAcqFile \/ SaveAcqFile
  \/ Connect \/ Disconnect
  \/ \E s \in Sources : Send(s) \/ SendFailsLate(s)
  \/ ScanUnreadable \/ OpenScan \/ SaveScan \/ Reply
  \/ Abort

Spec == Init /\ [][Next]_vars

-----------------------------------------------------------------------------
(* Bookkeeping (README, "Bookkeeping"): a retrieve request answered with    *)
(* "ok" stays recorded whatever later requests do, failed and retried ones  *)
(* included: its acqNNNN.json is still its own, all its write requests were *)
(* sent, and scan.json lists it, unless a later failure tore that file.     *)
AcceptedIsRecorded ==
  \A a \in accepted :
    /\ acqFile[a.dir][a.acq] = a.uniq
    /\ \A s \in a.sources :
         [dir |-> a.dir, acq |-> a.acq, source |-> s, uniq |-> a.uniq] \in sent
    /\ scanFile[a.dir] # "absent"
    /\ scanFile[a.dir] = "saved" =>
         \E i \in DOMAIN scan[a.dir] :
           scan[a.dir][i] = [acq |-> a.acq, uniq |-> a.uniq]

(* The output files of an accepted acquisition are never requested again:   *)
(* a file name may be used twice, since a failed first step is numbered     *)
(* again, but never after it belonged to an "ok" answer.                    *)
AcceptedFilesAreFinal ==
  \A a \in accepted, m \in sent :
    m.dir = a.dir /\ m.acq = a.acq => m.uniq <= a.uniq

(* A file name that is requested twice is one of a first step.              *)
OnlyFirstStepsRepeat ==
  \A m, n \in sent :
    m.dir = n.dir /\ m.acq = n.acq => m.uniq = n.uniq \/ m.acq = 1

(* scan.json keeps the steps of a scan in order, each with the request its  *)
(* acqNNNN.json records, even when failed steps leave gaps between them.    *)
ScanInOrder ==
  \A d \in Dirs : \A i, k \in DOMAIN scan[d] :
    /\ i < k => scan[d][i].acq < scan[d][k].acq /\ scan[d][i].uniq < scan[d][k].uniq
    /\ acqFile[d][scan[d][i].acq] = scan[d][i].uniq

(* A unique acquisition number names one acquisition: no two directories or *)
(* steps ever carry the same one, in files or in write requests.            *)
UniqueNumbers ==
  /\ \A m, n \in sent : m.uniq = n.uniq => m.dir = n.dir /\ m.acq = n.acq
  /\ \A d, e \in Dirs, i, k \in Steps :
       acqFile[d][i] \in Nat /\ acqFile[d][i] = acqFile[e][k] => d = e /\ i = k

(* tag_matching_previous: a run keeps the directory name it got first.      *)
OneDirectoryPerRun ==
  \A d, e \in dirs : d[1] = e[1] => d = e

(* A closed pgroup gets no new directory, record, scan entry or write       *)
(* request.  (Its LAST_RUN still moves: a retrieve takes its run number     *)
(* before it looks for CLOSED.)                                             *)
ClosedIsFinal ==
  [][closed => closed' /\ UNCHANGED <<dirs, acqFile, scan, sent, accepted>>]_vars

(* The numbers in the answers are those of the abstract ledger.             *)
L == INSTANCE Ledger WITH Numbers <- Runs \ {0}, ledger <- accepted,
                          shut <- closed

LedgerSpec == L!Spec

=============================================================================
