----------------------------- MODULE BrokerInv ------------------------------
(***************************************************************************)
(* The inductive invariant behind the theorems of BrokerProofs: what the   *)
(* handler of Broker relies on at each of its steps, and what keeps the    *)
(* properties of that module true from one request to the next.            *)
(***************************************************************************)
EXTENDS Broker

Numbering == {"counter", "zero", "bump"}
Recorded  == {"connect", "send", "scan", "scanning", "reply"}

(* The handler has its step number but has not opened acqNNNN.json yet.     *)
Placing == (step \in Numbering /\ ctr = "LAST_ARUN") \/ step = "save"

(* The handler is past the checks of retrieve_from_buffers.                 *)
Placed == Placing \/ step = "saving" \/ step \in Recorded

JobOK ==
  /\ step = "idle" <=> job = NoJob
  /\ step = "validate" \/ Placed => job \in Retrieves
  /\ Placed => ctr = "LAST_ARUN" /\ Dir \in dirs /\ ~closed
  /\ step \in {"idle", "validate"} => ctr = "LAST_RUN"
  /\ step = "bump" => Increments

(* A handler that will take a number finds one left to take.                *)
BoundOK ==
  /\ step \in {"counter", "zero"} /\ ctr = "LAST_RUN" /\ Increments
       => BelowBound("LAST_RUN", MaxRun)
  /\ job \in Retrieves /\ step \in {"counter", "zero", "bump", "validate"}
       => BelowBound("LAST_ARUN", MaxAcq)

(* The records of a directory are steps 1..k, and without scan.json there   *)
(* is at most the first.                                                    *)
MetaOK ==
  \A d \in Dirs :
    /\ \E k \in 0..MaxAcq :
         /\ \A n \in Steps : acqFile[d][n] # Absent <=> n <= k
         /\ scanFile[d] = "absent" => k <= 1
         /\ scanFile[d] # "absent" => k >= 1
    /\ scanFile[d] = "absent" => scan[d] = <<>>

PlaceOK ==
  /\ Placed => \A n \in Steps : n < acq => acqFile[Dir][n] # Absent
  /\ Placed => \A n \in Steps : n > acq => acqFile[Dir][n] = Absent
  /\ Placed /\ scanFile[Dir] = "absent" => acq = 1
  /\ Placing /\ scanFile[Dir] # "absent" => acqFile[Dir][acq] = Absent
  /\ step = "saving" => acqFile[Dir][acq] = Blank
  /\ step \in Recorded => acqFile[Dir][acq] = uniq
  /\ step \in {"scanning", "reply"} => scanFile[Dir] # "absent"

(* Nothing carries a unique number above n.                                 *)
UsedUpTo(n) ==
  /\ \A m \in sent : m.uniq <= n
  /\ \A d \in Dirs, i \in Steps : acqFile[d][i] \in Nat => acqFile[d][i] <= n

FreshOK ==
  /\ last["LAST_ARUN"] = Absent => UsedUpTo(0)
  /\ step = "zero" /\ ctr = "LAST_ARUN" => UsedUpTo(0)
  /\ last["LAST_ARUN"] \in Nat => UsedUpTo(last["LAST_ARUN"])
  /\ (step = "bump" /\ ctr = "LAST_ARUN") \/ step \in {"save", "saving"}
       => uniq \in Nat \ {0} /\ UsedUpTo(uniq - 1)
  /\ step \in {"save", "saving"} \cup Recorded => last["LAST_ARUN"] = uniq

(* What the handler has sent, and what others have, at its steps.           *)
SentOK ==
  /\ \A m \in sent : acqFile[m.dir][m.acq] # Absent
  /\ step \in Recorded =>
       \A m \in sent : m.uniq = uniq => m.dir = Dir /\ m.acq = acq
  /\ Placing \/ step = "saving" =>
       \A m \in sent : m.dir = Dir /\ m.acq = acq => acq = 1
  /\ step \in Recorded =>
       \A m \in sent : m.dir = Dir /\ m.acq = acq => acq = 1 \/ m.uniq = uniq
  /\ step = "send" => \A s \in job.sources \ todo : Message(s) \in sent
  /\ step \in {"scan", "scanning", "reply"} =>
       \A s \in job.sources : Message(s) \in sent

AcceptedOK ==
  /\ \A a \in accepted : a.dir \in dirs
  /\ Placed => \A a \in accepted : a.dir = Dir => a.acq < acq
  /\ step \in Recorded => \A a \in accepted : a.uniq < uniq
  /\ Placed /\ step # "reply" =>
       \A i \in DOMAIN scan[Dir] : scan[Dir][i].acq < acq
  /\ step = "reply" =>
       /\ scanFile[Dir] = "saved"
       /\ scan[Dir] # <<>>
       /\ scan[Dir][Len(scan[Dir])] = [acq |-> acq, uniq |-> uniq]

(* What scan.json was last read or saved with lists every accepted step,    *)
(* also while the file is being rewritten.                                  *)
ScanKeeps ==
  \A a \in accepted : \E i \in DOMAIN scan[a.dir] :
    scan[a.dir][i] = [acq |-> a.acq, uniq |-> a.uniq]

HandedOut(n) == \E i \in DOMAIN granted : granted[i] = n

(* The run numbers handed out are those up to n.                            *)
GrantedUpTo(n) ==
  /\ \A i \in DOMAIN granted : granted[i] <= n
  /\ \A r \in 1..n : HandedOut(r)

GrantedOK ==
  /\ last["LAST_RUN"] = Absent => GrantedUpTo(0)
  /\ step = "zero" /\ ctr = "LAST_RUN" => GrantedUpTo(0)
  /\ last["LAST_RUN"] \in Nat => GrantedUpTo(last["LAST_RUN"])
  /\ step = "bump" /\ ctr = "LAST_RUN" =>
       run \in Nat \ {0} /\ GrantedUpTo(run - 1)
  /\ step = "validate" \/ Placed => run = 0 \/ HandedOut(run)

IInv ==
  /\ TypeOK
  /\ JobOK
  /\ BoundOK
  /\ MetaOK
  /\ PlaceOK
  /\ FreshOK
  /\ SentOK
  /\ AcceptedOK
  /\ ScanKeeps
  /\ GrantedOK
  /\ AcceptedIsRecorded
  /\ AcceptedFilesAreFinal
  /\ OnlyFirstStepsRepeat
  /\ ScanInOrder
  /\ UniqueNumbers
  /\ OneDirectoryPerRun

=============================================================================
