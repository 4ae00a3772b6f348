----------------------------- MODULE DaqProofs ------------------------------
(***************************************************************************)
(* The theorems about Daq, for any broker and any queue with finitely many *)
(* writers.  The steps of Daq are steps of Broker and of Delivery or leave *)
(* them alone, so that the invariants of both, proved in BrokerProofs and  *)
(* DeliveryProofs, hold together; what the files hold follows from these.  *)
(***************************************************************************)
EXTENDS Daq, BrokerProofs

P == INSTANCE DeliveryProofs WITH Requests <- Messages, Files <- OutputFiles,
                                  FileOf <- OutputFile, published <- sent

(* Each file holds data of a request that was sent for it.                  *)
FilesOK ==
  \A f \in OutputFiles : disk[f].by # NoRequest =>
    disk[f].by \in sent /\ OutputFile[disk[f].by] = f

(* A sent request is on record, unless a later one for its step is.         *)
RecordOK ==
  \A m \in sent :
    /\ m.dir \in dirs
    /\ acqFile[m.dir][m.acq] \in Steps => acqFile[m.dir][m.acq] >= m.uniq

DaqInv == IInv /\ P!Core /\ P!WholeOK /\ FilesOK /\ RecordOK

-----------------------------------------------------------------------------
(* Delivery's assumption holds of what the broker sends.                    *)
LEMMA DeliveryAssumed == P!DeliveryAssumption
<1>1. OutputFile \in [Messages -> OutputFiles]
  BY DEF OutputFile, OutputFiles, Messages
<1>2. P!IsFiniteSet(Writers) <=> IsFiniteSet(Writers)
  BY DEF P!IsFiniteSet, IsFiniteSet
<1> QED
  BY <1>1, <1>2, DaqAssumption DEF P!DeliveryAssumption

(* The two instances of Delivery are the same.                              *)
LEMMA SamePublish == \A r, file : D!Publish(r, file) <=> P!Publish(r, file)
  BY DEF D!Publish, P!Publish

LEMMA SameWriter ==
  ASSUME NEW w
  PROVE  (D!Join(w) \/ D!Serve(w) \/ D!Break(w)) <=> (P!Join(w) \/ P!Serve(w) \/ P!Break(w))
<1>1. D!Join(w) <=> P!Join(w)
  BY DEF D!Join, P!Join, D!Declare, P!Declare, D!Bind, P!Bind, D!Consume, P!Consume,
         D!QueueGone, P!QueueGone, D!Goto, P!Goto, D!Joining, P!Joining
<1>2. D!Serve(w) <=> P!Serve(w)
  <2>1. D!Deliver(w) <=> P!Deliver(w)
    BY DEF D!Deliver, P!Deliver, D!Goto, P!Goto
  <2>2. D!StartThread(w) <=> P!StartThread(w)
    BY DEF D!StartThread, P!StartThread, D!Goto, P!Goto, D!Tell, P!Tell
  <2>3. /\ D!OpenFile(w) <=> P!OpenFile(w)
        /\ D!FillFile(w) <=> P!FillFile(w)
        /\ D!SkipFile(w) <=> P!SkipFile(w)
    BY DEF D!OpenFile, P!OpenFile, D!FillFile, P!FillFile, D!SkipFile, P!SkipFile,
           D!Goto, P!Goto
  <2>4. (D!Succeed(w) <=> P!Succeed(w)) /\ (D!Fail(w) <=> P!Fail(w))
    BY DEF D!Succeed, P!Succeed, D!Fail, P!Fail, D!Goto, P!Goto, D!Thread, P!Thread
  <2>5. (D!Confirm(w) <=> P!Confirm(w)) /\ (D!Reject(w) <=> P!Reject(w))
    BY DEF D!Confirm, P!Confirm, D!Reject, P!Reject, D!Settle, P!Settle, D!Goto, P!Goto
  <2>6. D!UpdateStatus(w) <=> P!UpdateStatus(w)
    BY DEF D!UpdateStatus, P!UpdateStatus, D!Goto, P!Goto, D!Tell, P!Tell,
           D!Telling, P!Telling
  <2> QED
    BY <2>1, <2>2, <2>3, <2>4, <2>5, <2>6 DEF D!Serve, P!Serve
<1>3. D!Break(w) <=> P!Break(w)
  <2>1. D!Working = P!Working /\ D!Owning = P!Owning
    BY DEF D!Working, P!Working, D!Owning, P!Owning, D!Thread, P!Thread,
           D!Decided, P!Decided, D!Telling, P!Telling
  <2>2. D!Consumers = P!Consumers /\ D!Returned(w) = P!Returned(w)
    BY <2>1 DEF D!Consumers, P!Consumers, D!Returned, P!Returned
  <2>3. D!Unlink(w) <=> P!Unlink(w)
    BY <2>2 DEF D!Unlink, P!Unlink
  <2> QED
    BY <2>1, <2>3 DEF D!Break, P!Break, D!Die, P!Die, D!Cut, P!Cut, D!NoticeCut, P!NoticeCut,
                      D!Goto, P!Goto
<1> QED
  BY <1>1, <1>2, <1>3

LEMMA SameInit == D!Init <=> P!Init
  BY DEF D!Init, P!Init

-----------------------------------------------------------------------------
(* A step of Daq is one of the broker, or leaves it alone, ...              *)
LEMMA BrokerStep == [DaqNext]_daqVars => [Next]_vars
<1> SUFFICES ASSUME [DaqNext]_daqVars PROVE [Next]_vars
  OBVIOUS
<1>1. ASSUME NEW s \in Sources, BrokerSends(s) PROVE [Next]_vars
  BY <1>1 DEF BrokerSends, Next
<1>2. CASE BrokerWorks
  BY <1>2 DEF BrokerWorks, Next
<1>3. ASSUME NEW w \in Writers, WriterWorks(w) PROVE [Next]_vars
  BY <1>3 DEF WriterWorks
<1>4. CASE UNCHANGED daqVars
  BY <1>4 DEF daqVars
<1> QED
  BY <1>1, <1>2, <1>3, <1>4 DEF DaqNext

(* ... and one of the queue and its writers, or leaves them alone.          *)
LEMMA DeliveryStep == IInv /\ [DaqNext]_daqVars => [P!Next]_(P!vars)
<1> SUFFICES ASSUME IInv, [DaqNext]_daqVars PROVE [P!Next]_(P!vars)
  OBVIOUS
<1>1. ASSUME NEW s \in Sources, BrokerSends(s) PROVE [P!Next]_(P!vars)
  <2>1. Message(s) \in sent' /\ sent' \subseteq Messages
    <3>1. Message(s) \in sent'
      BY <1>1 DEF BrokerSends, Send, SendFailsLate
    <3>2. TypeOK'
      BY BrokerStep, TypeStep
    <3> QED
      BY <3>1, <3>2 DEF TypeOK
  <2>2. PICK file \in BOOLEAN : P!Publish(Message(s), file)
    BY <1>1, SamePublish DEF BrokerSends
  <2> QED
    BY <2>1, <2>2 DEF P!Next
<1>2. CASE BrokerWorks
  <2>1. UNCHANGED sent
    BY <1>2 DEF BrokerWorks, vars, files, history, Receive, Close, CreateCounter, WriteZero,
                CounterUnreadable, TakeNumber, WriteRun, WriteAcq, ReadNumber, Validate,
                Reject, Connect, Disconnect, ScanUnreadable, Reply, Abort,
                OpenAcqFile, SaveAcqFile, OpenScan, SaveScan
  <2> QED
    BY <1>2, <2>1 DEF BrokerWorks, delivery, P!vars
<1>3. ASSUME NEW w \in Writers, WriterWorks(w) PROVE [P!Next]_(P!vars)
  <2>1. P!Join(w) \/ P!Serve(w) \/ P!Break(w)
    BY <1>3, SameWriter DEF WriterWorks
  <2> QED
    BY <2>1 DEF P!Next
<1>4. CASE UNCHANGED daqVars
  BY <1>4 DEF daqVars, vars, history, delivery, P!vars
<1> QED
  BY <1>1, <1>2, <1>3, <1>4 DEF DaqNext

(* A writer changes no other file than that of the request it works on.     *)
LEMMA DiskStep ==
  P!TypeOK /\ P!HeldOK /\ [P!Next]_(P!vars) =>
    \A f \in OutputFiles :
      disk'[f] # disk[f] => disk'[f].by \in sent /\ OutputFile[disk'[f].by] = f
<1> SUFFICES ASSUME P!TypeOK, P!HeldOK, [P!Next]_(P!vars), NEW f \in OutputFiles,
                    disk'[f] # disk[f]
             PROVE  disk'[f].by \in sent /\ OutputFile[disk'[f].by] = f
  OBVIOUS
<1>1. PICK w \in Writers : P!OpenFile(w) \/ P!FillFile(w)
  BY DEF P!Next, P!vars, P!Publish, P!Join, P!Declare, P!Bind, P!Consume, P!QueueGone,
         P!Serve, P!Deliver, P!StartThread, P!SkipFile, P!Succeed, P!Fail, P!Confirm, P!Reject,
         P!Settle, P!UpdateStatus, P!Break, P!Die, P!Cut, P!NoticeCut
<1>2. pc[w] \in P!Working
  BY <1>1 DEF P!OpenFile, P!FillFile, P!Working, P!Owning, P!Thread
<1>3. held[w] \in sent
  BY <1>2 DEF P!HeldOK
<1>4. disk'[f] = disk[f] \/ (f = OutputFile[held[w]] /\ disk'[f].by = held[w])
  BY <1>1 DEF P!OpenFile, P!FillFile, P!TypeOK
<1> QED
  BY <1>3, <1>4

LEMMA FilesStep == DaqInv /\ [DaqNext]_daqVars => FilesOK'
<1> SUFFICES ASSUME DaqInv, [DaqNext]_daqVars PROVE FilesOK'
  OBVIOUS
<1>1. [P!Next]_(P!vars) /\ P!TypeOK /\ P!HeldOK /\ FilesOK
  BY DeliveryStep DEF DaqInv, P!Core
<1>2. sent \subseteq sent'
  BY BrokerStep, SentFrame DEF Send, SendFailsLate
<1> QED
  BY <1>1, <1>2, DiskStep DEF FilesOK

LEMMA RecordStep == IInv /\ RecordOK /\ [Next]_vars => RecordOK'
<1> SUFFICES ASSUME IInv, RecordOK, [Next]_vars PROVE RecordOK'
  OBVIOUS
<1>0. TypeOK /\ JobOK /\ PlaceOK /\ FreshOK /\ SentOK
  BY DEF IInv
<1>1. dirs \subseteq dirs'
  BY DirsFrame DEF Validate
<1>2. CASE OpenAcqFile \/ SaveAcqFile
  <2>1. UNCHANGED sent /\ Dir \in Dirs /\ acq \in Steps /\ uniq \in Nat
    BY <1>0, <1>2, DirType DEF OpenAcqFile, SaveAcqFile, history, JobOK, Placed, Placing, TypeOK
  <2>2. \A m \in sent : m.uniq <= uniq
    BY <1>0, <1>2, <2>1 DEF OpenAcqFile, SaveAcqFile, FreshOK, UsedUpTo, TypeOK, Messages
  <2>3. \A d \in Dirs, i \in Steps :
          acqFile'[d][i] = acqFile[d][i] \/ acqFile'[d][i] = uniq \/ acqFile'[d][i] \notin Nat
    <3>1. PICK e \in Dirs, k \in Steps, v \in {Blank, uniq} :
            acqFile' = [acqFile EXCEPT ![e][k] = v]
      BY <1>2, <2>1 DEF OpenAcqFile, SaveAcqFile
    <3>2. DOMAIN acqFile = Dirs /\ \A d \in Dirs : DOMAIN acqFile[d] = Steps
      BY <1>0 DEF TypeOK
    <3> QED
      BY <3>1, <3>2, BrokerAssumption
  <2>4. \A m \in sent : m.dir \in Dirs /\ m.acq \in Steps /\ m.uniq \in Nat
    BY <1>0 DEF TypeOK, Messages, Steps
  <2>5. Steps \subseteq Nat
    BY DEF Steps
  <2> QED
    BY <1>1, <2>1, <2>2, <2>3, <2>4, <2>5 DEF RecordOK
<1>3. ASSUME UNCHANGED <<acqFile, sent>> PROVE RecordOK'
  BY <1>1, <1>3 DEF RecordOK
<1>4. ASSUME NEW s \in Sources, Send(s) \/ SendFailsLate(s) PROVE RecordOK'
  <2>1. sent' = sent \cup {Message(s)} /\ UNCHANGED <<acqFile, dirs>> /\ step = "send"
    BY <1>4 DEF Send, SendFailsLate, files
  <2>2. Dir \in dirs /\ acqFile[Dir][acq] = uniq
    BY <1>0, <2>1 DEF JobOK, PlaceOK, Placed, Recorded
  <2>3. Message(s).dir = Dir /\ Message(s).acq = acq /\ Message(s).uniq = uniq
    BY DEF Message
  <2>4. uniq \in Nat
    BY <1>0, <2>1 DEF TypeOK, JobOK, Recorded, Placed
  <2> QED
    BY <2>1, <2>2, <2>3, <2>4 DEF RecordOK
<1>5. \/ OpenAcqFile \/ SaveAcqFile \/ UNCHANGED <<acqFile, sent>>
      \/ \E s \in Sources : Send(s) \/ SendFailsLate(s)
  BY SentFrame, MetaFrame DEF OpenScan, SaveScan
<1> QED
  BY <1>2, <1>3, <1>4, <1>5

LEMMA DaqInvHolds == DaqSpec => []DaqInv
<1>1. DaqInit => DaqInv
  <2> SUFFICES ASSUME DaqInit PROVE DaqInv
    OBVIOUS
  <2>1. Init /\ P!Init
    BY SameInit DEF DaqInit
  <2>2. IInv
    BY <2>1, InitInv
  <2>3. P!Core /\ P!WholeOK
    BY <2>1, DeliveryAssumed, P!InitCore, P!InitWhole
  <2>4. FilesOK /\ RecordOK
    BY <2>1 DEF P!Init, Init, FilesOK, RecordOK
  <2> QED
    BY <2>2, <2>3, <2>4 DEF DaqInv
<1>2. DaqInv /\ [DaqNext]_daqVars => DaqInv'
  <2> SUFFICES ASSUME DaqInv, [DaqNext]_daqVars PROVE DaqInv'
    OBVIOUS
  <2>1. [Next]_vars /\ [P!Next]_(P!vars)
    BY BrokerStep, DeliveryStep DEF DaqInv
  <2>2. IInv'
    BY <2>1, InvStep DEF DaqInv
  <2>3. P!Core'
    BY <2>1, DeliveryAssumed, P!CoreStep DEF DaqInv
  <2>4. P!WholeOK'
    BY <2>1, DeliveryAssumed, P!WholeStep DEF DaqInv
  <2>5. FilesOK' /\ RecordOK'
    BY <2>1, FilesStep, RecordStep DEF DaqInv
  <2> QED
    BY <2>2, <2>3, <2>4, <2>5 DEF DaqInv
<1> QED
  BY <1>1, <1>2, PTL DEF DaqSpec

(* The files an "ok" answer named, but for those that no writer was asked   *)
(* to write, hold what was asked for when their requests are confirmed      *)
(* (save_scan_info and get_current_step_in_scan of the broker with          *)
(* process_request and confirm_request of the writers).                     *)
THEOREM FilesHoldTheirData == DaqSpec => []UndisputedFilesHoldTheirData
<1>1. DaqInv => UndisputedFilesHoldTheirData
  <2> SUFFICES ASSUME DaqInv, NEW a \in accepted, NEW s \in a.sources,
                      MessageOf(a, s) \notin fileless,
                      a.acq # 1 \/ FirstTry(a), Confirmed(MessageOf(a, s))
               PROVE  HoldsDataOf(MessageOf(a, s))
    BY DEF UndisputedFilesHoldTheirData
  <2> DEFINE m == MessageOf(a, s)
  <2>1. m \in sent /\ m.dir = a.dir /\ m.acq = a.acq /\ m.source = s /\ m.uniq = a.uniq
    BY DEF DaqInv, IInv, AcceptedIsRecorded, MessageOf
  <2>2. sent \subseteq Messages
    BY DEF DaqInv, IInv, TypeOK
  <2>3. \A q \in sent \ fileless : OutputFile[q] = OutputFile[m] => q = m
    <3> SUFFICES ASSUME NEW q \in sent \ fileless, OutputFile[q] = OutputFile[m] PROVE q = m
      OBVIOUS
    <3>1. q.dir = m.dir /\ q.acq = m.acq /\ q.source = m.source
      BY <2>1, <2>2 DEF OutputFile
    <3>2. q.uniq = m.uniq
      BY <2>1, <3>1 DEF DaqInv, IInv, OnlyFirstStepsRepeat, FirstTry
    <3> QED
      BY <2>1, <2>2, <3>1, <3>2 DEF Messages
  <2>4. P!OnlyOneFor(OutputFile[m])
    BY <2>1, <2>3 DEF P!OnlyOneFor, P!Outputs
  <2> QED
    BY <2>1, <2>4 DEF DaqInv, P!WholeOK, P!Whole, P!Outputs, Confirmed, HoldsDataOf
<1> QED
  BY <1>1, DaqInvHolds, PTL

(* Every file written belongs to a recorded request (make_directories and   *)
(* json_save come before the first send of retrieve_from_buffers).          *)
THEOREM WrittenRecorded == DaqSpec => []WrittenIsRecorded
<1>1. DaqInv => WrittenIsRecorded
  <2> SUFFICES ASSUME DaqInv, NEW f \in OutputFiles, disk[f].by # NoRequest
               PROVE  /\ f[1] \in dirs
                      /\ acqFile[f[1]][f[2]] \in {Blank} \cup Steps
                      /\ acqFile[f[1]][f[2]] \in Steps =>
                           acqFile[f[1]][f[2]] >= disk[f].by.uniq
    BY DEF WrittenIsRecorded
  <2>1. PICK m \in sent : m = disk[f].by /\ OutputFile[m] = f
    BY DEF DaqInv, FilesOK
  <2>2. m \in Messages
    BY DEF DaqInv, IInv, TypeOK
  <2>3. f[1] = m.dir /\ f[2] = m.acq /\ m.dir \in Dirs /\ m.acq \in Steps
    BY <2>1, <2>2 DEF OutputFile, Messages
  <2>4. acqFile[m.dir][m.acq] \in {Blank} \cup Steps
    BY <2>3 DEF DaqInv, IInv, TypeOK, SentOK
  <2> QED
    BY <2>1, <2>3, <2>4 DEF DaqInv, RecordOK
<1> QED
  BY <1>1, DaqInvHolds, PTL

-----------------------------------------------------------------------------
(* Together with the writers the broker does what it does alone: nothing    *)
(* that they do to the queue or to the output files reaches the bookkeeping *)
(* of retrieve_from_buffers, get_next_run_number or close_pgroup_writing.   *)
LEMMA BrokerAlone == DaqSpec => Spec
<1>1. DaqInit => Init
  BY DEF DaqInit
<1> QED
  BY <1>1, BrokerStep, PTL DEF DaqSpec, Spec

(* So the run numbers, unique numbers and steps that clients are told are   *)
(* those of the ledger, whatever the writers do.                            *)
THEOREM KeepsTheLedger == DaqSpec => LedgerSpec
  BY BrokerAlone, ImplementsLedger, PTL

(* The write requests are delivered as Delivery says, whatever the broker   *)
(* sends and in whichever order its requests fail.                          *)
THEOREM DeliversAsDelivery == DaqSpec => P!Spec
<1>1. DaqInit => P!Init
  BY SameInit DEF DaqInit
<1>2. IInv /\ [DaqNext]_daqVars => [P!Next]_(P!vars)
  BY DeliveryStep
<1>3. DaqInv => IInv
  BY DEF DaqInv
<1> QED
  BY <1>1, <1>2, <1>3, DaqInvHolds, PTL DEF DaqSpec, P!Spec

(* So each write request of an acquisition waits once, is with one writer   *)
(* or is settled or lost, and its verdict is final.                         *)
THEOREM RequestsSettleOnce ==
  DaqSpec => P!WriteRequestsSpec /\ P!V!SettledForGood /\ []P!InOnePlace
  BY DeliversAsDelivery, DeliveryAssumed, P!ImplementsWriteRequests, P!VerdictForGood,
     P!OnePlace, PTL

(* Closing a pgroup does not stop the writers (ClosedIsNotWritten fails),   *)
(* but what they still write is only what was sent before: nothing is sent  *)
(* any more, and a file only changes for a request for that very file.      *)
OnlyEarlierRequests ==
  [][closed =>
       /\ closed' /\ UNCHANGED <<dirs, acqFile, scan, sent, accepted>>
       /\ \A f \in OutputFiles : disk'[f] # disk[f] =>
            disk'[f].by \in sent /\ OutputFile[disk'[f].by] = f]_daqVars

(* After close_pgroup_writing the writers finish the requests that          *)
(* retrieve_from_buffers had sent, and no others.                           *)
THEOREM AfterClosing == DaqSpec => OnlyEarlierRequests
<1>1. DaqInv /\ [DaqNext]_daqVars =>
        [closed =>
           /\ closed' /\ UNCHANGED <<dirs, acqFile, scan, sent, accepted>>
           /\ \A f \in OutputFiles : disk'[f] # disk[f] =>
                disk'[f].by \in sent /\ OutputFile[disk'[f].by] = f]_daqVars
  <2> SUFFICES ASSUME DaqInv, [DaqNext]_daqVars, closed
               PROVE  /\ closed' /\ UNCHANGED <<dirs, acqFile, scan, sent, accepted>>
                      /\ \A f \in OutputFiles : disk'[f] # disk[f] =>
                           disk'[f].by \in sent /\ OutputFile[disk'[f].by] = f
    OBVIOUS
  <2>1. IInv /\ P!TypeOK /\ P!HeldOK
    BY DEF DaqInv, P!Core
  <2>2. [Next]_vars /\ [P!Next]_(P!vars)
    BY <2>1, BrokerStep, DeliveryStep
  <2> QED
    BY <2>1, <2>2, ClosedStep, DiskStep
<1> QED
  BY <1>1, DaqInvHolds, PTL DEF DaqSpec, OnlyEarlierRequests

=============================================================================
