---------------------------- MODULE BrokerProofs ----------------------------
(***************************************************************************)
(* The theorems about Broker.  Each part of the invariant IInv of          *)
(* BrokerInv has a lemma that every step preserves it; the frame lemmas    *)
(* say which actions can touch which variables, so that a part is only     *)
(* proved for the steps that can disturb it.                               *)
(***************************************************************************)
EXTENDS BrokerInv, TLAPS, FiniteSetTheorems

(* The directory of a retrieve request is one of the directories.           *)
LEMMA DirType == TypeOK /\ job \in Retrieves => Dir \in Dirs
  BY DEF TypeOK, Dir, Dirs, Retrieves

(* Only four actions write into meta/, ...                                  *)
LEMMA MetaFrame ==
  [Next]_vars => \/ UNCHANGED <<acqFile, scanFile, scan>>
                 \/ OpenAcqFile \/ SaveAcqFile \/ OpenScan \/ SaveScan
  BY DEF Next, vars, files, history, Receive, Close, CreateCounter, WriteZero,
         CounterUnreadable, TakeNumber, WriteRun, WriteAcq, ReadNumber, Validate,
         Reject, Connect, Disconnect, Send, SendFailsLate, ScanUnreadable, Reply,
         Abort

(* ... two hand out write requests, ...                                     *)
LEMMA SentFrame ==
  [Next]_vars => \/ UNCHANGED sent
                 \/ \E s \in Sources : Send(s) \/ SendFailsLate(s)
  BY DEF Next, vars, files, history, Receive, Close, CreateCounter, WriteZero,
         CounterUnreadable, TakeNumber, WriteRun, WriteAcq, ReadNumber, Validate,
         Reject, Connect, Disconnect, ScanUnreadable, Reply, Abort,
         OpenAcqFile, SaveAcqFile, OpenScan, SaveScan

(* ... one answers a retrieve request, and one creates directories.         *)
LEMMA AcceptedFrame == [Next]_vars => UNCHANGED accepted \/ Reply
  BY DEF Next, vars, files, history, Receive, Close, CreateCounter, WriteZero,
         CounterUnreadable, TakeNumber, WriteRun, WriteAcq, ReadNumber, Validate,
         Reject, Connect, Disconnect, ScanUnreadable, Send, SendFailsLate, Abort,
         OpenAcqFile, SaveAcqFile, OpenScan, SaveScan

(* A directory is only created by Validate.                                 *)
LEMMA DirsFrame == [Next]_vars => UNCHANGED dirs \/ Validate
  BY DEF Next, vars, files, history, Receive, Close, CreateCounter, WriteZero,
         CounterUnreadable, TakeNumber, WriteRun, WriteAcq, ReadNumber, Reply,
         Reject, Connect, Disconnect, ScanUnreadable, Send, SendFailsLate, Abort,
         OpenAcqFile, SaveAcqFile, OpenScan, SaveScan

-----------------------------------------------------------------------------
(* The number of files in meta/ is the next free step, or 1.                *)
LEMMA NextStepIsFree ==
  ASSUME TypeOK, MetaOK, NEW d \in Dirs
  PROVE  /\ NextStep(d) \in Nat \ {0}
         /\ \A n \in Steps : n < NextStep(d) => acqFile[d][n] # Absent
         /\ \A n \in Steps : n > NextStep(d) => acqFile[d][n] = Absent
         /\ scanFile[d] = "absent" => NextStep(d) = 1
         /\ scanFile[d] # "absent" /\ NextStep(d) \in Steps
              => acqFile[d][NextStep(d)] = Absent
<1>1. PICK k \in 0..MaxAcq :
        /\ \A n \in Steps : acqFile[d][n] # Absent <=> n <= k
        /\ scanFile[d] = "absent" => k <= 1
        /\ scanFile[d] # "absent" => k >= 1
  BY DEF MetaOK
<1>2. {n \in Steps : acqFile[d][n] # Absent} = 1..k
  BY <1>1, BrokerAssumption DEF Steps
<1>3. Cardinality(1..k) = k
  BY <1>1, FS_Interval, BrokerAssumption
<1>4. FilesIn(d) = k + (IF scanFile[d] = "absent" THEN 0 ELSE 1)
  BY <1>2, <1>3 DEF FilesIn
<1>5. NextStep(d) = IF scanFile[d] = "absent" THEN 1 ELSE k + 1
  BY <1>1, <1>4, BrokerAssumption DEF NextStep
<1> QED
  BY <1>1, <1>5, BrokerAssumption DEF Steps

-----------------------------------------------------------------------------
(* Every step keeps the types: counters stay below their bounds.            *)
LEMMA TypeStep == IInv /\ [Next]_vars => TypeOK'
<1> SUFFICES ASSUME IInv, [Next]_vars PROVE TypeOK'
  OBVIOUS
<1> USE BrokerAssumption DEF TypeOK, files, history, Goto, Counters
<1>0. TypeOK /\ JobOK /\ BoundOK /\ MetaOK
  BY DEF IInv
<1>1. step \in {"validate", "save", "saving"} \cup Recorded => job \in Retrieves /\ Dir \in Dirs
  BY <1>0, DirType DEF JobOK, Placed, Placing, Recorded
<1>2. ASSUME NEW j \in Jobs, Receive(j) PROVE TypeOK'
  BY <1>0, <1>2 DEF Receive
<1>3. CASE Close
  BY <1>0, <1>3 DEF Close, handler
<1>4. CASE CreateCounter \/ WriteZero
  <2>1. CASE CreateCounter
    BY <1>0, <2>1 DEF CreateCounter
  <2>2. CASE WriteZero
    BY <1>0, <2>2 DEF WriteZero
  <2> QED
    BY <1>4, <2>1, <2>2
<1>5. CASE CounterUnreadable \/ Reject \/ ScanUnreadable \/ Abort
  BY <1>0, <1>5 DEF CounterUnreadable, Reject, ScanUnreadable, Abort, Return, Runs, Steps
<1>6. CASE TakeNumber
  <2>1. last[ctr] + 1 <= IF ctr = "LAST_RUN" THEN MaxRun ELSE MaxAcq
    BY <1>0, <1>6 DEF TakeNumber, BoundOK, JobOK, Placed, Placing, Numbering, BelowBound
  <2> QED
    BY <1>0, <1>6, <2>1 DEF TakeNumber, Runs, Steps
<1>7. CASE WriteRun
  <2>1. last' \in [Counters -> Nat \cup {Absent, Blank}] /\ granted' \in Seq(Runs)
    BY <1>0, <1>7 DEF WriteRun, Runs
  <2>2. CASE job.kind = "advance"
    BY <1>0, <1>7, <2>1, <2>2 DEF WriteRun, Return, Runs, Steps
  <2>3. CASE job.kind # "advance"
    BY <1>0, <1>7, <2>1, <2>3 DEF WriteRun
  <2> QED
    BY <2>2, <2>3
<1>8. CASE WriteAcq
  BY <1>0, <1>8 DEF WriteAcq
<1>9. CASE ReadNumber
  <2>1. job \in Retrieves /\ ~Increments => job.run \in Runs
    BY DEF Retrieves, Increments
  <2>2. job \in Jobs /\ job.kind = "retrieve" => job \in Retrieves
    BY DEF Jobs, Retrieves, Numberings
  <2>3. job \in Jobs
    BY <1>0, <1>9 DEF ReadNumber, JobOK
  <2>4. CASE Return
    BY <1>0, <1>9, <2>4 DEF ReadNumber, Return, Runs, Steps
  <2>5. CASE ~Return
    BY <1>0, <1>9, <2>1, <2>2, <2>3, <2>5 DEF ReadNumber
  <2> QED
    BY <2>4, <2>5
<1>10. CASE Validate
  <2>1. NextStep(Dir) \in Steps
    BY <1>0, <1>1, <1>10, NextStepIsFree DEF Validate, Steps
  <2> QED
    BY <1>0, <1>1, <1>10, <2>1 DEF Validate
<1>11. CASE OpenAcqFile
  BY <1>0, <1>1, <1>11 DEF OpenAcqFile
<1>12. CASE SaveAcqFile
  <2>1. uniq \in Steps
    BY <1>0, <1>12 DEF SaveAcqFile, IInv, FreshOK, Steps
  <2> QED
    BY <1>0, <1>1, <1>12, <2>1 DEF SaveAcqFile
<1>13. CASE Connect
  BY <1>0, <1>1, <1>13 DEF Connect, Recorded, Retrieves
<1>14. CASE Disconnect
  BY <1>0, <1>14 DEF Disconnect
<1>15. step \in Recorded => uniq \in Steps
  BY <1>0, <1>1 DEF IInv, PlaceOK, Recorded
<1>16. ASSUME NEW s \in Sources, Send(s) \/ SendFailsLate(s) PROVE TypeOK'
  <2>1. Message(s) \in Messages
    BY <1>0, <1>1, <1>15, <1>16 DEF Send, SendFailsLate, Message, Messages, Recorded
  <2>2. CASE Send(s)
    BY <1>0, <2>1, <2>2 DEF Send
  <2>3. CASE SendFailsLate(s)
    BY <1>0, <2>1, <2>3 DEF SendFailsLate, Return, Runs, Steps
  <2> QED
    BY <1>16, <2>2, <2>3
<1>17. CASE OpenScan
  BY <1>0, <1>1, <1>17 DEF OpenScan, Recorded
<1>18. CASE SaveScan
  <2>1. [acq |-> acq, uniq |-> uniq] \in Entries
    BY <1>0, <1>15, <1>18 DEF SaveScan, Entries, Recorded
  <2> QED
    BY <1>0, <1>1, <1>18, <2>1 DEF SaveScan, Recorded
<1>19. CASE Reply
  <2>1. Answer \in Answers
    BY <1>0, <1>1, <1>15, <1>19 DEF Reply, Answer, Answers, Recorded, Retrieves
  <2> QED
    BY <1>0, <1>19, <2>1 DEF Reply, Return, Runs, Steps
<1>20. CASE UNCHANGED vars
  BY <1>0, <1>20 DEF vars, handler
<1> QED
  BY <1>2, <1>3, <1>4, <1>5, <1>6, <1>7, <1>8, <1>9, <1>10, <1>11, <1>12, <1>13,
     <1>14, <1>16, <1>17, <1>18, <1>19, <1>20 DEF Next

-----------------------------------------------------------------------------
(* Where the handler is decides what it is working on.                      *)
LEMMA JobStep == IInv /\ [Next]_vars => JobOK'
<1> SUFFICES ASSUME IInv, [Next]_vars PROVE JobOK'
  OBVIOUS
<1> USE BrokerAssumption DEF JobOK, Increments, Placed, Placing, Numbering, Recorded, Dir,
        files, history, Goto
<1>0. TypeOK /\ JobOK
  BY DEF IInv
<1>1. ASSUME NEW j \in Jobs, Receive(j) PROVE JobOK'
  BY <1>0, <1>1 DEF Receive
<1>2. CASE Close
  BY <1>0, <1>2 DEF Close, handler
<1>3. CASE CreateCounter \/ WriteZero \/ TakeNumber
  BY <1>0, <1>3 DEF CreateCounter, WriteZero, TakeNumber
<1>4. CASE CounterUnreadable \/ Reject \/ ScanUnreadable \/ Abort \/ Reply
  BY <1>0, <1>4 DEF CounterUnreadable, Reject, ScanUnreadable, Abort, Reply, Return
<1>5. \A j \in Jobs : j.kind = "retrieve" => j \in Retrieves
  BY DEF Jobs, Retrieves, Numberings
<1>6. \A j \in Jobs : j.kind \in {"retrieve", "advance", "current"}
  BY DEF Jobs, Retrieves, Numberings
<1>7. CASE WriteRun
  <2>1. CASE job.kind = "advance"
    BY <1>0, <1>7, <2>1 DEF WriteRun, Return
  <2>2. CASE job.kind # "advance"
    <3>1. job.kind = "retrieve"
      BY <1>0, <1>6, <1>7, <2>2 DEF WriteRun, TypeOK, Increments
    <3> QED
      BY <1>0, <1>5, <1>7, <2>2, <3>1 DEF WriteRun, TypeOK
  <2> QED
    BY <2>1, <2>2
<1>8. CASE WriteAcq
  BY <1>0, <1>8 DEF WriteAcq
<1>9. CASE ReadNumber
  BY <1>0, <1>5, <1>9 DEF ReadNumber, Return, Increments, TypeOK, Counters
<1>10. CASE Validate
  BY <1>0, <1>10 DEF Validate, MayWrite
<1>11. CASE OpenAcqFile \/ SaveAcqFile
  BY <1>0, <1>11 DEF OpenAcqFile, SaveAcqFile
<1>12. CASE Connect \/ Disconnect
  BY <1>0, <1>12 DEF Connect, Disconnect
<1>15. CASE OpenScan \/ SaveScan
  BY <1>0, <1>15 DEF OpenScan, SaveScan
<1>13. ASSUME NEW s \in Sources, Send(s) \/ SendFailsLate(s) PROVE JobOK'
  BY <1>0, <1>13 DEF Send, SendFailsLate, Return
<1>14. CASE UNCHANGED vars
  BY <1>0, <1>14 DEF vars, handler
<1> QED
  BY <1>1, <1>2, <1>3, <1>4, <1>7, <1>8, <1>9, <1>10, <1>11, <1>12, <1>13, <1>14,
     <1>15 DEF Next

(* A counter stays below its bound until the handler takes a number.        *)
LEMMA BoundStep == IInv /\ [Next]_vars => BoundOK'
<1> SUFFICES ASSUME IInv, [Next]_vars PROVE BoundOK'
  OBVIOUS
<1> USE BrokerAssumption DEF BoundOK, BelowBound, Increments, files, history, Goto
<1>0. TypeOK /\ JobOK /\ BoundOK
  BY DEF IInv
<1>1. ASSUME NEW j \in Jobs, Receive(j) PROVE BoundOK'
  BY <1>0, <1>1 DEF Receive, JobOK, Retrieves
<1>2. CASE Close
  BY <1>0, <1>2 DEF Close, handler
<1>3. CASE CreateCounter
  BY <1>0, <1>3 DEF CreateCounter, TypeOK, Counters
<1>4. CASE WriteZero
  BY <1>0, <1>4 DEF WriteZero, TypeOK, Counters
<1>5. CASE CounterUnreadable \/ Reject \/ ScanUnreadable \/ Abort \/ Reply
  BY <1>0, <1>5 DEF CounterUnreadable, Reject, ScanUnreadable, Abort, Reply, Return,
     Jobs, Retrieves, Numberings
<1>6. CASE TakeNumber
  BY <1>0, <1>6 DEF TakeNumber, TypeOK, Counters
<1>7. CASE WriteRun
  BY <1>0, <1>7 DEF WriteRun, TypeOK, Counters, Return, Jobs, Retrieves, Numberings
<1>8. CASE WriteAcq \/ OpenAcqFile \/ SaveAcqFile \/ Connect \/ Disconnect
           \/ OpenScan \/ SaveScan
  BY <1>0, <1>8 DEF WriteAcq, OpenAcqFile, SaveAcqFile, Connect, Disconnect,
     OpenScan, SaveScan
<1>9. CASE ReadNumber
  BY <1>0, <1>9 DEF ReadNumber, Return, Jobs, Retrieves, Numberings
<1>10. CASE Validate
  BY <1>0, <1>10 DEF Validate
<1>11. ASSUME NEW s \in Sources, Send(s) \/ SendFailsLate(s) PROVE BoundOK'
  BY <1>0, <1>11 DEF Send, SendFailsLate, Return
<1>12. CASE UNCHANGED vars
  BY <1>0, <1>12 DEF vars, handler
<1> QED
  BY <1>1, <1>2, <1>3, <1>4, <1>5, <1>6, <1>7, <1>8, <1>9, <1>10, <1>11, <1>12
     DEF Next

-----------------------------------------------------------------------------
(* The steps 1..k of a directory: only OpenAcqFile adds one, the next.      *)
LEMMA MetaStep == IInv /\ [Next]_vars => MetaOK'
<1> SUFFICES ASSUME IInv, [Next]_vars PROVE MetaOK'
  OBVIOUS
<1> USE BrokerAssumption
<1>0. TypeOK /\ JobOK /\ MetaOK /\ PlaceOK
  BY DEF IInv
<1>1. CASE UNCHANGED <<acqFile, scanFile, scan>>
  BY <1>0, <1>1 DEF MetaOK
<1>2. step \in {"save", "saving", "scan", "scanning"} => Dir \in Dirs
  BY <1>0, DirType DEF JobOK, Placed, Placing, Recorded
<1>3. CASE OpenAcqFile
  <2>1. Dir \in Dirs /\ UNCHANGED <<scanFile, scan>>
    BY <1>2, <1>3 DEF OpenAcqFile
  <2>2. PICK k \in 0..MaxAcq :
          /\ \A n \in Steps : acqFile[Dir][n] # Absent <=> n <= k
          /\ scanFile[Dir] = "absent" => k <= 1
          /\ scanFile[Dir] # "absent" => k >= 1
    BY <1>0, <2>1 DEF MetaOK
  <2>3. \A n \in Steps : acqFile'[Dir][n] # Absent <=> n <= acq
    BY <1>0, <1>3, <2>1 DEF OpenAcqFile, TypeOK, PlaceOK, Placed, Placing, Steps
  <2>4. \A d \in Dirs : d # Dir => acqFile'[d] = acqFile[d]
    BY <1>0, <1>3 DEF OpenAcqFile, TypeOK
  <2>5. scanFile[Dir] = "absent" => acq = 1
    BY <1>0, <1>3 DEF OpenAcqFile, PlaceOK, Placed, Placing
  <2>6. acq \in 0..MaxAcq /\ acq >= 1
    BY <1>0 DEF TypeOK, Steps
  <2> QED
    BY <1>0, <2>1, <2>3, <2>4, <2>5, <2>6 DEF MetaOK
<1>4. CASE SaveAcqFile
  <2>1. uniq \in Nat
    BY <1>0 DEF TypeOK
  <2>2. \A d \in Dirs, n \in Steps : acqFile'[d][n] # Absent <=> acqFile[d][n] # Absent
    BY <1>0, <1>4, <2>1 DEF SaveAcqFile, TypeOK, PlaceOK
  <2> QED
    BY <1>0, <1>4, <2>2 DEF SaveAcqFile, MetaOK
<1>5. step \in {"scan", "scanning"} => acqFile[Dir][acq] # Absent /\ acq \in Steps
  BY <1>0 DEF PlaceOK, Recorded, TypeOK
<1>6. CASE OpenScan \/ SaveScan
  <2>1. Dir \in Dirs /\ UNCHANGED acqFile
    BY <1>2, <1>6 DEF OpenScan, SaveScan
  <2>2. /\ scanFile'[Dir] # "absent"
        /\ \A d \in Dirs : d # Dir => scanFile'[d] = scanFile[d] /\ scan'[d] = scan[d]
    BY <1>0, <1>6, <2>1 DEF OpenScan, SaveScan, TypeOK
  <2>3. PICK k \in 0..MaxAcq : \A n \in Steps : acqFile[Dir][n] # Absent <=> n <= k
    BY <1>0, <2>1 DEF MetaOK
  <2>4. k >= 1
    BY <1>5, <1>6, <2>3 DEF OpenScan, SaveScan, Steps
  <2> QED
    BY <1>0, <2>1, <2>2, <2>3, <2>4 DEF MetaOK
<1> QED
  BY <1>1, <1>3, <1>4, <1>6, MetaFrame

(* The handler's step is the next free one of its directory.                *)
LEMMA PlaceStep == IInv /\ [Next]_vars => PlaceOK'
<1> SUFFICES ASSUME IInv, [Next]_vars PROVE PlaceOK'
  OBVIOUS
<1> USE BrokerAssumption DEF PlaceOK, Placed, Placing, Numbering, Recorded, Dir,
        files, history, Goto
<1>0. TypeOK /\ JobOK /\ MetaOK /\ PlaceOK /\ FreshOK
  BY DEF IInv
<1>1. ASSUME NEW j \in Jobs, Receive(j) PROVE PlaceOK'
  BY <1>0, <1>1 DEF Receive, JobOK
<1>2. CASE Close
  BY <1>0, <1>2 DEF Close, handler
<1>3. CASE CreateCounter \/ WriteZero
  BY <1>0, <1>3 DEF CreateCounter, WriteZero
<1>4. CASE CounterUnreadable \/ Reject \/ ScanUnreadable \/ Abort \/ Reply
  BY <1>0, <1>4 DEF CounterUnreadable, Reject, ScanUnreadable, Abort, Reply, Return
<1>5. CASE TakeNumber
  BY <1>0, <1>5 DEF TakeNumber, TypeOK, Counters
<1>6. CASE WriteRun
  BY <1>0, <1>6 DEF WriteRun, Return
<1>7. CASE WriteAcq
  BY <1>0, <1>7 DEF WriteAcq
<1>8. CASE ReadNumber
  BY <1>0, <1>8 DEF ReadNumber, Return, Increments, TypeOK, Counters
<1>9. CASE Validate
  <2>1. Dir \in Dirs
    BY <1>0, <1>9, DirType DEF Validate, JobOK
  <2>2. /\ NextStep(Dir) \in Steps
        /\ \A n \in Steps : n < NextStep(Dir) => acqFile[Dir][n] # Absent
        /\ \A n \in Steps : n > NextStep(Dir) => acqFile[Dir][n] = Absent
        /\ scanFile[Dir] = "absent" => NextStep(Dir) = 1
        /\ scanFile[Dir] # "absent" => acqFile[Dir][NextStep(Dir)] = Absent
    BY <1>0, <1>9, <2>1, NextStepIsFree DEF Validate, Steps
  <2>3. UNCHANGED <<acqFile, scanFile, run, job>> /\ acq' = NextStep(Dir)
        /\ step' = "counter"
    BY <1>9 DEF Validate
  <2> QED
    BY <2>2, <2>3
<1>10. CASE OpenAcqFile
  <2>1. Dir \in Dirs /\ acq \in Steps
    BY <1>0, <1>10, DirType DEF OpenAcqFile, JobOK, TypeOK
  <2> QED
    BY <1>0, <1>10, <2>1 DEF OpenAcqFile, TypeOK, Steps
<1>11. CASE SaveAcqFile
  <2>1. Dir \in Dirs /\ acq \in Steps
    BY <1>0, <1>11, DirType DEF SaveAcqFile, JobOK, TypeOK
  <2> QED
    BY <1>0, <1>11, <2>1 DEF SaveAcqFile, TypeOK, Steps
<1>12. CASE Connect \/ Disconnect
  BY <1>0, <1>12 DEF Connect, Disconnect
<1>13. ASSUME NEW s \in Sources, Send(s) \/ SendFailsLate(s) PROVE PlaceOK'
  BY <1>0, <1>13 DEF Send, SendFailsLate, Return
<1>14. CASE OpenScan
  BY <1>0, <1>14, DirType DEF OpenScan, TypeOK, JobOK
<1>15. CASE SaveScan
  BY <1>0, <1>15, DirType DEF SaveScan, TypeOK, JobOK
<1>16. CASE UNCHANGED vars
  BY <1>0, <1>16 DEF vars, handler
<1> QED
  BY <1>1, <1>2, <1>3, <1>4, <1>5, <1>6, <1>7, <1>8, <1>9, <1>10, <1>11, <1>12,
     <1>13, <1>14, <1>15, <1>16 DEF Next

-----------------------------------------------------------------------------
(* The unique number the handler holds has not been used before.            *)
LEMMA UsedGrows ==
  ASSUME TypeOK, NEW m \in Nat, NEW n \in Nat, m <= n, UsedUpTo(m)
  PROVE  UsedUpTo(n)
  BY DEF UsedUpTo, TypeOK, Messages, Steps

(* The number the handler took is above all that are in use.                *)
LEMMA FreshStep == IInv /\ [Next]_vars => FreshOK'
<1> SUFFICES ASSUME IInv, [Next]_vars PROVE FreshOK'
  OBVIOUS
<1> USE BrokerAssumption DEF FreshOK, Recorded, files, history, Goto
<1>0. TypeOK /\ JobOK /\ FreshOK
  BY DEF IInv
<1>1. UNCHANGED <<sent, acqFile>> => \A n \in Nat : UsedUpTo(n) => UsedUpTo(n)'
  BY DEF UsedUpTo
<1>2. ASSUME NEW j \in Jobs, Receive(j) PROVE FreshOK'
  BY <1>0, <1>1, <1>2 DEF Receive, JobOK
<1>3. CASE Close
  BY <1>0, <1>1, <1>3 DEF Close, handler
<1>4. CASE CreateCounter
  BY <1>0, <1>1, <1>4 DEF CreateCounter, TypeOK, Counters
<1>5. CASE WriteZero
  BY <1>0, <1>1, <1>5 DEF WriteZero, TypeOK, Counters
<1>6. CASE CounterUnreadable \/ Reject \/ ScanUnreadable \/ Abort \/ Reply
  <2>1. UNCHANGED <<last, sent, acqFile>> /\ step' = "idle"
    BY <1>6 DEF CounterUnreadable, Reject, ScanUnreadable, Abort, Reply, Return
  <2> QED
    BY <1>0, <1>1, <2>1 DEF TypeOK
<1>7. CASE TakeNumber
  <2>1. UNCHANGED <<sent, acqFile>>
    BY <1>7 DEF TakeNumber
  <2>2. CASE ctr = "LAST_RUN"
    BY <1>0, <1>1, <1>7, <2>1, <2>2 DEF TakeNumber, TypeOK, Counters
  <2>3. CASE ctr = "LAST_ARUN"
    <3>1. PICK n \in Nat : n = last["LAST_ARUN"]
      BY <1>7, <2>3 DEF TakeNumber
    <3>2. /\ last'["LAST_ARUN"] = Blank /\ step' = "bump" /\ ctr' = "LAST_ARUN"
          /\ uniq' = n + 1
      BY <1>0, <1>7, <2>3, <3>1 DEF TakeNumber, TypeOK
    <3>3. UsedUpTo(n)'
      BY <1>0, <1>1, <2>1, <3>1
    <3>4. uniq' - 1 = n /\ uniq' \in Nat \ {0}
      BY <3>1, <3>2
    <3> QED
      BY <3>2, <3>3, <3>4
  <2> QED
    BY <1>0, <2>2, <2>3 DEF TypeOK, Counters
<1>8. CASE WriteRun
  <2>1. /\ UNCHANGED <<sent, acqFile>>
        /\ last'["LAST_ARUN"] = last["LAST_ARUN"]
        /\ step' \in {"idle", "validate"}
    BY <1>0, <1>8 DEF WriteRun, TypeOK, Counters, Return
  <2> QED
    BY <1>0, <1>1, <2>1 DEF TypeOK
<1>9. CASE WriteAcq
  <2>1. UNCHANGED <<sent, acqFile>> /\ last'["LAST_ARUN"] = uniq /\ uniq' = uniq
        /\ step' = "save"
    BY <1>0, <1>9 DEF WriteAcq, TypeOK, Counters
  <2>2. uniq \in Nat \ {0} /\ UsedUpTo(uniq - 1)
    BY <1>0, <1>9 DEF WriteAcq
  <2>3. uniq - 1 \in Nat /\ uniq - 1 <= uniq
    BY <2>2
  <2>4. UsedUpTo(uniq)
    BY <1>0, <2>2, <2>3, UsedGrows
  <2>5. UsedUpTo(uniq)' /\ UsedUpTo(uniq - 1)'
    BY <2>1, <2>2, <2>4 DEF UsedUpTo
  <2> QED
    BY <2>1, <2>2, <2>5
<1>10. CASE ReadNumber
  <2>1. UNCHANGED <<last, sent, acqFile>> /\ step' \in {"idle", "validate"}
    BY <1>10 DEF ReadNumber, Return
  <2> QED
    BY <1>0, <1>1, <2>1 DEF TypeOK
<1>11. CASE Validate
  <2>1. UNCHANGED <<last, sent, acqFile>> /\ step' = "counter"
    BY <1>11 DEF Validate
  <2> QED
    BY <1>0, <1>1, <2>1 DEF TypeOK
<1>12. CASE OpenAcqFile
  <2>1. UNCHANGED <<last, sent, uniq>> /\ last["LAST_ARUN"] = uniq /\ step' = "saving"
    BY <1>0, <1>12 DEF OpenAcqFile
  <2>2. uniq \in Nat \ {0} /\ UsedUpTo(uniq - 1)
    BY <1>0, <1>12 DEF OpenAcqFile
  <2>3. \A d \in Dirs, i \in Steps : acqFile'[d][i] \in Nat => acqFile'[d][i] = acqFile[d][i]
    BY <1>0, <1>12 DEF OpenAcqFile, TypeOK
  <2>4. UsedUpTo(uniq - 1)'
    BY <2>1, <2>2, <2>3 DEF UsedUpTo
  <2>5. uniq - 1 \in Nat /\ uniq - 1 <= uniq
    BY <2>2
  <2>6. UsedUpTo(uniq)
    BY <1>0, <2>2, <2>5, UsedGrows
  <2>7. UsedUpTo(uniq)'
    BY <2>1, <2>3, <2>6 DEF UsedUpTo
  <2> QED
    BY <2>1, <2>2, <2>4, <2>7
<1>13. CASE SaveAcqFile
  <2>1. UNCHANGED <<last, sent, uniq>> /\ last["LAST_ARUN"] = uniq /\ step' = "connect"
    BY <1>0, <1>13 DEF SaveAcqFile
  <2>2. uniq \in Nat \ {0} /\ UsedUpTo(uniq - 1)
    BY <1>0, <1>13 DEF SaveAcqFile
  <2>3. uniq - 1 \in Nat /\ uniq - 1 <= uniq
    BY <2>2
  <2>4. UsedUpTo(uniq)
    BY <1>0, <2>2, <2>3, UsedGrows
  <2>5. \A d \in Dirs, i \in Steps : acqFile'[d][i] = acqFile[d][i] \/ acqFile'[d][i] = uniq
    BY <1>0, <1>13 DEF SaveAcqFile, TypeOK
  <2>6. UsedUpTo(uniq)'
    BY <2>1, <2>2, <2>4, <2>5 DEF UsedUpTo
  <2> QED
    BY <2>1, <2>2, <2>6
<1>14. CASE Connect \/ Disconnect \/ OpenScan \/ SaveScan
  <2>1. UNCHANGED <<last, sent, acqFile, uniq>> /\ step \in Recorded /\ step' \in Recorded
    BY <1>14 DEF Connect, Disconnect, OpenScan, SaveScan
  <2> QED
    BY <1>0, <1>1, <2>1 DEF TypeOK
<1>15. ASSUME NEW s \in Sources, Send(s) \/ SendFailsLate(s) PROVE FreshOK'
  <2>1. /\ UNCHANGED <<last, acqFile>> /\ sent' = sent \cup {Message(s)}
        /\ step = "send"
        /\ step' = "idle" \/ (step' = "send" /\ uniq' = uniq)
    BY <1>15 DEF Send, SendFailsLate, Return
  <2>2. PICK n \in Nat : n = uniq
    BY <1>0 DEF TypeOK
  <2>3. last["LAST_ARUN"] = n /\ UsedUpTo(n)
    BY <1>0, <2>1, <2>2
  <2>4. Message(s).uniq = n
    BY <2>2 DEF Message
  <2>5. UsedUpTo(n)'
    BY <2>1, <2>3, <2>4 DEF UsedUpTo
  <2> QED
    BY <2>1, <2>2, <2>3, <2>5
<1>16. CASE UNCHANGED vars
  BY <1>0, <1>1, <1>16 DEF vars, handler
<1> QED
  BY <1>2, <1>3, <1>4, <1>5, <1>6, <1>7, <1>8, <1>9, <1>10, <1>11, <1>12, <1>13,
     <1>14, <1>15, <1>16 DEF Next

-----------------------------------------------------------------------------
(* What the records of the model hold.                                      *)
LEMMA Fields ==
  ASSUME TypeOK
  PROVE  /\ \A m \in sent : m.dir \in Dirs /\ m.acq \in Steps /\ m.uniq \in Steps
         /\ \A a \in accepted : a.dir \in Dirs /\ a.acq \in Steps /\ a.uniq \in Steps
         /\ \A d \in Dirs : \A i \in DOMAIN scan[d] :
              scan[d][i].acq \in Steps /\ scan[d][i].uniq \in Steps
         /\ \A n \in Steps : n \in Nat /\ n # Absent /\ n # Blank
<1>1. \A d \in Dirs : scan[d] \in Seq(Entries)
  BY DEF TypeOK
<1>2. \A d \in Dirs : \A i \in DOMAIN scan[d] : scan[d][i] \in Entries
  BY <1>1
<1> QED
  BY <1>2, BrokerAssumption DEF TypeOK, Messages, Answers, Entries, Steps

(* A file in meta/ may be rewritten, but it is never removed.               *)
LEMMA FilesStay ==
  ASSUME IInv, [Next]_vars, NEW d \in Dirs, NEW n \in Steps, acqFile[d][n] # Absent
  PROVE  acqFile'[d][n] # Absent
<1>0. TypeOK /\ uniq # Absent
  BY BrokerAssumption DEF IInv, TypeOK
<1>1. CASE OpenAcqFile
  BY <1>0, <1>1, BrokerAssumption DEF OpenAcqFile, TypeOK
<1>2. CASE SaveAcqFile
  BY <1>0, <1>2 DEF SaveAcqFile, TypeOK
<1> QED
  BY <1>1, <1>2, MetaFrame DEF OpenScan, SaveScan

(* Requests are sent once their step is recorded, and name it.              *)
LEMMA SentStep == IInv /\ [Next]_vars => SentOK'
<1> SUFFICES ASSUME IInv, [Next]_vars PROVE SentOK'
  OBVIOUS
<1> USE DEF SentOK, Placing, Numbering, Recorded, Message, Dir, files, history, Goto
<1>0. TypeOK /\ JobOK /\ SentOK
  BY DEF IInv
<1>1. ASSUME NEW m \in sent PROVE acqFile'[m.dir][m.acq] # Absent
  BY <1>0, FilesStay, Fields
<1>2. ASSUME NEW j \in Jobs, Receive(j) PROVE SentOK'
  BY <1>0, <1>2 DEF Receive, JobOK
<1>3. CASE Close
  BY <1>0, <1>3 DEF Close, handler
<1>4. CASE CreateCounter \/ WriteZero
  BY <1>0, <1>4 DEF CreateCounter, WriteZero
<1>5. CASE CounterUnreadable \/ Reject \/ ScanUnreadable \/ Abort \/ Reply
  <2>1. step' = "idle" /\ UNCHANGED <<sent, acqFile>>
    BY <1>5 DEF CounterUnreadable, Reject, ScanUnreadable, Abort, Reply, Return
  <2> QED
    BY <1>1, <2>1
<1>6. CASE TakeNumber
  <2>1. step' = "bump" /\ UNCHANGED <<sent, acqFile, ctr, job, acq>>
        /\ (ctr = "LAST_ARUN" => UNCHANGED run) /\ step = "counter"
    BY <1>6 DEF TakeNumber
  <2> QED
    BY <1>0, <2>1
<1>7. CASE WriteRun
  <2>1. step' \in {"idle", "validate"} /\ UNCHANGED <<sent, acqFile>>
    BY <1>7 DEF WriteRun, Return
  <2> QED
    BY <1>1, <2>1
<1>8. CASE WriteAcq
  BY <1>0, <1>8 DEF WriteAcq
<1>9. CASE ReadNumber
  <2>1. step' \in {"idle", "validate"} /\ UNCHANGED <<sent, acqFile>>
    BY <1>9 DEF ReadNumber, Return
  <2> QED
    BY <1>1, <2>1
<1>10. CASE Validate
  <2>1. Dir \in Dirs /\ MetaOK
    BY <1>0, <1>10, DirType DEF Validate, JobOK, IInv
  <2>2. /\ step' = "counter" /\ UNCHANGED <<sent, acqFile, job, run, scanFile>>
        /\ acq' = NextStep(Dir)
    BY <1>10 DEF Validate
  <2>3. scanFile[Dir] = "absent" => acq' = 1
    BY <1>0, <2>1, <2>2, NextStepIsFree
  <2>4. acq' \in Steps
    BY <1>0, <1>10, <2>1, <2>2, NextStepIsFree, BrokerAssumption DEF Validate, Steps
  <2>5. scanFile[Dir] # "absent" => acqFile[Dir][acq'] = Absent
    BY <1>0, <2>1, <2>2, <2>4, NextStepIsFree
  <2> QED
    BY <1>0, <2>2, <2>3, <2>5
<1>11. CASE OpenAcqFile
  <2>1. step' = "saving" /\ step = "save" /\ UNCHANGED <<sent, job, run, acq>>
    BY <1>11 DEF OpenAcqFile
  <2> QED
    BY <1>0, <1>1, <2>1
<1>12. CASE SaveAcqFile
  <2>1. step' = "connect" /\ step = "saving" /\ UNCHANGED <<sent, job, run, acq, uniq>>
    BY <1>12 DEF SaveAcqFile
  <2>2. uniq \in Nat /\ \A m \in sent : m.uniq <= uniq - 1 /\ m.uniq \in Nat
    BY <1>0, <2>1, Fields DEF IInv, FreshOK, UsedUpTo
  <2> QED
    BY <1>0, <1>1, <2>1, <2>2
<1>13. CASE Connect
  <2>1. /\ step = "connect" /\ step' = "send" /\ todo' = job.sources
        /\ UNCHANGED <<sent, acqFile, job, run, acq, uniq>>
    BY <1>13 DEF Connect
  <2> QED
    BY <1>0, <2>1
<1>14. CASE Disconnect
  BY <1>0, <1>14 DEF Disconnect
<1>15. ASSUME NEW s \in Sources, Send(s) \/ SendFailsLate(s) PROVE SentOK'
  <2>1. /\ UNCHANGED acqFile /\ sent' = sent \cup {Message(s)} /\ step = "send"
    BY <1>15 DEF Send, SendFailsLate
  <2>2. acqFile[Dir][acq] = uniq /\ uniq # Absent
    BY <1>0, <2>1, BrokerAssumption DEF IInv, PlaceOK, TypeOK
  <2>3. \A m \in sent' : acqFile'[m.dir][m.acq] # Absent
    BY <1>0, <2>1, <2>2
  <2>4. CASE SendFailsLate(s)
    BY <2>3, <2>4 DEF SendFailsLate, Return
  <2>5. CASE Send(s)
    <3>1. UNCHANGED <<step, job, run, acq, uniq>> /\ todo' = todo \ {s}
      BY <2>5 DEF Send
    <3>2. \A x \in job.sources \ todo' : Message(x) \in sent'
      BY <1>0, <2>1, <3>1
    <3> QED
      BY <1>0, <2>1, <2>3, <3>1, <3>2
  <2> QED
    BY <1>15, <2>4, <2>5
<1>16. CASE OpenScan \/ SaveScan
  BY <1>0, <1>16 DEF OpenScan, SaveScan
<1>17. CASE UNCHANGED vars
  BY <1>0, <1>17 DEF vars, handler
<1> QED
  BY <1>2, <1>3, <1>4, <1>5, <1>6, <1>7, <1>8, <1>9, <1>10, <1>11, <1>12, <1>13,
     <1>14, <1>15, <1>16, <1>17 DEF Next

-----------------------------------------------------------------------------
(* An accepted acquisition comes before the one being handled.              *)
LEMMA AcceptedStep == IInv /\ [Next]_vars => AcceptedOK'
<1> SUFFICES ASSUME IInv, [Next]_vars PROVE AcceptedOK'
  OBVIOUS
<1> USE DEF AcceptedOK, Placed, Placing, Numbering, Recorded, Dir, files, history, Goto
<1>0. TypeOK /\ JobOK /\ AcceptedOK
  BY DEF IInv
<1>1. ASSUME NEW j \in Jobs, Receive(j) PROVE AcceptedOK'
  BY <1>0, <1>1 DEF Receive, JobOK
<1>2. CASE Close
  BY <1>0, <1>2 DEF Close, handler
<1>3. CASE CreateCounter \/ WriteZero
  BY <1>0, <1>3 DEF CreateCounter, WriteZero
<1>4. CASE CounterUnreadable \/ Reject \/ ScanUnreadable \/ Abort
  <2>1. step' = "idle" /\ UNCHANGED <<accepted, dirs>>
    BY <1>4 DEF CounterUnreadable, Reject, ScanUnreadable, Abort, Return
  <2> QED
    BY <1>0, <2>1
<1>5. CASE TakeNumber
  <2>1. /\ step' = "bump" /\ step = "counter"
        /\ UNCHANGED <<accepted, dirs, scan, ctr, job, acq>>
        /\ ctr = "LAST_ARUN" => UNCHANGED run
    BY <1>5 DEF TakeNumber
  <2> QED
    BY <1>0, <2>1
<1>6. CASE WriteRun
  <2>1. step' \in {"idle", "validate"} /\ UNCHANGED <<accepted, dirs>>
    BY <1>6 DEF WriteRun, Return
  <2> QED
    BY <1>0, <2>1
<1>7. CASE WriteAcq
  BY <1>0, <1>7 DEF WriteAcq
<1>8. CASE ReadNumber
  <2>1. step' \in {"idle", "validate"} /\ UNCHANGED <<accepted, dirs>>
    BY <1>8 DEF ReadNumber, Return
  <2> QED
    BY <1>0, <2>1
<1>9. CASE Validate
  <2>1. Dir \in Dirs /\ MetaOK
    BY <1>0, <1>9, DirType DEF Validate, JobOK, IInv
  <2>2. /\ step' = "counter" /\ UNCHANGED <<accepted, scan, job, run, scanFile>>
        /\ acq' = NextStep(Dir) /\ dirs \subseteq dirs'
    BY <1>9 DEF Validate
  <2>3. /\ acq' \in Steps
        /\ \A n \in Steps : n > acq' => acqFile[Dir][n] = Absent
        /\ scanFile[Dir] # "absent" => acqFile[Dir][acq'] = Absent
    BY <1>0, <1>9, <2>1, <2>2, NextStepIsFree, BrokerAssumption DEF Validate, Steps
  <2>4. scanFile[Dir] # "absent" =>
          \A n \in Steps : acqFile[Dir][n] # Absent => n < acq'
    BY <2>3 DEF Steps
  <2>5. \A a \in accepted : a.dir = Dir => a.acq < acq'
    <3>1. \A a \in accepted : /\ a.acq \in Steps
                              /\ acqFile[a.dir][a.acq] # Absent
                              /\ scanFile[a.dir] # "absent"
      BY <1>0, Fields DEF IInv, AcceptedIsRecorded
    <3> QED
      BY <2>4, <3>1
  <2>6. \A i \in DOMAIN scan[Dir] :
          /\ scan[Dir][i].acq \in Steps
          /\ acqFile[Dir][scan[Dir][i].acq] # Absent
    BY <1>0, <2>1, Fields DEF IInv, ScanInOrder
  <2>7. \A i \in DOMAIN scan[Dir] : scan[Dir][i].acq < acq'
    <3>1. CASE scanFile[Dir] = "absent"
      BY <2>1, <3>1 DEF MetaOK
    <3>2. CASE scanFile[Dir] # "absent"
      BY <2>4, <2>6, <3>2
    <3> QED
      BY <3>1, <3>2
  <2> QED
    BY <1>0, <2>2, <2>5, <2>7
<1>10. CASE OpenAcqFile
  BY <1>0, <1>10 DEF OpenAcqFile
<1>11. CASE SaveAcqFile
  <2>1. /\ step' = "connect" /\ step = "saving"
        /\ UNCHANGED <<accepted, dirs, scan, job, run, acq, uniq>>
    BY <1>11 DEF SaveAcqFile
  <2>2. uniq \in Nat /\ \A a \in accepted : a.uniq <= uniq - 1 /\ a.uniq \in Nat
    <3>1. uniq \in Nat /\ UsedUpTo(uniq - 1)
      BY <1>0, <2>1 DEF IInv, FreshOK
    <3>2. ASSUME NEW a \in accepted PROVE a.uniq <= uniq - 1 /\ a.uniq \in Nat
      <4>1. a.dir \in Dirs /\ a.acq \in Steps /\ a.uniq \in Nat
        BY <1>0, <3>2, Fields DEF IInv
      <4>2. acqFile[a.dir][a.acq] = a.uniq
        BY <1>0, <3>2 DEF IInv, AcceptedIsRecorded
      <4> QED
        BY <3>1, <4>1, <4>2 DEF UsedUpTo
    <3> QED
      BY <3>1, <3>2
  <2> QED
    BY <1>0, <2>1, <2>2
<1>12. CASE Connect \/ Disconnect
  BY <1>0, <1>12 DEF Connect, Disconnect
<1>13. ASSUME NEW s \in Sources, Send(s) \/ SendFailsLate(s) PROVE AcceptedOK'
  BY <1>0, <1>13 DEF Send, SendFailsLate, Return
<1>14. CASE OpenScan
  BY <1>0, <1>14 DEF OpenScan
<1>15. CASE SaveScan
  <2>1. Dir \in Dirs /\ acq \in Steps
    BY <1>0, <1>15, DirType DEF SaveScan, JobOK, TypeOK
  <2>2. /\ step = "scanning" /\ step' = "reply"
        /\ UNCHANGED <<accepted, dirs, job, run, acq, uniq>>
    BY <1>15 DEF SaveScan
  <2>3. /\ scanFile'[Dir] = "saved"
        /\ scan'[Dir] = Append(scan[Dir], [acq |-> acq, uniq |-> uniq])
        /\ scan[Dir] \in Seq(Entries)
    BY <1>0, <1>15, <2>1 DEF SaveScan, TypeOK
  <2>4. /\ scan'[Dir] # <<>>
        /\ scan'[Dir][Len(scan'[Dir])] = [acq |-> acq, uniq |-> uniq]
    BY <2>3
  <2> QED
    BY <1>0, <2>2, <2>3, <2>4
<1>16. CASE Reply
  <2>1. step = "reply" /\ step' = "idle" /\ accepted' = accepted \cup {Answer}
        /\ UNCHANGED dirs
    BY <1>16 DEF Reply, Return
  <2> QED
    BY <1>0, <2>1 DEF Answer, JobOK
<1>17. CASE UNCHANGED vars
  BY <1>0, <1>17 DEF vars, handler
<1> QED
  BY <1>1, <1>2, <1>3, <1>4, <1>5, <1>6, <1>7, <1>8, <1>9, <1>10, <1>11, <1>12,
     <1>13, <1>14, <1>15, <1>16, <1>17 DEF Next

-----------------------------------------------------------------------------
(* The run numbers handed out are those up to the counter's.                *)
LEMMA GrantedStep == IInv /\ [Next]_vars => GrantedOK'
<1> SUFFICES ASSUME IInv, [Next]_vars PROVE GrantedOK'
  OBVIOUS
<1> USE BrokerAssumption DEF GrantedOK, Placed, Placing, Numbering, Recorded, Counters,
        files, history, Goto
<1>0. TypeOK /\ JobOK /\ GrantedOK
  BY DEF IInv
<1>1. UNCHANGED granted => \A n \in Nat : GrantedUpTo(n) => GrantedUpTo(n)'
  BY DEF GrantedUpTo, HandedOut
<1>2. run \in Nat
  BY <1>0 DEF TypeOK, Runs
<1>3. UNCHANGED <<granted, run>> /\ HandedOut(run) => HandedOut(run)'
  BY DEF HandedOut
<1>4. ASSUME NEW j \in Jobs, Receive(j) PROVE GrantedOK'
  BY <1>0, <1>1, <1>4 DEF Receive, JobOK
<1>5. CASE Close
  BY <1>0, <1>1, <1>3, <1>5 DEF Close, handler
<1>6. CASE CreateCounter
  BY <1>0, <1>1, <1>3, <1>6 DEF CreateCounter, TypeOK
<1>7. CASE WriteZero
  BY <1>0, <1>1, <1>3, <1>7 DEF WriteZero, TypeOK
<1>8. CASE CounterUnreadable \/ Reject \/ ScanUnreadable \/ Abort \/ Reply
  <2>1. UNCHANGED <<last, granted>> /\ step' = "idle"
    BY <1>8 DEF CounterUnreadable, Reject, ScanUnreadable, Abort, Reply, Return
  <2> QED
    BY <1>0, <1>1, <2>1 DEF TypeOK
<1>9. CASE TakeNumber
  <2>1. CASE ctr = "LAST_RUN"
    <3>1. PICK n \in Nat : n = last["LAST_RUN"]
      BY <1>9, <2>1 DEF TakeNumber
    <3>2. /\ last'["LAST_RUN"] = Blank /\ step' = "bump" /\ ctr' = "LAST_RUN"
          /\ run' = n + 1 /\ UNCHANGED granted
      BY <1>0, <1>9, <2>1, <3>1 DEF TakeNumber, TypeOK
    <3>3. GrantedUpTo(n)'
      BY <1>0, <1>1, <3>1, <3>2
    <3>4. run' - 1 = n /\ run' \in Nat \ {0}
      BY <3>1, <3>2
    <3> QED
      BY <3>2, <3>3, <3>4
  <2>2. CASE ctr = "LAST_ARUN"
    <3>1. /\ last'["LAST_RUN"] = last["LAST_RUN"] /\ step' = "bump"
          /\ ctr' = "LAST_ARUN" /\ UNCHANGED <<granted, run>> /\ step = "counter"
      BY <1>0, <1>9, <2>2 DEF TakeNumber, TypeOK
    <3> QED
      BY <1>0, <1>1, <1>3, <2>2, <3>1 DEF TypeOK
  <2> QED
    BY <1>0, <2>1, <2>2 DEF TypeOK
<1>10. CASE WriteRun
  <2>1. PICK n \in Nat : n = run
    BY <1>2
  <2>2. /\ n # 0 /\ GrantedUpTo(n - 1)
        /\ last'["LAST_RUN"] = n /\ granted' = Append(granted, n)
        /\ step' = "idle" \/ (step' = "validate" /\ run' = n)
    BY <1>0, <1>10, <2>1 DEF WriteRun, TypeOK, Return
  <2>3. granted \in Seq(Runs)
    BY <1>0 DEF TypeOK
  <2>4. /\ Len(granted') = Len(granted) + 1 /\ granted'[Len(granted) + 1] = n
        /\ \A i \in 1..Len(granted) : granted'[i] = granted[i]
        /\ DOMAIN granted = 1..Len(granted) /\ Len(granted) \in Nat
        /\ DOMAIN granted' = 1..Len(granted')
        /\ \A i \in 1..Len(granted) : granted[i] \in Nat
    BY <2>1, <2>2, <2>3 DEF Runs
  <2>5. HandedOut(n)'
    BY <2>4 DEF HandedOut
  <2>6. \A r \in Nat : HandedOut(r) => HandedOut(r)'
    BY <2>4 DEF HandedOut
  <2>7. \A r \in 1..n : HandedOut(r)'
    <3>1. \A r \in 1..n : r = n \/ r \in 1..(n - 1)
      BY <2>1
    <3> QED
      BY <2>1, <2>2, <2>5, <2>6, <3>1 DEF GrantedUpTo
  <2>8. \A i \in DOMAIN granted' : granted'[i] <= n
    BY <2>1, <2>2, <2>4 DEF GrantedUpTo
  <2>9. GrantedUpTo(n)'
    BY <2>7, <2>8 DEF GrantedUpTo
  <2> QED
    BY <2>1, <2>2, <2>5, <2>9
<1>11. CASE WriteAcq
  <2>1. last'["LAST_RUN"] = last["LAST_RUN"] /\ UNCHANGED <<granted, run>>
        /\ step' = "save" /\ step = "bump" /\ ctr = "LAST_ARUN"
    BY <1>0, <1>11 DEF WriteAcq, TypeOK
  <2> QED
    BY <1>0, <1>1, <1>3, <2>1 DEF TypeOK
<1>12. CASE ReadNumber
  <2>1. UNCHANGED <<last, granted>> /\ step' \in {"idle", "validate"}
    BY <1>12 DEF ReadNumber, Return
  <2>2. ASSUME step' = "validate" PROVE run' = 0 \/ HandedOut(run')
    <3>1. /\ ctr = "LAST_RUN" /\ last["LAST_RUN"] \in Nat
          /\ run' = job.run /\ job.run <= last["LAST_RUN"] /\ job \in Retrieves
      BY <1>0, <1>12, <2>2 DEF ReadNumber, Return, Increments, TypeOK, Jobs,
         Retrieves, Numberings, JobOK
    <3>2. job.run \in Nat
      BY <1>12, <3>1 DEF ReadNumber, Increments, Retrieves, Runs
    <3> QED
      BY <1>0, <3>1, <3>2 DEF GrantedUpTo
  <2>3. HandedOut(run') => HandedOut(run)'
    BY <2>1 DEF HandedOut
  <2> QED
    BY <1>0, <1>1, <2>1, <2>2, <2>3 DEF TypeOK
<1>13. CASE Validate
  <2>1. UNCHANGED <<last, granted, run>> /\ step' = "counter" /\ ctr' = "LAST_ARUN"
        /\ step = "validate"
    BY <1>13 DEF Validate
  <2> QED
    BY <1>0, <1>1, <1>3, <2>1 DEF TypeOK
<1>14. CASE OpenAcqFile \/ SaveAcqFile \/ Connect \/ Disconnect \/ OpenScan \/ SaveScan
  <2>1. /\ UNCHANGED <<last, granted, run>>
        /\ step \in {"save", "saving"} \cup Recorded
        /\ step' \in {"saving"} \cup Recorded
    BY <1>14 DEF OpenAcqFile, SaveAcqFile, Connect, Disconnect, OpenScan, SaveScan
  <2> QED
    BY <1>0, <1>1, <1>3, <2>1 DEF TypeOK
<1>15. ASSUME NEW s \in Sources, Send(s) \/ SendFailsLate(s) PROVE GrantedOK'
  <2>1. /\ UNCHANGED <<last, granted>> /\ step = "send"
        /\ step' = "idle" \/ (step' = "send" /\ UNCHANGED run)
    BY <1>15 DEF Send, SendFailsLate, Return
  <2> QED
    BY <1>0, <1>1, <1>3, <2>1 DEF TypeOK
<1>16. CASE UNCHANGED vars
  BY <1>0, <1>1, <1>3, <1>16 DEF vars, handler
<1> QED
  BY <1>4, <1>5, <1>6, <1>7, <1>8, <1>9, <1>10, <1>11, <1>12, <1>13, <1>14, <1>15,
     <1>16 DEF Next

-----------------------------------------------------------------------------
(* The properties of Broker, each from the part of IInv it rests on.        *)

(* An accepted step stays in the list scan.json is written from.            *)
LEMMA ScanKeepsStep == IInv /\ [Next]_vars => ScanKeeps'
<1> SUFFICES ASSUME IInv, [Next]_vars PROVE ScanKeeps'
  OBVIOUS
<1>0. TypeOK /\ JobOK /\ ScanKeeps
  BY DEF IInv
<1>1. ASSUME NEW a \in accepted, NEW i \in DOMAIN scan[a.dir]
      PROVE  i \in DOMAIN scan'[a.dir] /\ scan'[a.dir][i] = scan[a.dir][i]
  <2>1. a.dir \in Dirs /\ scan[a.dir] \in Seq(Entries)
    BY <1>0, Fields DEF TypeOK
  <2>2. CASE SaveScan
    <3>1. scan'[a.dir] = scan[a.dir]
            \/ scan'[a.dir] = Append(scan[a.dir], [acq |-> acq, uniq |-> uniq])
      BY <1>0, <2>1, <2>2 DEF SaveScan, TypeOK
    <3> QED
      BY <1>1, <2>1, <3>1
  <2> QED
    BY <1>1, <2>2, MetaFrame DEF OpenAcqFile, SaveAcqFile, OpenScan
<1>2. CASE UNCHANGED accepted
  BY <1>0, <1>1, <1>2 DEF ScanKeeps
<1>3. CASE Reply
  <2>1. accepted' = accepted \cup {Answer} /\ UNCHANGED scan /\ step = "reply"
    BY <1>3 DEF Reply, files
  <2>2. Dir \in Dirs
    BY <1>0, <2>1, DirType DEF JobOK, Placed, Recorded
  <2>3. scan[Dir] \in Seq(Entries) /\ scan[Dir] # <<>>
        /\ scan[Dir][Len(scan[Dir])] = [acq |-> acq, uniq |-> uniq]
    BY <1>0, <2>1, <2>2 DEF IInv, AcceptedOK, TypeOK
  <2>4. Len(scan[Dir]) \in DOMAIN scan[Dir]
    BY <2>3
  <2>5. Answer.dir = Dir /\ Answer.acq = acq /\ Answer.uniq = uniq
    BY DEF Answer
  <2> QED
    BY <1>0, <2>1, <2>3, <2>4, <2>5 DEF ScanKeeps
<1> QED
  BY <1>2, <1>3, AcceptedFrame

(* A step after "ok" leaves the accepted acquisitions recorded.             *)
LEMMA RecordedStep == IInv /\ [Next]_vars => AcceptedIsRecorded'
<1> SUFFICES ASSUME IInv, [Next]_vars PROVE AcceptedIsRecorded'
  OBVIOUS
<1>0. TypeOK /\ JobOK /\ AcceptedIsRecorded /\ AcceptedOK /\ SentOK /\ PlaceOK
  BY DEF IInv
<1>1. ScanKeeps'
  BY ScanKeepsStep
<1>2. sent \subseteq sent'
  BY SentFrame DEF Send, SendFailsLate
<1>3. ASSUME NEW a \in accepted
      PROVE  /\ acqFile'[a.dir][a.acq] = a.uniq
             /\ scanFile'[a.dir] # "absent"
  <2>1. a.dir \in Dirs /\ a.acq \in Steps /\ a.uniq \in Steps
    BY <1>0, Fields
  <2>2. acqFile[a.dir][a.acq] = a.uniq /\ scanFile[a.dir] # "absent"
    BY <1>0 DEF AcceptedIsRecorded
  <2>3. CASE OpenAcqFile \/ SaveAcqFile
    <3>1. Placed
      BY <2>3 DEF OpenAcqFile, SaveAcqFile, Placed, Placing
    <3>2. a.dir = Dir => a.acq # acq
      BY <1>0, <2>1, <3>1 DEF AcceptedOK, Steps
    <3> QED
      BY <1>0, <2>1, <2>2, <2>3, <3>2 DEF OpenAcqFile, SaveAcqFile, TypeOK
  <2>4. CASE OpenScan \/ SaveScan
    BY <1>0, <2>1, <2>2, <2>4 DEF OpenScan, SaveScan, TypeOK
  <2> QED
    BY <2>2, <2>3, <2>4, MetaFrame
<1>4. CASE UNCHANGED accepted
  BY <1>0, <1>1, <1>2, <1>3, <1>4 DEF AcceptedIsRecorded, ScanKeeps
<1>5. CASE Reply
  <2>1. /\ accepted' = accepted \cup {Answer} /\ step = "reply"
        /\ UNCHANGED <<acqFile, scanFile, sent>>
    BY <1>5 DEF Reply, files
  <2>2. /\ Answer.dir = Dir /\ Answer.acq = acq /\ Answer.uniq = uniq
        /\ Answer.sources = job.sources
    BY DEF Answer
  <2>3. acqFile[Dir][acq] = uniq /\ scanFile[Dir] # "absent"
    BY <1>0, <2>1 DEF PlaceOK, Recorded
  <2>4. \A s \in job.sources :
          [dir |-> Dir, acq |-> acq, source |-> s, uniq |-> uniq] \in sent
    BY <1>0, <2>1 DEF SentOK, Message
  <2> QED
    BY <1>0, <1>1, <1>3, <2>1, <2>2, <2>3, <2>4 DEF AcceptedIsRecorded, ScanKeeps
<1> QED
  BY <1>4, <1>5, AcceptedFrame

(* A write request sent later is for other files than the accepted ones.    *)
LEMMA FinalStep == IInv /\ [Next]_vars => AcceptedFilesAreFinal'
<1> SUFFICES ASSUME IInv, [Next]_vars PROVE AcceptedFilesAreFinal'
  OBVIOUS
<1>0. TypeOK /\ AcceptedFilesAreFinal /\ AcceptedOK
  BY DEF IInv
<1>1. CASE UNCHANGED <<sent, accepted>>
  BY <1>0, <1>1 DEF AcceptedFilesAreFinal
<1>2. ASSUME NEW s \in Sources, Send(s) \/ SendFailsLate(s)
      PROVE  AcceptedFilesAreFinal'
  <2>1. /\ sent' = sent \cup {Message(s)} /\ UNCHANGED accepted
        /\ step = "send"
    BY <1>2 DEF Send, SendFailsLate
  <2>2. Message(s).dir = Dir /\ Message(s).acq = acq
    BY DEF Message
  <2>3. \A a \in accepted : a.dir = Dir => a.acq # acq
    BY <1>0, <2>1, Fields DEF AcceptedOK, Placed, Recorded, TypeOK, Steps
  <2> QED
    BY <1>0, <2>1, <2>2, <2>3 DEF AcceptedFilesAreFinal
<1>3. CASE Reply
  <2>1. accepted' = accepted \cup {Answer} /\ UNCHANGED sent /\ step = "reply"
    BY <1>3 DEF Reply
  <2>2. \A m \in sent : m.uniq <= uniq
    BY <1>0, <2>1 DEF IInv, FreshOK, UsedUpTo, Recorded, TypeOK
  <2>3. Answer.uniq = uniq
    BY DEF Answer
  <2> QED
    BY <1>0, <2>1, <2>2, <2>3 DEF AcceptedFilesAreFinal
<1> QED
  BY <1>1, <1>2, <1>3, SentFrame, AcceptedFrame

(* Only a first step can be requested a second time.                        *)
LEMMA RepeatStep == IInv /\ [Next]_vars => OnlyFirstStepsRepeat'
<1> SUFFICES ASSUME IInv, [Next]_vars PROVE OnlyFirstStepsRepeat'
  OBVIOUS
<1>0. OnlyFirstStepsRepeat /\ SentOK
  BY DEF IInv
<1>1. CASE UNCHANGED sent
  BY <1>0, <1>1 DEF OnlyFirstStepsRepeat
<1>2. ASSUME NEW s \in Sources, Send(s) \/ SendFailsLate(s)
      PROVE  OnlyFirstStepsRepeat'
  <2>1. sent' = sent \cup {Message(s)} /\ step = "send"
    BY <1>2 DEF Send, SendFailsLate
  <2>2. Message(s).dir = Dir /\ Message(s).acq = acq /\ Message(s).uniq = uniq
    BY DEF Message
  <2>3. \A m \in sent : m.dir = Dir /\ m.acq = acq => acq = 1 \/ m.uniq = uniq
    BY <1>0, <2>1 DEF SentOK, Recorded
  <2> QED
    BY <1>0, <2>1, <2>2, <2>3 DEF OnlyFirstStepsRepeat
<1> QED
  BY <1>1, <1>2, SentFrame

(* A number just taken is in no file and in no write request.               *)
LEMMA UniqueStep == IInv /\ [Next]_vars => UniqueNumbers'
<1> SUFFICES ASSUME IInv, [Next]_vars PROVE UniqueNumbers'
  OBVIOUS
<1>0. TypeOK /\ UniqueNumbers /\ SentOK /\ FreshOK
  BY DEF IInv
<1>1. ASSUME NEW m \in sent', NEW n \in sent', m.uniq = n.uniq
      PROVE  m.dir = n.dir /\ m.acq = n.acq
  <2>1. CASE UNCHANGED sent
    BY <1>0, <1>1, <2>1 DEF UniqueNumbers
  <2>2. ASSUME NEW s \in Sources, Send(s) \/ SendFailsLate(s)
        PROVE  m.dir = n.dir /\ m.acq = n.acq
    <3>1. sent' = sent \cup {Message(s)} /\ step = "send"
      BY <2>2 DEF Send, SendFailsLate
    <3>2. Message(s).dir = Dir /\ Message(s).acq = acq /\ Message(s).uniq = uniq
      BY DEF Message
    <3>3. \A x \in sent : x.uniq = uniq => x.dir = Dir /\ x.acq = acq
      BY <1>0, <3>1 DEF SentOK, Recorded
    <3> QED
      BY <1>0, <1>1, <3>1, <3>2, <3>3 DEF UniqueNumbers
  <2> QED
    BY <2>1, <2>2, SentFrame
<1>2. \A d, e \in Dirs, i, k \in Steps :
        acqFile'[d][i] \in Nat /\ acqFile'[d][i] = acqFile'[e][k] => d = e /\ i = k
  <2>1. CASE UNCHANGED acqFile
    BY <1>0, <2>1 DEF UniqueNumbers
  <2>2. CASE OpenAcqFile
    <3>1. \A d \in Dirs, i \in Steps : acqFile'[d][i] \in Nat => acqFile'[d][i] = acqFile[d][i]
      BY <1>0, <2>2, BrokerAssumption DEF OpenAcqFile, TypeOK
    <3> QED
      BY <1>0, <3>1 DEF UniqueNumbers
  <2>3. CASE SaveAcqFile
    <3>1. \A d \in Dirs, i \in Steps :
            acqFile'[d][i] = IF d = Dir /\ i = acq THEN uniq ELSE acqFile[d][i]
      BY <1>0, <2>3 DEF SaveAcqFile, TypeOK
    <3>2. \A d \in Dirs, i \in Steps : acqFile[d][i] # uniq
      BY <1>0, <2>3 DEF SaveAcqFile, FreshOK, UsedUpTo
    <3> QED
      BY <1>0, <3>1, <3>2 DEF UniqueNumbers
  <2> QED
    BY <2>1, <2>2, <2>3, MetaFrame DEF OpenScan, SaveScan
<1> QED
  BY <1>1, <1>2 DEF UniqueNumbers

(* Validate creates no second directory for a run.                          *)
LEMMA DirectoryStep == IInv /\ [Next]_vars => OneDirectoryPerRun'
<1> SUFFICES ASSUME IInv, [Next]_vars PROVE OneDirectoryPerRun'
  OBVIOUS
<1>1. OneDirectoryPerRun
  BY DEF IInv
<1>2. CASE UNCHANGED dirs
  BY <1>1, <1>2 DEF OneDirectoryPerRun
<1>3. CASE Validate
  <2>1. dirs' = dirs \cup {Dir} /\ TagMatchesPrevious /\ Dir[1] = run
    BY <1>3 DEF Validate, MayWrite, Dir
  <2>2. Dir \in dirs \/ \A d \in dirs : d[1] # run
    BY <2>1 DEF TagMatchesPrevious, StartsLike
  <2> QED
    BY <1>1, <2>1, <2>2 DEF OneDirectoryPerRun
<1> QED
  BY <1>2, <1>3, DirsFrame

(* The entry appended is for a later step than those it follows.            *)
LEMMA ScanOrderStep == IInv /\ [Next]_vars => ScanInOrder'
<1> SUFFICES ASSUME IInv, [Next]_vars PROVE ScanInOrder'
  OBVIOUS
<1>0. TypeOK /\ JobOK /\ ScanInOrder /\ AcceptedOK /\ PlaceOK /\ FreshOK /\ UniqueNumbers
  BY DEF IInv
<1>1. CASE UNCHANGED <<acqFile, scanFile, scan>>
  BY <1>0, <1>1 DEF ScanInOrder
<1>2. CASE OpenScan
  BY <1>0, <1>2 DEF OpenScan, ScanInOrder
<1>3. CASE OpenAcqFile \/ SaveAcqFile
  <2>1. Placed /\ step # "reply" /\ UNCHANGED scan
    BY <1>3 DEF OpenAcqFile, SaveAcqFile, Placed, Placing
  <2>2. ASSUME NEW d \in Dirs, NEW i \in DOMAIN scan[d]
        PROVE  acqFile'[d][scan[d][i].acq] = acqFile[d][scan[d][i].acq]
    <3>1. scan[d][i].acq \in Steps
      BY <1>0, <2>2, Fields
    <3>2. d = Dir => scan[d][i].acq # acq
      BY <1>0, <2>1, <2>2, <3>1 DEF AcceptedOK, Steps
    <3> QED
      BY <1>0, <1>3, <2>2, <3>1, <3>2 DEF OpenAcqFile, SaveAcqFile, TypeOK
  <2> QED
    BY <1>0, <2>1, <2>2 DEF ScanInOrder
<1>4. CASE SaveScan
  <2>1. /\ Dir \in Dirs /\ acq \in Steps /\ UNCHANGED acqFile
        /\ step = "scanning"
    BY <1>0, <1>4, DirType DEF SaveScan, JobOK, Placed, Recorded, TypeOK
  <2>2. /\ scan'[Dir] = Append(scan[Dir], [acq |-> acq, uniq |-> uniq])
        /\ \A d \in Dirs : d # Dir => scan'[d] = scan[d]
        /\ scan[Dir] \in Seq(Entries)
    BY <1>0, <1>4, <2>1 DEF SaveScan, TypeOK
  <2>3. acqFile[Dir][acq] = uniq /\ uniq \in Nat /\ last["LAST_ARUN"] = uniq
    BY <1>0, <2>1 DEF PlaceOK, FreshOK, Recorded, TypeOK
  <2>4. ASSUME NEW i \in DOMAIN scan[Dir]
        PROVE  scan[Dir][i].acq < acq /\ scan[Dir][i].uniq < uniq
    <3>1. scan[Dir][i].acq \in Steps /\ scan[Dir][i].uniq \in Steps
      BY <1>0, <2>1, <2>4, Fields
    <3>2. scan[Dir][i].acq < acq
      BY <1>0, <2>1, <2>4 DEF AcceptedOK, Placed, Recorded
    <3>3. acqFile[Dir][scan[Dir][i].acq] = scan[Dir][i].uniq
      BY <1>0, <2>1, <2>4 DEF ScanInOrder
    <3>4. scan[Dir][i].uniq <= uniq
      BY <1>0, <2>1, <2>3, <3>1, <3>3 DEF FreshOK, UsedUpTo, Steps
    <3>5. scan[Dir][i].uniq # uniq
      BY <1>0, <2>1, <2>3, <3>1, <3>2, <3>3 DEF UniqueNumbers, Steps
    <3> QED
      BY <2>3, <3>1, <3>2, <3>4, <3>5 DEF Steps
  <2>5. ASSUME NEW i \in DOMAIN scan'[Dir], NEW k \in DOMAIN scan'[Dir]
        PROVE  /\ i < k => /\ scan'[Dir][i].acq < scan'[Dir][k].acq
                           /\ scan'[Dir][i].uniq < scan'[Dir][k].uniq
               /\ acqFile'[Dir][scan'[Dir][i].acq] = scan'[Dir][i].uniq
    <3>1. /\ DOMAIN scan'[Dir] = 1..(Len(scan[Dir]) + 1)
          /\ Len(scan[Dir]) \in Nat
          /\ DOMAIN scan[Dir] = 1..Len(scan[Dir])
          /\ \A x \in 1..Len(scan[Dir]) : scan'[Dir][x] = scan[Dir][x]
          /\ scan'[Dir][Len(scan[Dir]) + 1] = [acq |-> acq, uniq |-> uniq]
      BY <2>2
    <3>2. CASE i \in 1..Len(scan[Dir]) /\ k \in 1..Len(scan[Dir])
      <4>1. scan'[Dir][i] = scan[Dir][i] /\ scan'[Dir][k] = scan[Dir][k]
        BY <3>1, <3>2
      <4>2. /\ i < k => /\ scan[Dir][i].acq < scan[Dir][k].acq
                        /\ scan[Dir][i].uniq < scan[Dir][k].uniq
            /\ acqFile[Dir][scan[Dir][i].acq] = scan[Dir][i].uniq
        BY <1>0, <2>1, <3>1, <3>2 DEF ScanInOrder
      <4> QED
        BY <2>1, <4>1, <4>2
    <3>3. CASE i \in 1..Len(scan[Dir]) /\ k = Len(scan[Dir]) + 1
      BY <1>0, <2>1, <2>4, <3>1, <3>3 DEF ScanInOrder
    <3>4. CASE i = Len(scan[Dir]) + 1
      BY <2>1, <2>3, <2>5, <3>1, <3>4
    <3> QED
      BY <2>5, <3>1, <3>2, <3>3, <3>4
  <2>6. ASSUME NEW d \in Dirs
        PROVE  \A i, k \in DOMAIN scan'[d] :
                 /\ i < k => /\ scan'[d][i].acq < scan'[d][k].acq
                             /\ scan'[d][i].uniq < scan'[d][k].uniq
                 /\ acqFile'[d][scan'[d][i].acq] = scan'[d][i].uniq
    <3>1. CASE d = Dir
      BY <2>5, <3>1
    <3>2. CASE d # Dir
      BY <1>0, <2>1, <2>2, <3>2 DEF ScanInOrder
    <3> QED
      BY <3>1, <3>2
  <2> QED
    BY <2>6 DEF ScanInOrder
<1> QED
  BY <1>1, <1>2, <1>3, <1>4, MetaFrame

-----------------------------------------------------------------------------
(* A pgroup nothing was written to yet satisfies the invariant.             *)
LEMMA InitInv == Init => IInv
<1> SUFFICES ASSUME Init PROVE IInv
  OBVIOUS
<1> USE BrokerAssumption DEF Init
<1>1. TypeOK
  <2>1. scan \in [Dirs -> Seq(Entries)] /\ granted \in Seq(Runs)
    BY <<>> \in Seq(Entries), <<>> \in Seq(Runs)
  <2>2. acqFile \in [Dirs -> [Steps -> Steps \cup {Absent, Blank}]]
        /\ scanFile \in [Dirs -> {"absent", "torn", "saved"}]
        /\ last \in [Counters -> Nat \cup {Absent, Blank}]
    OBVIOUS
  <2>3. run \in Runs /\ acq \in Steps /\ uniq \in 0..MaxAcq
    BY DEF Runs, Steps
  <2> QED
    BY <2>1, <2>2, <2>3 DEF TypeOK, Counters
<1>2. JobOK /\ BoundOK
  BY DEF JobOK, BoundOK, Placed, Placing, Numbering, Recorded
<1>3. MetaOK
  <2>1. \A d \in Dirs : \A n \in Steps : acqFile[d][n] # Absent <=> n <= 0
    BY DEF Steps
  <2> QED
    BY <2>1 DEF MetaOK
<1>4. PlaceOK /\ SentOK /\ AcceptedOK /\ ScanKeeps
  BY DEF PlaceOK, SentOK, AcceptedOK, ScanKeeps, Placed, Placing, Numbering, Recorded
<1>5. FreshOK
  <2>1. UsedUpTo(0)
    BY DEF UsedUpTo
  <2> QED
    BY <2>1 DEF FreshOK, Recorded, Counters
<1>6. GrantedOK
  <2>1. GrantedUpTo(0)
    BY DEF GrantedUpTo
  <2> QED
    BY <2>1 DEF GrantedOK, Placed, Placing, Numbering, Recorded, Counters
<1>7. AcceptedIsRecorded /\ AcceptedFilesAreFinal /\ OnlyFirstStepsRepeat
      /\ OneDirectoryPerRun
  BY DEF AcceptedIsRecorded, AcceptedFilesAreFinal, OnlyFirstStepsRepeat,
     OneDirectoryPerRun
<1>8. ScanInOrder /\ UniqueNumbers
  BY DEF ScanInOrder, UniqueNumbers
<1> QED
  BY <1>1, <1>2, <1>3, <1>4, <1>5, <1>6, <1>7, <1>8 DEF IInv

LEMMA InvStep == IInv /\ [Next]_vars => IInv'
  BY TypeStep, JobStep, BoundStep, MetaStep, PlaceStep, FreshStep, SentStep,
     AcceptedStep, ScanKeepsStep, GrantedStep, RecordedStep, FinalStep, RepeatStep,
     ScanOrderStep, UniqueStep, DirectoryStep DEF IInv

(* IInv is an invariant: what the handler relies on at each of its steps    *)
(* holds whatever failed before.                                            *)
THEOREM Inductive == Spec => []IInv
  BY InitInv, InvStep, PTL DEF Spec

(* The variables keep their types, for any number of runs and acquisitions. *)
THEOREM TypeCorrect == Spec => []TypeOK
<1>1. IInv => TypeOK
  BY DEF IInv
<1> QED
  BY <1>1, Inductive, PTL

(* Bookkeeping: an accepted retrieve request stays recorded, completely     *)
(* sent and listed.                                                         *)
THEOREM Bookkeeping == Spec => []AcceptedIsRecorded
<1>1. IInv => AcceptedIsRecorded
  BY DEF IInv
<1> QED
  BY <1>1, Inductive, PTL

(* No later request names an accepted acquisition's output files.           *)
THEOREM NoReuse == Spec => []AcceptedFilesAreFinal
<1>1. IInv => AcceptedFilesAreFinal
  BY DEF IInv
<1> QED
  BY <1>1, Inductive, PTL

(* Two requests that were sent for one step of a directory are both for its *)
(* first step (get_current_step_in_scan).                                   *)
THEOREM FirstStepsOnly == Spec => []OnlyFirstStepsRepeat
<1>1. IInv => OnlyFirstStepsRepeat
  BY DEF IInv
<1> QED
  BY <1>1, Inductive, PTL

(* scan.json keeps the steps in order and tied to their records.            *)
THEOREM ScanOrder == Spec => []ScanInOrder
<1>1. IInv => ScanInOrder
  BY DEF IInv
<1> QED
  BY <1>1, Inductive, PTL

(* Unique acquisition numbers are unique, over files and write requests.    *)
THEOREM Uniqueness == Spec => []UniqueNumbers
<1>1. IInv => UniqueNumbers
  BY DEF IInv
<1> QED
  BY <1>1, Inductive, PTL

(* A run has one directory.                                                 *)
THEOREM RunDirectory == Spec => []OneDirectoryPerRun
<1>1. IInv => OneDirectoryPerRun
  BY DEF IInv
<1> QED
  BY <1>1, Inductive, PTL

-----------------------------------------------------------------------------
(* Past the check of CLOSED no other request can close the pgroup, since    *)
(* the server has one request in hand.                                      *)
LEMMA ClosedStep ==
  IInv /\ [Next]_vars /\ closed
    => closed' /\ UNCHANGED <<dirs, acqFile, scan, sent, accepted>>
<1> SUFFICES ASSUME IInv, [Next]_vars, closed
             PROVE  closed' /\ UNCHANGED <<dirs, acqFile, scan, sent, accepted>>
  OBVIOUS
<1>1. ~Placed /\ ~MayWrite
  BY DEF IInv, JobOK, MayWrite
<1>2. step \notin {"save", "saving"} \cup Recorded
  BY <1>1 DEF Placed, Placing
<1>3. ~Validate /\ ~OpenAcqFile /\ ~SaveAcqFile /\ ~OpenScan /\ ~SaveScan /\ ~Reply
  BY <1>1, <1>2 DEF Validate, OpenAcqFile, SaveAcqFile, OpenScan, SaveScan, Reply,
     Recorded
<1>4. \A s \in Sources : ~Send(s) /\ ~SendFailsLate(s)
  BY <1>2 DEF Send, SendFailsLate, Recorded
<1>5. closed'
  BY <1>3, <1>4 DEF Next, vars, files, Receive, Close, CreateCounter, WriteZero,
     CounterUnreadable, TakeNumber, WriteRun, WriteAcq, ReadNumber, Reject, Connect,
     Disconnect, ScanUnreadable, Abort
<1> QED
  BY <1>3, <1>4, <1>5, MetaFrame, SentFrame, AcceptedFrame, DirsFrame

(* A closed pgroup stays closed, and the broker adds nothing to it.         *)
THEOREM Closed == Spec => ClosedIsFinal
<1>1. IInv /\ [Next]_vars
        => [closed => closed' /\ UNCHANGED <<dirs, acqFile, scan, sent, accepted>>]_vars
  BY ClosedStep
<1> QED
  BY <1>1, Inductive, PTL DEF Spec, ClosedIsFinal

-----------------------------------------------------------------------------
(* The broker implements the ledger: every step of a handler grants a run   *)
(* number, enters an acquisition, closes the pgroup, or leaves the ledger   *)
(* alone.                                                                   *)
LEMMA LedgerStep == IInv /\ [Next]_vars => [L!Next]_(L!ledgerVars)
<1> SUFFICES ASSUME IInv, [Next]_vars
             PROVE  L!Next \/ UNCHANGED <<granted, accepted, closed>>
  BY DEF L!ledgerVars
<1>0. TypeOK /\ JobOK /\ AcceptedOK /\ GrantedOK
  BY DEF IInv
<1>1. \/ UNCHANGED <<granted, accepted, closed>>
      \/ WriteRun \/ Close \/ Reply
  BY DEF Next, vars, files, history, Receive, CreateCounter, WriteZero,
     CounterUnreadable, TakeNumber, WriteAcq, ReadNumber, Validate, Reject,
     OpenAcqFile, SaveAcqFile, Connect, Disconnect, Send, SendFailsLate,
     ScanUnreadable, OpenScan, SaveScan, Abort
<1>2. CASE WriteRun
  <2>1. run \in Runs \ {0} /\ granted' = Append(granted, run)
    BY <1>0, <1>2, BrokerAssumption DEF WriteRun, GrantedOK, TypeOK, Runs
  <2>2. \A i \in DOMAIN granted : granted[i] < run
    <3>1. granted \in Seq(Nat)
      BY <1>0, BrokerAssumption DEF TypeOK, Runs
    <3>2. \A i \in DOMAIN granted : granted[i] <= run - 1 /\ granted[i] \in Nat
      BY <1>0, <1>2, <3>1 DEF WriteRun, GrantedOK, GrantedUpTo
    <3> QED
      BY <2>1, <3>2, BrokerAssumption DEF Runs
  <2>3. UNCHANGED <<accepted, closed>>
    BY <1>2 DEF WriteRun
  <2> QED
    BY <2>1, <2>2, <2>3 DEF L!Next, L!Grant
<1>3. CASE Close
  BY <1>3 DEF Close, history, L!Next, L!Close
<1>4. CASE Reply
  <2>1. /\ accepted' = accepted \cup {Answer} /\ step = "reply"
        /\ UNCHANGED <<granted, closed>>
    BY <1>4 DEF Reply, files
  <2>2. /\ Answer.dir = Dir /\ Answer.acq = acq /\ Answer.uniq = uniq /\ Dir[1] = run
    BY DEF Answer, Dir
  <2>3. Placed /\ ~closed /\ Dir \in dirs
    BY <1>0, <2>1 DEF JobOK, Placed, Recorded
  <2>4. L!Known(run)
    BY <1>0, <2>3 DEF GrantedOK, HandedOut, L!Known
  <2>5. \A a \in accepted : /\ a.uniq < uniq
                            /\ a.dir = Dir => a.acq < acq
                            /\ a.dir[1] = Dir[1] => a.dir = Dir
    BY <1>0, <2>1, <2>3 DEF AcceptedOK, Recorded, IInv, OneDirectoryPerRun
  <2>6. L!Accept(Answer)
    BY <2>1, <2>2, <2>3, <2>4, <2>5 DEF L!Accept
  <2> QED
    BY <2>1, <2>6 DEF L!Next
<1> QED
  BY <1>1, <1>2, <1>3, <1>4

(* The broker implements the ledger.                                        *)
THEOREM ImplementsLedger == Spec => LedgerSpec
<1>1. Init => L!Init
  BY DEF Init, L!Init
<1>2. IInv /\ [Next]_vars => [L!Next]_(L!ledgerVars)
  BY LedgerStep
<1> QED
  BY <1>1, <1>2, Inductive, PTL DEF Spec, LedgerSpec, L!Spec

=============================================================================
