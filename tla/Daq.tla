-------------------------------- MODULE Daq ---------------------------------
(***************************************************************************)
(* The broker and the writers of one queue together: the write requests    *)
(* that Broker sends are the ones Delivery publishes, and the output files *)
(* are named by what the broker puts in output_file: run directory, step   *)
(* number and source.                                                      *)
(***************************************************************************)
EXTENDS Broker

CONSTANTS Writers, MaxBreaks, NoRequest

ASSUME DaqAssumption ==
  /\ IsFiniteSet(Writers)
  /\ MaxBreaks \in Nat
  /\ NoRequest \notin Messages

VARIABLES fileless, lost, exists, queue, settled, status, pc, held, linked,
          disk, orphaned, breaks

delivery == <<fileless, lost, exists, queue, settled, status, pc, held, linked,
              disk, orphaned, breaks>>

(* output_file = {path_to_pgroup}{run directory}/data/acqNNNN.{suffix}.h5   *)
OutputFiles == Dirs \X Steps \X Sources

(* Mutant: the run directory is left out of the name.                       *)
OutputFileFlat == [m \in Messages |-> <<CHOOSE d \in Dirs : TRUE, m.acq, m.source>>]

OutputFile == [m \in Messages |-> <<m.dir, m.acq, m.source>>]

D == INSTANCE Delivery WITH Requests <- Messages, Files <- OutputFiles,
                            FileOf <- OutputFile, published <- sent

daqVars == <<vars, delivery>>

DaqInit == Init /\ D!Init

(* A source may ask for no output file (a detector with compression only).  *)
BrokerSends(s) ==
  /\ Send(s) \/ SendFailsLate(s)
  /\ \E file \in BOOLEAN : D!Publish(Message(s), file)

BrokerWorks ==
  /\ \/ \E j \in Jobs : Receive(j)
     \/ Close
     \/ CreateCounter \/ WriteZero \/ CounterUnreadable
     \/ TakeNumber \/ WriteRun \/ WriteAcq \/ ReadNumber
     \/ Validate \/ Reject \/ OpenAcqFile \/ SaveAcqFile
     \/ Connect \/ Disconnect
     \/ ScanUnreadable \/ OpenScan \/ SaveScan \/ Reply
     \/ Abort
  /\ UNCHANGED delivery

WriterWorks(w) ==
  /\ D!Join(w) \/ D!Serve(w) \/ D!Break(w)
  /\ UNCHANGED vars

DaqNext ==
  \/ \E s \in Sources : BrokerSends(s)
  \/ BrokerWorks
  \/ \E w \in Writers : WriterWorks(w)

DaqSpec == DaqInit /\ [][DaqNext]_daqVars

-----------------------------------------------------------------------------
(* The write request of source s in the accepted acquisition a.             *)
MessageOf(a, s) == [dir |-> a.dir, acq |-> a.acq, source |-> s, uniq |-> a.uniq]

(* r was confirmed by a writer that kept its link all along.                *)
Confirmed(r) == settled[r] = "ack" /\ r \notin orphaned

HoldsDataOf(r) == disk[OutputFile[r]] = [by |-> r, whole |-> TRUE]

(* The files named in an "ok" answer hold what was asked for once their     *)
(* requests are confirmed, whatever was requested, failed and retried       *)
(* before and after: always from the second step of a directory on, and in  *)
(* the first if no failed request for it went out before.  The answer also  *)
(* names files nobody asked a writer for: they are confirmed unwritten.     *)
FirstTry(a) ==
  \A m \in sent \ fileless : m.dir = a.dir /\ m.acq = a.acq => m.uniq = a.uniq

UndisputedFilesHoldTheirData ==
  \A a \in accepted : \A s \in a.sources :
    /\ MessageOf(a, s) \notin fileless
    /\ a.acq # 1 \/ FirstTry(a)
    /\ Confirmed(MessageOf(a, s))
    => HoldsDataOf(MessageOf(a, s))

(* The same without exception for a first step (broker_rest_api.md: the     *)
(* answer carries "a list of files produced by SF-DAQ for the retrieved     *)
(* data"), where a file was asked for.                                      *)
AcceptedFilesHoldTheirData ==
  \A a \in accepted : \A s \in a.sources :
    MessageOf(a, s) \notin fileless /\ Confirmed(MessageOf(a, s))
      => HoldsDataOf(MessageOf(a, s))

(* Every file written belongs to a recorded request: the record is saved    *)
(* before the first write request goes out, and no later request unsaves    *)
(* it, but for a torn rewrite of a first step.                              *)
WrittenIsRecorded ==
  \A f \in OutputFiles :
    disk[f].by # NoRequest =>
      /\ f[1] \in dirs
      /\ acqFile[f[1]][f[2]] \in {Blank} \cup Steps
      /\ acqFile[f[1]][f[2]] \in Steps => acqFile[f[1]][f[2]] >= disk[f].by.uniq

(* A closed pgroup is not written to (broker_rest_api.md: "Close the        *)
(* designated pgroup for further writing by the sf_daq").                   *)
ClosedIsNotWritten == [][closed => UNCHANGED disk]_daqVars

=============================================================================
