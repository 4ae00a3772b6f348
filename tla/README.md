# A TLA+ model of sf_daq_broker

`sf_daq_broker` is the data acquisition service of SwissFEL.  Clients ask a
*broker* over HTTP to retrieve the data of an interval of pulses; the broker
numbers the acquisition, records it in the pgroup's directory, and sends one
*write request* per kind of data to RabbitMQ.  *Writer* processes take the write
requests and produce the output files, minutes later and on other machines.  A
second, *slow* broker runs handlers that may take long (detector settings, files
of configuration, scripts).  The state of the system is almost entirely in files
that several processes read and rewrite.

This directory holds the TLA+ modules that describe it, the TLC configurations
that check them on small instances, and theorems about them that TLAPS checks.

## Contents

| file | what it is |
| --- | --- |
| `Ledger.tla` | what the broker promises about run and acquisition numbers (abstract) |
| `Broker.tla` | the broker's handlers down to each file opened and written; implements `Ledger` |
| `BrokerInv.tla`, `BrokerProofs.tla` | its inductive invariant, and theorems about it |
| `WriteRequests.tla`, `WriteRequestsProofs.tla` | the life of a write request (abstract); what follows from it alone |
| `Delivery.tla`, `DeliveryProofs.tla` | a RabbitMQ queue and the writers on it; implements `WriteRequests`; theorems |
| `Daq.tla`, `DaqProofs.tla` | `Broker` and `Delivery` composed: what ends up in the output files; theorems |
| `Retrieve.tla`, `RetrieveProofs.tla` | the detector writers on the files they share: raw data, pedestals, conversions; theorems |
| `DetectorControl.tla`, `DetectorControlProofs.tla` | pedestal writers and slow broker on the trigger and the detectors; theorems |
| `ConfigFiles.tla` | PV list and analysis settings: rewritten in place, with copies |
| `DapScripts.tla` | the git clone through which analysis scripts are published |
| `UserFiles.tla` | copying users' files into a run |
| `Services.tla`, `ServicesProofs.tla` | these three composed, as the two broker processes serve them; theorems |
| `PulseIds.tla`, `PulseIdsProofs.tla` | pulse id ranges and the checks that go by them; theorems |
| `MC*.tla`, `MC*.cfg` | the instances TLC checks |
| `PROJECT.json` | which definition models which lines, runs, mutants, hazards, theorems |

## Inventory of the system

### Run numbers, acquisitions and bookkeeping (`broker_manager.py`, `validate.py`)

*State*, per pgroup, all in files below `/sf/<beamline>/data/<pgroup>/raw`:
`run_info/LAST_RUN` and `run_info/LAST_ARUN` (counters), `run_info/CLOSED`,
the run directories `runNNNN[-tag]`, and in each `meta/acqNNNN.json` (the request,
with its unique acquisition number) and `meta/scan.json` (the list of steps).

*Operations*: `advance_run_number`, `get_current_run_number`,
`retrieve_from_buffers`, `close_pgroup_writing`.

*Hard*: a handler has a dozen places where it can fail (a file, RabbitMQ, the
request itself) and leaves everything it wrote behind; clients retry.  Files are
truncated first and written later.  The number of a step is the number of files
found in `meta/`, which failed attempts leave there.  `CLOSED` and the tag are only
looked at after the run number was taken.

*Correct when*: numbers are never handed out twice; an acquisition that was answered
with `ok` stays recorded and its files are nobody else's; a run has one directory; a
closed pgroup gets nothing new.

### Write requests and writers (`rabbitmq/`, `writer/start.py`)

*State*: one `auto_delete` queue per kind of writer, the unconfirmed request of each
writer, the output files.  *Operations*: publish (broker), declare, bind, consume,
deliver, process in a thread, confirm or reject, report the status.  *Hard*: two
threads per writer, lost connections with a thread still writing, redelivery, a queue
that disappears with its last consumer, several writers on one queue.  *Correct when*:
no request is served twice at a time or forgotten while a writer is there, and a
confirmed request left the file it promises.

### Trigger, detectors and pedestal recording (`detector/`, `writer/start.py`, `broker_manager_slow.py`)

*State*: the event-code PV of the detector trigger; gain mode, pedestal mode and
acquisition of every detector; `run_file_json` with the pulse ids of a pedestal.
*Operations*: `take_pedestal` and `power_on_detector` on the pedestal writer,
`set_detector_settings`, `power_on_modules`, `power_off_modules` on the slow broker.
*Hard*: the trigger and the detectors are shared by two or more processes without a
lock; most steps can fail, and only the power-on restores the trigger in a `finally`; a
redelivered pedestal is taken again.  *Correct when*: who stops or switches something
puts it back, and the pulse ids recorded are those that are retrieved.

### Configuration files, scripts and user files (`broker_manager.py`, `broker_manager_slow.py`, `utils/`)

*State*: the PV list of the EPICS buffer and the settings of each detector's analysis
pipeline (DAP), with copies named after the second they are made in; a git clone of the
DAP scripts; the `aux` directory of a run.  *Operations*: `set_pvlist` (broker);
`set_dap_settings`, `upload_custom_dap_script`, `copy_user_files` (slow broker).
*Hard*: a save that fails half-way, copies of one name, a clone that failed calls leave
dirty or ahead of its origin, `CLOSED` created by the other process meanwhile.
*Correct when*: what was confirmed can be found again, and a failure leaves the service
usable and nothing untested published.

### Detector retrieval and conversion (`writer/detector_writer.py`, `writer/convert_file.py`)

*State*: raw file, converted file, `.err` audit file, pedestal files, the stream
configuration naming the current one, the gain maps of the pgroup.
*Operations*: `detector_retrieve`, `create_pedestal_file`, `copy_pedestal_file`,
`copy_calibration_files`, `convert_file`.  *Hard*: pedestals finished out of order by
competing writers, configuration rewritten without a lock, raw files removed after a
conversion that may not have produced anything.  *Correct when*: confirmed data is on
disk and the pedestal in service is complete.

### Pulse ids (`broker_manager.py`, `validate.py`, `writer/bsread_writer.py`, `utils/pulseids.py`, `client/check.py`)

*State*: none but the range a request carries.  *Operations*: adjusting and aligning
the range, the query by time, the writer's check, the selection of DAP lines, the user's
check.  *Hard*: five pieces of code with an idea each of ends, duplicates and rates.
*Correct when*: all of them are about the same pulses.

### Others

The REST layer (one request at a time, exceptions become answers), read-only status
queries, detector tables and wrappers, debugging tools.  `PROJECT.json` lists all of
them with what is modelled of each.

### How they interact

* broker -> RabbitMQ -> writers: write requests (topic exchange, one queue per kind);
* broker, writers -> status exchange: `write_request`, `write_start`, ... ; only the
  debugging tool listens;
* broker <-> slow broker: nothing but files (`CLOSED`, run directories);
* slow broker <-> writers: the trigger PV and the detectors, without any
  synchronisation;
* detector writers <-> each other: stream configuration, pedestal and gain map files;
* slow broker <-> git repository <-> others who push to it.

## Models of this project

### `Broker`

One pgroup and one broker process.  The server (`bottle` with its default server) is
single-threaded, so at most one handler runs: `step`, `job`, `ctr`, `run`, `acq`, `uniq`,
`todo` are its program counter and local variables, and `Return` is its end, by an answer
or an exception.  Every other variable is a file (`last`, `closed`, `dirs`, `acqFile`,
`scanFile`/`scan`) or history used by the properties only (`granted`, `sent`, `accepted`).

| action | code |
| --- | --- |
| `Receive` | the REST handler enters `advance_run_number`, `get_current_run_number` or `retrieve_from_buffers` |
| `CreateCounter`, `WriteZero` | `get_run_number`: `open(..., "w")` of a missing counter file, then `write("0")` |
| `TakeNumber`, `WriteRun`, `WriteAcq` | the same: read, `open(..., "w")`, write the incremented number |
| `CounterUnreadable` | `int("")` of a counter file that a crash left empty |
| `ReadNumber` | the same without increment, and `allowed_run_number` |
| `Validate`, `Reject` | `tag_matching_previous`, `CLOSED`, the remaining checks; `make_directories`, `get_current_step_in_scan` |
| `OpenAcqFile`, `SaveAcqFile` | `json_save` of `meta/acqNNNN.json` |
| `Connect`, `Send`, `SendFailsLate`, `Disconnect` | `BrokerClient`: one write request per source; `send` may raise after it published |
| `OpenScan`, `SaveScan`, `ScanUnreadable` | `save_scan_info`: load, append, rewrite `meta/scan.json` |
| `Reply` | the `ok` answer |
| `Close` | `close_pgroup_writing` |
| `Abort` | an exception or the end of the process at any step |

`Abort` at every step is what makes this model more than a sequential program: any
number of requests may stop anywhere, and later ones find what they left.

Abstracted: what is requested (channels, pulse ids, rates) is the set `sources` and a flag
`flawed` (a check that comes after the run number was taken, such as an unknown detector,
fails); requests that are rejected before anything is written change nothing and are left
out; a user tag is what it adds to the directory name.  A negative run number behaves as
run 0: neither is ever handed out and both pass `allowed_run_number`.  `tag_matching_previous`
globs for `runNNNN*`, whose match with run numbers of five digits is `StartsLike`.

`Ledger` is the abstract promise: run numbers grow; an accepted acquisition has a unique
number above all earlier ones, a step above all earlier ones of its directory, a run that
was handed out (or 0) and that run's only directory; nothing is accepted after closing.
`Broker!LedgerSpec` states that `Broker` implements it (`ledger` is `accepted`).

### `Delivery`

One queue and its writers.  `pc[w]` follows a writer through `start_service` (`Declare`,
`Bind`, `Consume`; `QueueGone` when the queue was deleted in between), `on_broker_message`
(`Deliver`, `StartThread`), the worker thread (`OpenFile` and `FillFile`, or `SkipFile`; then
`Succeed` or `Fail`), and the callback it schedules on the main thread (`Confirm` or `Reject`, then
`UpdateStatus`).  `Publish` is `BrokerClient.send`.  RabbitMQ is external and modelled from
how the code uses it: `prefetch_count=1`, explicit acknowledgement, unconfirmed requests go
back to the head of the queue, an `auto_delete` queue disappears with its last consumer,
unroutable requests are dropped.

A request need not be for a file: `process_request_internal` returns early for `/dev/null` and
for requests without channels, and `convert_file` writes no output for a detector request that
only compresses.  `Publish` decides it (`fileless`: it follows from what the request carries), and
`SkipFile` goes on to the confirmation without touching the disk.

A writer may `Die` at any point, and its link may be `Cut` without it knowing: RabbitMQ
delivers its request elsewhere while its thread goes on writing until `NoticeCut`.

Abstracted: the work on a request (fetching, converting, waiting for the data) is one
opening and one filling of the output file; the `.err` file is left out; a child process
such as `sf_writer` is taken to end with its writer; bodies are always the JSON objects
`BrokerClient.send` produces; a writer gets its next request after it reported the last
one (with prefetch 1 RabbitMQ may deliver it a moment earlier, to a main thread that is
still busy with the report).

`WriteRequests` is the abstract life: unsent, waiting, taken, done or refused; given back;
lost, and then together with every other open request.  `Delivery!WriteRequestsSpec`
states that `Delivery` implements it.

### `Daq`

`Broker` and `Delivery` share `sent`/`published`: sending a write request *is* publishing it
(`BrokerSends`), everything else interleaves.  `OutputFile` is the name the broker puts
into `output_file`; whether a writer will write it is chosen freely per request.  This is where the numbering of steps meets the order in which writers
finish.

### `Retrieve`

The detector writers and the files of one detector.  `Delivery` has the work on a request
as one opening and one filling of a file; here it is taken apart.  The requests come and go
as `WriteRequests` allows (`W!Take`, `W!GiveBack`, `W!Settle`), in any order.  `pc[w]` follows
the worker thread through `detector_retrieve`:

| actions | code |
| --- | --- |
| `OpenRaw`, `FillRaw` | the choice of `raw_file_name` (output file, `raw_data/`, or `daqtmp`), and `sf_writer` |
| `OpenResult`, `FillResult` | `create_pedestal_file`; a result without a good pixel is saved, then raises |
| `OpenCentral`, `FillCentral`, `LoadConfig`, `OpenConfig`, `SaveConfig` | `copy_pedestal_file`: copy to the central folder, name it in the stream configuration |
| `ServiceFails`, `NoMaps`, `MapsExist`, `MissMaps`, `OpenMaps`, `FillMaps` | the `try: ... finally: copy_calibration_files`: no gain file, one that was copied before, or the look for the copy, its truncation and its filling |
| `LoadCalibration`, `CountFrames`, `NoFrameSelected`, `OpenOutput`, `FillOutput`, `RemoveRaw` | `convert_file` |
| `Fail` | any other exception |
| `Settle`, `Die`, `Cut`, `NoticeCut` | as in `Delivery` |

`ask` fixes, for each request, which of the branches its options select: no conversion, a
conversion that writes an output file, compression or roi alone, or a pedestal run; and
`remove_raw_files`.  `gainFile` fixes whether the stream configuration names a gain file: if not,
a pedestal is confirmed without a copy of the gain map.  A file is absent, torn, raw, or converted with a certain pedestal.
`convert_file` reads its options from `acqNNNN.json`, not from the request; that the two agree
for accepted requests is what `AcceptedIsRecorded` says.

Abstracted: the frames (whether any is selected, whether any pixel is good, is chosen freely);
the pixel mask, copied like the gain maps; crystfel lists and DAP results, which can only fail;
two pedestals of the same second, which would share a central file.

### `DetectorControl`

The writers of the pedestal queue and the slow broker on one trigger and the detectors.
`pc[a]` follows an actor `a`; `trigger`, `gain`, `acquiring`, `inPedestal` are the hardware,
`record` is `run_file_json`, `sent` the retrieve requests a pedestal ends with.  Requests
come and go as `WriteRequests` allows, as in `Retrieve`.

| actions | code |
| --- | --- |
| `PutStop`, `StopVerified`, `StopRefuted`, `PutStart`, `StartVerified` | `Trigger.set`: put, wait, read back, raise if another value is read |
| `Call`, `CompareEqual`, `CompareUnequal`, `SetSettings`, `CallFails`, `Reply` | `set_detector_settings` |
| `StopDetector`, `ApplyConfig`, `StartDetector`, `PowerOnFails` | `power_on_detector`, with the `finally` that starts the trigger (`give up`) |
| `ReadGain`, `SwitchGain`, `RestoreGain` | the loops over the detectors of `take_pedestal`, by gains |
| `SwitchMode` | the same with `pedestalmode`: stop, enable, start, stop, disable, start |
| `OpenRecord`, `SaveRecord`, `SendRetrieve` | `detector_pedestal_retrieve` |
| `Fail`, `Settle`, `Die`, `Cut`, `NoticeCut` | as in `Retrieve` |

A turn of a loop is one step (`Turn`), so that everything may happen between two detectors.
History variables name what a fault left behind: `strayed` (the trigger), `unsettled` (a gain
mode two actors switched at a time, or an attempt that ended between reading and restoring),
`abandoned` (a detector left stopped or in pedestal mode).  The properties are about everything
else; that faults do leave these things behind is what the code does.

Abstracted: of the settings only the gain mode; the waits; the pulse ids, told apart by the
attempt that read them; the details of `apply_config`.

### `ConfigFiles`, `DapScripts`, `UserFiles`, `Services`

| actions | code |
| --- | --- |
| `SetPvlist`, `OpenConfig`, `FillConfig`, `OpenBackup`, `CopyToBackup`, `Answer` | `set_pvlist`: load, rewrite in place, then copy, then answer |
| `SetDapSettings`, `CreateEmpty`, `Compare`, `OpenBackup`, `CopyToBackup`, `OpenConfig`, `FillConfig`, `Restore`, `Answer` | `set_dap_settings`: load, copy, rewrite, put the copy back if that raised, answer |
| `Upload`, `Refuse`, `Pull`, `PullMerges`, `PullStops` | `upload_custom_dap_script` up to `GitRepo.update` |
| `WriteScript`, `Passes`, `FailsTest`, `Clean` | the `try` with `load_proc_from_file` and `test_run`, and `GitRepo.clean` |
| `Add`, `Commit`, `Push`, `PushRejected`, `PushUnanswered` | `GitRepo.commit` |
| `CopyUserFiles`, `OpenCopy`, `FillCopy`, `PassOver`, `Answer` | `copy_user_files` |
| `Fail`, `Die`, `Fault` | an exception, or the end of the process, at any step |

A content is the number of the call that wrote it, `Torn` or `Absent`; a commit is the version
of each script it leaves.  `good` is what a call left that was answered with `ok`, or that had only
to be answered when its process died: between the last write and the answer the file is what
the client asked for.  In `Services` the slow broker serves one request at a time
(`SlowBrokerIsIdle`); the broker's `set_pvlist` and `close_pgroup_writing` interleave with it.

External, from how the code uses it: git (`reset --hard`, `clean -fdx`; `__pycache__` is ignored;
`Remote.push` of GitPython reports a rejection in its result and does not raise), and EPICS.  Where
`pull --rebase` finds that others changed a script the clone has a commit of, it may stop at a
conflict (`PullStops`: HEAD, files and index are on top of the others' commits, the branch stays
where it was) or, if both changed one that was there, merge the two (`PullMerges`).  The result
of a merge is a code of its own, kept in `merged`: nobody loaded or ran it.

### `PulseIds`

An acquisition from its request to the checks of its file: `Retrieve` makes the ranges
(`Adjust`: `retrieve`; `AlignPids`: the loop before the detector requests), `Query` brings any
subset of the pulses, `Repeat`, `Swap`, `Misplace` and `Spoil` damage the entries, `Check` is
`check_data_consistency` of the bsread writer.  `DapLines` is `store_dap_info`, and
`ChannelPasses`, `CameraPasses`, `DetectorPasses` are the checks of `client/check.py`.  The
properties compare each with a set of pulses defined directly from the request.
The client's check reads an earlier file layout (`run_NNNNNN.BSREAD.h5`, `/data/<channel>`), so it is
modelled on entries rather than on the writers' files.  DAP files are named after multiples
of 10000 pulses, which is `Block`.  Requests begin anywhere, also with pulse 0 and below
(`validate.allowed_pulseid_range` only looks at the length and the order); what is found is of
pulses from 0 on.  A source without any pulse may be missing from the file
(`present`), which the writer's check logs.

## Runs

| run | instance | checks |
| --- | --- | --- |
| `broker_steps` | 1 run number, 3 acquisitions, 2 sources, 2 tags; every failure | `AcceptedIsRecorded`, `AcceptedFilesAreFinal`, `OnlyFirstStepsRepeat`, `ScanInOrder`, `TypeOK` |
| `broker_runs` | 3 run numbers, 2 acquisitions, 1 source, 2 tags | `UniqueNumbers`, `OneDirectoryPerRun`, `ClosedIsFinal`, `LedgerSpec` |
| `delivery` | 2 requests for a file or not, 2 writers, 2 breaks, with fairness | `InOnePlace`, `VerdictIsLast`, `ConfirmedIsWhole`, `WriteRequestsSpec`, `Served`, `TypeOK` |
| `daq` | 2 acquisitions, 2 writers, no breaks | `UndisputedFilesHoldTheirData`, `WrittenIsRecorded` |
| `daq_break` | 1 acquisition, 2 writers, 1 break | `UndisputedFilesHoldTheirData` |
| `daq_retry` | 2 acquisitions, 2 writers | `AcceptedFilesHoldTheirData` is **violated** |
| `daq_closed` | 2 acquisitions, 2 writers | `ClosedIsNotWritten` is **violated** |
| `retrieve` | 2 requests of any kind, a gain file or none, 2 writers, 1 break | `DataSurvives`, `CurrentPedestalIsGood`, `PedestalTookEffect`, `TypeOK` |
| `retrieve_compressed` | the same without breaks | `OutputExists` is **violated** |
| `detector_control` | 1 detector, 2 requests of any kind, 2 writers, the slow broker; 1 call, death or cut | `TriggerIsHeld`, `GainIsWanted`, `DetectorsGoOn`, `RetrieveFindsItsRange`, `ConfirmedIsSent`, `TypeOK` |
| `services` | 3 calls of any kind, 1 fault, 1 push of others, 2 seconds | `DapSettingsSurvive`, `DapFailureUndone`, `PvlistSurvives`, `PublishedIsTested`, `ConfirmedIsKept`, `CleanWhenIdle`, `LastReportedIsThere`, `TypeOK` |
| `pulse_ids` | all ranges of up to 5 pulses of -2..5 at 3 rates, 2 flaws | `RangesAgree`, `WriterCheckIsExact`, `DapLinesComplete`, `ClientChecksAreExact` |

Each property of a passing run has a mutant in `PROJECT.json`: a plausible mistake in the
code (written next to the definition it replaces) with which TLC finds the property
violated.

### Bounds, and why they are enough

* `MaxRun`, `MaxAcq` bound the numbers handed out; `Receive` does not start a request that
  would exceed them.  Three acquisitions allow a failed attempt, its retry and a further
  step, in every order; two tags and three runs allow every disagreement about a
  directory's name.
* `WideRun = 1` and `Radix = 2` print run numbers in binary without padding, so that run 1
  is a prefix of runs 2 and 3 as 1000 is of 10000..10009: the collision of the glob
  pattern happens inside the bound.
* `MaxBreaks` bounds how many writers die or are cut off.  Two give the chain cut,
  redelivery, crash of the second writer, redelivery, with the abandoned thread of the first
  still writing; `DeliveryProofs` covers any number.
* In `Retrieve` the requests are of every combination of kinds (they are chosen in `Init`), so
  that two suffice for pedestal against pedestal and pedestal against conversion; one break
  gives one redelivered request beside one that is not, or one abandoned thread beside its
  successor.
* `DetectorControl` runs with one detector and one event: two requests then compete with each
  other and with a call, or meet one death or cut.  Two detectors with two requests have some nine
  million states, too many for a routine run; two detectors with one request (168 thousand)
  pass as well, and the theorems hold for any number of detectors, requests and events.
* In `Services` three calls give a confirmed content, one that fails, and one that meets what it left;
  two seconds let copies have one name or two.
* In `PulseIds` the rates 1, 2, 4 and the pulses -2 to 5 have ranges that begin, end, both or neither with a
  pulse of the beam, ones without any, and ones before, at and across pulse 0; a range spans up to three blocks of two pulses;
  two flaws can make up for each other (one pulse missing, another twice).
* Two writers are enough for every race on a queue: a request has at most one owner and at
  most one abandoned thread per cut.

### Fairness

`Served` assumes `Delivery!Fairness`, per writer: `start_service` runs straight through
from the declaration to consuming; a running writer takes what it is given, its thread
ends (`process_async` catches everything and always schedules a callback), and the
callback runs; and a main thread whose connection is gone finds out
(`start_consuming` raises).  Nothing obliges anyone to start a writer (`Declare`), to send a
request, or to keep a connection.  The premise `<>[](Consumers # {})` is needed: without a
consumer the queue is deleted or requests wait for ever, as they do in operation.  The
time-outs of the data API and `sf_writer` are inside `FillFile`/`Fail`; that those calls
return is assumed.

## Proofs

Eight modules hold the theorems.  Each extends the module it is about and proves that its
invariants are kept by every action, for *every* value of the constants that satisfies the
assumption named in that module (`WriteRequestsProofs` needs none); TLC checked each inductive invariant on the instances first.
Some formulas (`SettledForGood`, `OnlyEarlierRequests`, `RawIsKept`, ...) are not properties of a run: they
are defined beside their theorems.

| module | theorem | states |
| --- | --- | --- |
| `BrokerProofs` | `Inductive`, `TypeCorrect` | `Spec => []IInv`, and `TypeOK` from it |
| | `Bookkeeping` | `AcceptedIsRecorded` |
| | `NoReuse` | `AcceptedFilesAreFinal` |
| | `FirstStepsOnly` | `OnlyFirstStepsRepeat` |
| | `ScanOrder` | `ScanInOrder` |
| | `Uniqueness` | `UniqueNumbers` |
| | `RunDirectory` | `OneDirectoryPerRun` |
| | `Closed` | `ClosedIsFinal`, an action property |
| | `ImplementsLedger` | `LedgerSpec`: `Broker` implements `Ledger` |
| `WriteRequestsProofs` | `Final` | `SettledForGood`: confirmed, refused and lost are final, an action property |
| `DeliveryProofs` | `TypeCorrect` | `TypeOK` |
| | `OnePlace` | `InOnePlace` |
| | `VerdictLast` | `VerdictIsLast` |
| | `ConfirmedWhole` | `ConfirmedIsWhole` |
| | `VerdictForGood` | `SettledForGood` of the abstract module: no verdict is overturned, an action property |
| | `ImplementsWriteRequests` | `WriteRequestsSpec`: `Delivery` implements `WriteRequests` |
| `DaqProofs` | `FilesHoldTheirData` | `UndisputedFilesHoldTheirData` |
| | `WrittenRecorded` | `WrittenIsRecorded` |
| | `KeepsTheLedger` | `LedgerSpec`, with the writers running |
| | `DeliversAsDelivery`, `RequestsSettleOnce` | `Delivery!Spec`, and with it `WriteRequestsSpec`, `SettledForGood` and `InOnePlace`, with the broker running |
| | `AfterClosing` | `OnlyEarlierRequests`: what closing a pgroup does stop, an action property |
| `RetrieveProofs` | `TypeCorrect` | `TypeOK` |
| | `PedestalEffect` | `PedestalTookEffect` |
| | `DataKept` | `DataSurvives` |
| | `PedestalGood` | `CurrentPedestalIsGood` |
| | `RawKept` | `RawIsKept`: a confirmed request has its raw file unless it asked for its removal |
| | `ConfirmedForGood` | `ConfirmedFilesStay`: nothing touches the files of a confirmed request, an action property |
| `DetectorControlProofs` | `TypeCorrect` | `TypeOK` |
| | `TriggerHeld` | `TriggerIsHeld` |
| | `DetectorsResume` | `DetectorsGoOn` |
| | `GainsRestored` | `GainIsWanted` |
| | `RangeRecorded` | `RetrieveFindsItsRange` |
| | `PedestalIsSent` | `ConfirmedIsSent` |
| `ServicesProofs` | `TypeCorrect` | `TypeOK` |
| | `SettingsSurvive` | `DapSettingsSurvive` |
| | `FailureUndone` | `DapFailureUndone` |
| | `Pvlist` | `PvlistSurvives` |
| | `Published` | `PublishedIsTested` |
| | `ScriptsKept` | `ConfirmedIsKept` |
| | `CloneClean` | `CleanWhenIdle` |
| | `LastReported` | `LastReportedIsThere` |
| | `AfterClosing` | `OnlyFinishesCopying`: what closing a pgroup leaves to `copy_user_files`, an action property |
| `PulseIdsProofs` | `RangesAligned` | `RangesAgree` |
| | `DapLinesStored` | `DapLinesComplete` |
| | `WriterCheckExact` | `WriterCheckIsExact` |
| | `ClientChecksExact` | `ClientChecksAreExact` |

Hardly any of the properties is inductive.  What the arguments need beyond them:

**Broker** (`BrokerAssumption`: naturals for the sources, at least one run and acquisition
number, placeholders distinct from the values they stand beside).  `IInv`, in `BrokerInv`, has

* `JobOK`, `BoundOK`: what the handler carries at each of its steps;
* `MetaOK`: the records of a directory are exactly steps 1..k, and without `scan.json` k is
  at most 1.  This is why counting files works: with `scan.json` present, k records plus
  one file give step k + 1; without it, an empty directory gives 1 and one with a single
  failed record gives 1 again, which is the one case a step number is used twice;
* `PlaceOK`: from the moment the handler has its step, all lower steps exist, no higher one
  does, and if `scan.json` exists its own does not exist yet;
* `FreshOK`: nothing on disk or in RabbitMQ carries a unique number above `LAST_ARUN`,
  whatever state the counter file is in;
* `SentOK`, `AcceptedOK`, `ScanKeeps`: what was sent, accepted and listed lies behind the
  handler's place, so nothing it will do touches it;
* `GrantedOK`: the run numbers handed out are 1..`LAST_RUN`.

There is one lemma per group of conjuncts with one step per action; `ImplementsLedger` uses
the invariant to map each step to a step of `Ledger` or a stutter.

**Delivery** (`DeliveryAssumption`: finitely many writers, whose requests `QueueGone` and the
end of the last consumer put back or drop together).  `Core` is `TypeOK`, `HeldOK` (what is held
was published, and who works on a request nobody was cut off from still has its link) and
`PlaceOK`: the queue holds each request once, and the open requests are those that wait or have
exactly one linked owner.  On it rest `ToldOK` (no verdict was reported before its owner
settles the request) and `WholeOK` (an undisputed file is whole from the moment its writer has
filled it; a request without a file is in nobody's way, since its writer passes the disk by).  The refinement needs `Core` only: it shows that a request that is given back or lost was
open, and that a request is settled by the owner that took it.

**WriteRequests** has a proof of its own: that verdicts are final is shown once on five actions and
carried to `Delivery` by the refinement (`SameLife`: both instances of the abstract module have the
same behaviours), and from there to `Daq`.  `Retrieve` and `DetectorControl` are written with the
actions of `WriteRequests`, so that a refinement would say nothing of them.

**Daq** (`DaqAssumption` and `BrokerAssumption`).  A step of `Daq` is a step of `Broker` or a stutter of it,
and a step of `Delivery` or a stutter of it, so that `IInv`, `Core` and `WholeOK` hold together; their step lemmas are cited, not
repeated.  Added are `FilesOK` (a file holds data of a request sent for it) and `RecordOK` (a
request that was sent is on record, or a later one of its step is).  The same step lemmas give the
two refinements: restricted to their variables, the behaviours of `Daq` are behaviours of
`Broker` (`BrokerAlone`, by the way `Daq` is written) and of `Delivery` (which needs that what is
sent was not sent before), so whatever is proved of either alone holds of the whole
(`KeepsTheLedger`, `RequestsSettleOnce`).  `AfterClosing` adds to `ClosedIsFinal` what each step does to
the disk (`DiskStep`): a file changes only for a request that names it and was sent.

**Retrieve** (`RetrieveAssumption`).  `HeldOK`: a request that is taken has one linked writer, and
any other that still works on it was given up; it is why a confirmed request's files are
nobody's anymore.  `KindOK`: each place of the code is reached only by requests of its kinds,
with the raw file where these go.  `EffectOK`, `DataOK` and `PedestalOK` say what an attempt
has done by each place of the code, as long as nobody given up works on its request: the raw
file is whole when it is converted, the converted file when the raw one is removed, the
pedestal good when it is copied, and so on; the gain map, once it is looked for, is there, and
whole unless it is being made or making one broke off.  `RawOK` follows the raw file itself: `DataSurvives` is
content with the converted file, `RawKept` is not, unless removal was asked for.
`ConfirmedForGood` is the other half of every property about confirmed requests (`Confirmed`: no
attempt at them was given up): these say that the files are right at all times after, this one
that they are the *same*; it needs `HeldOK` (nobody works on them any more) and that a writer
touches only the files of its request.

**DetectorControl** (`ControlAssumption`).  `Typed` refines the types by what each place of the
code knows (`ActorsOK`, `EffectsOK`).  `GainOK`: some switch of a detector's gain mode, and then
only one, knows what its user wants.  `DetectorsOK`: for each detector that is stopped or in
pedestal mode somebody is going to start it or take it out.  `RangeOK`: what an attempt sent is
what it recorded before, and two attempts at one request differ.  `SentOK`: the confirmed
pedestals have sent their requests.

**Services** (`ServicesAssumption`).  The three services share no variable, so that `IInv` is a
conjunction of one invariant each; only `OneRequest` (the slow broker serves one request) speaks
of all.  `DapOK`: the settings are what they should be, or torn and whole in the copy of the call
that rewrites them.  `PvlistOK`: a confirmed list has a copy until another is made in the same
second.  `CloneOK`: how far files and index of the clone are ahead of its last commit at each
place of an upload.  `TestedOK`: whatever has a commit, or is about to have one, was tested or
merged of what was.
`KeptOK`: the code of a call is that of no commit yet, and a script the clone is ahead with is at
least as new as the confirmed one, otherwise the one in the repository is; this is what survives
a pull, a rejected push and a push nobody heard the answer of.  `CopiedOK`: the loop comes to the files in order, which
needs that a set of naturals has a least element (`Least`, from `WellFoundedInduction`).

`AfterClosing` needs that a name is only written for a file the loop has yet to finish.

**PulseIds** (`PulseIdsAssumption`).  `IInv` is `EntriesOK` (the types of the entries), `RangesOK` (the ranges
are those `Adjust` and `AlignPids` make of the request) and `CheckedOK` (what the writer's check
found is what it finds in the entries as they are).  The theorems are then about functions:

* `AlignPids` is a loop over pulse ids and `Kept` the one over entries that are kept or
  passed over.  Both are recursive functions on naturals.  The prover has no induction over a
  predicate, but the least element of a *set* of naturals: `LeastNat` and `AllNat` take the set of
  counterexamples.  With them `KeepsExists` and `AlignsExists` show that functions with these
  equations exist, and so that the definitions mean them; `KeptPlaces` and `AlignPidsAligns` what
  they return for every argument.
* `SameAscending`: two ascending sequences of the same numbers are equal.  It turns the comparison of
  lists in `client/check.py` into one of sets of pulses and of their order (`AgreesIsExact`).
* `CountIsExact`, `KeptIsPrefix`: the writer's check counts and sorts; that its numbers agree means that
  each pulse is there once, and what it calls monotonic fails only where pulses are missing.

Only model-checked: `Served`, since liveness under fairness needs ENABLED, which is beyond the prover; and
the properties of the runs that expect a violation, which are false.  No module uses a RECURSIVE
operator.

## Findings

1. `daq_retry`: a first step that fails after its write requests went out leaves one file in
   `meta/`, so that `get_current_step_in_scan` gives its retry step 1 again and the same
   output files.  With two writers on the queue the failed request may be written last,
   over the file of the accepted one, and both are confirmed.  From the second step on
   (`scan.json` exists) this cannot happen: `UndisputedFilesHoldTheirData`.
2. `daq_closed`: `close_pgroup_writing` does not stop write requests that are on their way.
   They are written into the closed pgroup although the documentation says it is closed
   for further writing and starts archiving it.  What holds instead is `DaqProofs!AfterClosing`: nothing is
   sent any more, and only files of requests sent before are written.
3. `retrieve_compressed`: with `compression` alone `detector_retrieve` puts the raw data elsewhere
   and relies on `convert_file` for the output file, which writes none in that case; the
   request is confirmed.  The raw data itself stays where it was put (`RetrieveProofs!RawKept`).  With
   `remove_raw_files` that is `daqtmp`.

What the models show reachable and no document speaks of, so that it is not a finding:

* Pedestals: a writer that dies while it saves the stream configuration leaves it empty and
  fails every later pedestal and conversion of the detector; a torn copy of the gain map is
  never replaced, and later pedestals are confirmed with it; without a gain file in the
  configuration they are confirmed without one; which of several pedestals ends up in service is decided by which writer
  finishes last; a thread whose connection was given up can truncate the confirmed output of
  its successor.
* Hardware: `set_detector_settings` has no `finally`, so that an exception between stopping and
  starting leaves the trigger stopped; a pedestal that fails leaves the detectors in a fixed
  gain, in pedestal mode or stopped, and the next attempt takes what it finds for what to
  restore.
* Pulse ids: the loop that aligns a range to the beam takes 0 for "none found yet"
  (`broker_manager.py:472`).  When no pulse of the beam is in the requested range, the detectors are
  asked for everything from pulse 0 on, far beyond what `validate.allowed_pulseid_range` means to
  allow, and `store_dap_info` then goes through as many.  When the range begins with pulse 0, which
  is one of the beam, the detectors are asked for what comes after it only.  `RangesAgree` and
  `DapLinesComplete` except both (the former demands nothing of the detectors' range where no
  pulse of the beam was requested; `Lost` is the pulse 0).
* The bsread writer's check ignores the order of the pulses unless some are missing, always
  expects every pulse (write requests carry no rate), and raises for a channel without entries
  but not for one that is missing.  `client/check.py` was written for an earlier file layout, and
  fails when it expects no pulse.
* Scripts: `test_run` cannot see changes to the metadata, because the function runs in a child
  process; a rejected push goes unnoticed and the upload is answered with `ok`.  A later pull may
  merge that commit with one of others to the same script, and what results is published with
  the next push although nobody loaded or ran it (`PublishedIsTested` excepts `merged`); or it
  stops at a conflict, and every upload is refused until somebody mends the clone.
* A `copy_user_files` that is under way when the pgroup is closed goes on copying into it, but to the
  files it has left only, and no other call begins (`ServicesProofs!AfterClosing`).

## Not modelled, and why

* `power_on_modules` and `power_off_modules`: one external call each, which shares no state with
  anything modelled.  Status queries only read.  Routing, parsing and formatting of the REST
  layer keep no state; that exceptions become answers is `Abort`, `Fail` and `CallFails`.
* The pixel mask of a pedestal, copied like the gain map by the same function.
* The tables of detectors and their wrappers (`detector_consts.py`, `detector_config.py`, `detector.py`):
  data and calls into `slsdet`; what they do to gain, mode and acquisition is in `DetectorControl`.
* The `.err` audit file of a failed request (`writer/start.py`): the request as text, for people; nothing in
  the code reads it.
* Liveness of `DetectorControl`, `Retrieve` and `Services`: each request is served by a thread that
  runs to its end, so it adds nothing to `Served` except for calls into hardware and services
  that may block for ever, which no fairness of this code excludes.
* The debugging tools, `tools/buffer_config.py`, the rest of the client, `unused/`, `tests-legacy/`:
  they take no part in the running service.

What could be added: two beamlines or pgroups, which share no state but the queue, where requests of
one wait behind those of the other.
