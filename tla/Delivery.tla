------------------------------ MODULE Delivery ------------------------------
(***************************************************************************)
(* One RabbitMQ queue of write requests and the writer processes that      *)
(* consume it (writer/start.py).  A writer has two threads: the main       *)
(* thread talks to RabbitMQ, and a daemon thread processes the one request *)
(* the writer may hold (prefetch 1), then hands a callback to the main     *)
(* thread that confirms or rejects it.  The queue is auto_delete: it       *)
(* disappears, with what is in it, when its last consumer leaves.          *)
(*                                                                         *)
(* Publishing (rabbitmq/broker_client.py) succeeds whether or not anyone   *)
(* listens.  RabbitMQ itself is modelled from how the code uses it: it     *)
(* routes a request to a bound queue or drops it, gives the request at the *)
(* head to any idle consumer, and puts the unconfirmed request of a lost   *)
(* connection back at the head.                                            *)
(***************************************************************************)
EXTENDS Integers, Sequences, FiniteSets

CONSTANTS
  Requests,   \* the write requests
  Writers,    \* the writer processes
  Files,      \* the output files
  FileOf,     \* the output_file of each request
  MaxBreaks,  \* bound: writers that die or lose their connection
  NoRequest   \* a writer holds nothing; a file was never opened

ASSUME DeliveryAssumption ==
  /\ FileOf \in [Requests -> Files]
  /\ IsFiniteSet(Writers)
  /\ MaxBreaks \in Nat
  /\ NoRequest \notin Requests

VARIABLES
  published,  \* requests given to BrokerClient.send (history)
  fileless,   \* those of them that ask for no output file
  lost,       \* requests no queue kept (history)
  exists,     \* the queue: "none", "declared" or "bound" to the exchange
  queue,      \* the requests waiting in it
  settled,    \* what RabbitMQ was told of each request: "ack", "reject"
  status,     \* the writers' status messages about each request, in order
  pc,         \* where each writer is
  held,       \* the request it works on
  linked,     \* RabbitMQ still has its connection
  disk,       \* who wrote each output file last, and whether to its end
  orphaned,   \* requests whose writer lost its link while working (history)
  breaks      \* how many links were lost so far

vars == <<published, fileless, lost, exists, queue, settled, status, pc, held,
          linked, disk, orphaned, breaks>>

Joining == {"declared", "bound"}
Thread  == {"write", "writing", "written"}
Decided == {"succeeded", "failed"}
Owning  == {"start"} \cup Thread \cup Decided   \* the request is unconfirmed
Telling == {"acked", "rejected"}
Working == Owning \cup Telling
Events  == {"write_start", "write_finished", "write_rejected"}

TypeOK ==
  /\ published \subseteq Requests
  /\ fileless \subseteq published
  /\ lost \subseteq Requests
  /\ exists \in {"none", "declared", "bound"}
  /\ queue \in Seq(Requests)
  /\ settled \in [Requests -> {"open", "ack", "reject"}]
  /\ status \in [Requests -> Seq(Events)]
  /\ pc \in [Writers -> {"down", "idle"} \cup Joining \cup Working]
  /\ held \in [Writers -> Requests \cup {NoRequest}]
  /\ linked \in [Writers -> BOOLEAN]
  /\ disk \in [Files -> [by: Requests \cup {NoRequest}, whole: BOOLEAN]]
  /\ orphaned \subseteq Requests
  /\ breaks \in 0..MaxBreaks

Init ==
  /\ published = {}
  /\ fileless = {}
  /\ lost = {}
  /\ exists = "none"
  /\ queue = <<>>
  /\ settled = [r \in Requests |-> "open"]
  /\ status = [r \in Requests |-> <<>>]
  /\ pc = [w \in Writers |-> "down"]
  /\ held = [w \in Writers |-> NoRequest]
  /\ linked = [w \in Writers |-> FALSE]
  /\ disk = [f \in Files |-> [by |-> NoRequest, whole |-> FALSE]]
  /\ orphaned = {}
  /\ breaks = 0

Goto(w, p) == pc' = [pc EXCEPT ![w] = p]

Tell(r, e) == status' = [status EXCEPT ![r] = Append(@, e)]

-----------------------------------------------------------------------------
(* BrokerClient.send: a request published before a writer bound the queue   *)
(* goes nowhere.  Its options say whether it is for an output file: not so  *)
(* if it names /dev/null or no channels, or if all it asks of a detector is *)
(* to compress.                                                             *)
Publish(r, file) ==
  /\ r \notin published
  /\ published' = published \cup {r}
  /\ fileless' = IF file THEN fileless ELSE fileless \cup {r}
  /\ IF exists = "bound"
       THEN queue' = Append(queue, r) /\ UNCHANGED lost
       ELSE lost' = lost \cup {r} /\ UNCHANGED queue
  /\ UNCHANGED <<exists, settled, status, pc, held, linked, disk, orphaned,
                 breaks>>

-----------------------------------------------------------------------------
(* start_service: connect and declare the queue, bind it, consume it.       *)

Declare(w) ==
  /\ pc[w] = "down"
  /\ exists' = IF exists = "none" THEN "declared" ELSE exists
  /\ linked' = [linked EXCEPT ![w] = TRUE]
  /\ Goto(w, "declared")
  /\ UNCHANGED <<published, fileless, lost, queue, settled, status, held, disk,
                 orphaned, breaks>>

Bind(w) ==
  /\ pc[w] = "declared"
  /\ linked[w]
  /\ exists # "none"
  /\ exists' = "bound"
  /\ Goto(w, "bound")
  /\ UNCHANGED <<published, fileless, lost, queue, settled, status, held,
                 linked, disk, orphaned, breaks>>

Consume(w) ==
  /\ pc[w] = "bound"
  /\ linked[w]
  /\ exists # "none"
  /\ Goto(w, "idle")
  /\ UNCHANGED <<published, fileless, lost, exists, queue, settled, status,
                 held, linked, disk, orphaned, breaks>>

(* Another writer's leaving deleted the queue since it was declared: the    *)
(* channel is closed and the service ends.                                  *)
QueueGone(w) ==
  /\ pc[w] \in Joining
  /\ linked[w]
  /\ exists = "none"
  /\ linked' = [linked EXCEPT ![w] = FALSE]
  /\ Goto(w, "down")
  /\ UNCHANGED <<published, fileless, lost, exists, queue, settled, status,
                 held, disk, orphaned, breaks>>

-----------------------------------------------------------------------------
(* on_broker_message and process_request.                                   *)

(* RabbitMQ gives the head of the queue to a consumer with nothing to       *)
(* confirm (prefetch_count 1).                                              *)
Deliver(w) ==
  /\ pc[w] = "idle"
  /\ linked[w]
  /\ queue # <<>>
  /\ held' = [held EXCEPT ![w] = Head(queue)]
  /\ queue' = Tail(queue)
  /\ Goto(w, "start")
  /\ UNCHANGED <<published, fileless, lost, exists, settled, status, linked,
                 disk, orphaned, breaks>>

StartThread(w) ==
  /\ pc[w] = "start"
  /\ linked[w]
  /\ Tell(held[w], "write_start")
  /\ Goto(w, "write")
  /\ UNCHANGED <<published, fileless, lost, exists, queue, settled, held,
                 linked, disk, orphaned, breaks>>

(* The daemon thread truncates the output file and fills it, ...            *)
OpenFile(w) ==
  /\ pc[w] = "write"
  /\ held[w] \notin fileless
  /\ disk' = [disk EXCEPT ![FileOf[held[w]]] = [by |-> held[w], whole |-> FALSE]]
  /\ Goto(w, "writing")
  /\ UNCHANGED <<published, fileless, lost, exists, queue, settled, status,
                 held, linked, orphaned, breaks>>

FillFile(w) ==
  /\ pc[w] = "writing"
  /\ disk' = [disk EXCEPT ![FileOf[held[w]]] = [by |-> held[w], whole |-> TRUE]]
  /\ Goto(w, "written")
  /\ UNCHANGED <<published, fileless, lost, exists, queue, settled, status,
                 held, linked, orphaned, breaks>>

(* ... or returns early, or runs a conversion that has no file to write.    *)
SkipFile(w) ==
  /\ pc[w] = "write"
  /\ held[w] \in fileless
  /\ Goto(w, "written")
  /\ UNCHANGED <<published, fileless, lost, exists, queue, settled, status,
                 held, linked, disk, orphaned, breaks>>

(* Mutants: the request is confirmed while the file is being filled; the    *)
(* thread reports its end before RabbitMQ is told; it ends without a        *)
(* callback when it fails.                                                  *)
SucceedEarly(w) ==
  /\ pc[w] \in {"writing", "written"}
  /\ Goto(w, "succeeded")
  /\ UNCHANGED <<published, fileless, lost, exists, queue, settled, status,
                 held, linked, disk, orphaned, breaks>>

SucceedTelling(w) ==
  /\ pc[w] = "written"
  /\ Tell(held[w], "write_finished")
  /\ Goto(w, "succeeded")
  /\ UNCHANGED <<published, fileless, lost, exists, queue, settled, held,
                 linked, disk, orphaned, breaks>>

FailSilently(w) ==
  /\ pc[w] \in Thread
  /\ Goto(w, "hung")
  /\ UNCHANGED <<published, fileless, lost, exists, queue, settled, status,
                 held, linked, disk, orphaned, breaks>>

(* The checks after that pass, or anything on the way raises.               *)
Succeed(w) ==
  /\ pc[w] = "written"
  /\ Goto(w, "succeeded")
  /\ UNCHANGED <<published, fileless, lost, exists, queue, settled, status,
                 held, linked, disk, orphaned, breaks>>

Fail(w) ==
  /\ pc[w] \in Thread
  /\ Goto(w, "failed")
  /\ UNCHANGED <<published, fileless, lost, exists, queue, settled, status,
                 held, linked, disk, orphaned, breaks>>

(* Mutant: RabbitMQ takes an answer from a connection it has given up.      *)
SettleUnlinked(w, from, answer, to) ==
  /\ pc[w] = from
  /\ settled' = [settled EXCEPT ![held[w]] = answer]
  /\ Goto(w, to)
  /\ UNCHANGED <<published, fileless, lost, exists, queue, status, held,
                 linked, disk, orphaned, breaks>>

(* confirm_request and reject_request tell RabbitMQ first ...               *)
Settle(w, from, answer, to) ==
  /\ pc[w] = from
  /\ linked[w]
  /\ settled' = [settled EXCEPT ![held[w]] = answer]
  /\ Goto(w, to)
  /\ UNCHANGED <<published, fileless, lost, exists, queue, status, held,
                 linked, disk, orphaned, breaks>>

Confirm(w) == Settle(w, "succeeded", "ack", "acked")

Reject(w) == Settle(w, "failed", "reject", "rejected")

(* ... and then everybody else; the writer is idle again.                   *)
UpdateStatus(w) ==
  /\ pc[w] \in Telling
  /\ linked[w]
  /\ Tell(held[w], IF pc[w] = "acked" THEN "write_finished" ELSE "write_rejected")
  /\ held' = [held EXCEPT ![w] = NoRequest]
  /\ Goto(w, "idle")
  /\ UNCHANGED <<published, fileless, lost, exists, queue, settled, linked,
                 disk, orphaned, breaks>>

-----------------------------------------------------------------------------
(* RabbitMQ loses a consumer: its unconfirmed request goes back to the head *)
(* of the queue, and if it was the last consumer the queue goes too.        *)

Consumers == {w \in Writers : linked[w] /\ pc[w] \in {"idle"} \cup Working}

(* Mutants: a request comes back until it was reported, not until it was    *)
(* confirmed; whatever the writer holds comes back.                         *)
ReturnedUntilTold(w) == IF pc[w] \in Working THEN <<held[w]>> \o queue ELSE queue
ReturnedAlways(w) == <<held[w]>> \o queue

Returned(w) == IF pc[w] \in Owning THEN <<held[w]>> \o queue ELSE queue

Unlink(w) ==
  /\ linked[w]
  /\ breaks < MaxBreaks
  /\ breaks' = breaks + 1
  /\ linked' = [linked EXCEPT ![w] = FALSE]
  /\ IF Consumers = {w}
       THEN /\ lost' = lost \cup {Returned(w)[i] : i \in DOMAIN Returned(w)}
            /\ queue' = <<>>
            /\ exists' = "none"
       ELSE /\ queue' = Returned(w)
            /\ UNCHANGED <<lost, exists>>

(* The process ends (a crash, a shutdown, a signal).                        *)
Die(w) ==
  /\ Unlink(w)
  /\ held' = [held EXCEPT ![w] = NoRequest]
  /\ Goto(w, "down")
  /\ UNCHANGED <<published, fileless, settled, status, disk, orphaned>>

(* RabbitMQ gives a connection up before the process knows: until it does,  *)
(* its thread goes on writing.                                              *)
Cut(w) ==
  /\ Unlink(w)
  /\ orphaned' = IF pc[w] \in Working THEN orphaned \cup {held[w]} ELSE orphaned
  /\ UNCHANGED <<published, fileless, settled, status, pc, held, disk>>

(* The main thread finds out: start_consuming raises, the process ends, and *)
(* the daemon thread with it.                                               *)
NoticeCut(w) ==
  /\ pc[w] # "down"
  /\ ~linked[w]
  /\ held' = [held EXCEPT ![w] = NoRequest]
  /\ Goto(w, "down")
  /\ UNCHANGED <<published, fileless, lost, exists, queue, settled, status,
                 linked, disk, orphaned, breaks>>

-----------------------------------------------------------------------------
Join(w)  == Declare(w) \/ Bind(w) \/ Consume(w) \/ QueueGone(w)
Serve(w) == Deliver(w) \/ StartThread(w) \/ OpenFile(w) \/ FillFile(w) \/ SkipFile(w)
              \/ Succeed(w) \/ Fail(w) \/ Confirm(w) \/ Reject(w) \/ UpdateStatus(w)
Break(w) == Die(w) \/ Cut(w) \/ NoticeCut(w)

Next ==
  \/ \E r \in Requests, file \in BOOLEAN : Publish(r, file)
  \/ \E w \in Writers : Join(w) \/ Serve(w) \/ Break(w)

Spec == Init /\ [][Next]_vars

(* Fairness: a writer that runs goes through start_service, serves what it  *)
(* is given and finds out that its connection is gone.  Nobody has to       *)
(* start one (Declare), send requests, or keep links.                       *)
Fairness ==
  \A w \in Writers :
    /\ WF_vars(Bind(w) \/ Consume(w) \/ QueueGone(w))
    /\ WF_vars(Serve(w))
    /\ WF_vars(NoticeCut(w))

FairSpec == Spec /\ Fairness

-----------------------------------------------------------------------------
(* The writers RabbitMQ waits for a confirmation of r from.                 *)
Owners(r) == {w \in Writers : linked[w] /\ pc[w] \in Owning /\ held[w] = r}

Places(r) == {i \in DOMAIN queue : queue[i] = r}

(* Redelivery neither duplicates nor forgets a request: an unsettled one    *)
(* that is not lost waits once or has one owner, and one that is settled    *)
(* or lost does neither, whatever died or was cut off in between.           *)
InOnePlace ==
  \A r \in Requests :
    Cardinality(Owners(r)) + Cardinality(Places(r)) =
      IF r \in published /\ r \notin lost /\ settled[r] = "open" THEN 1 ELSE 0

(* What is reported of a request ends with its verdict: at most one of      *)
(* write_finished and write_rejected, nothing after it, and the one         *)
(* RabbitMQ was told.                                                       *)
VerdictIsLast ==
  \A r \in Requests : \A i \in DOMAIN status[r] :
    status[r][i] # "write_start" =>
      /\ i = Len(status[r])
      /\ i > 1
      /\ settled[r] = IF status[r][i] = "write_finished" THEN "ack" ELSE "reject"

(* A confirmed request that is for an output file left it whole: earlier    *)
(* writers of the same request may have died halfway.  Not so after a link  *)
(* was cut (a thread nobody waits for may truncate the file again), nor if  *)
(* two requests wrote the file; one that is confirmed without writing a     *)
(* file spoils nobody's.                                                    *)
Outputs == published \ fileless

OnlyOneFor(f) == \A q, r \in Outputs : FileOf[q] = f /\ FileOf[r] = f => q = r

ConfirmedIsWhole ==
  \A r \in Outputs :
    settled[r] = "ack" /\ r \notin orphaned /\ OnlyOneFor(FileOf[r])
      => disk[FileOf[r]] = [by |-> r, whole |-> TRUE]

(* While there is always some consumer, every request is settled or lost.   *)
Served ==
  <>[](Consumers # {}) =>
    \A r \in Requests : r \in published ~> settled[r] # "open" \/ r \in lost

(* The life of each request is that of WriteRequests.                       *)
Stage(r) ==
  IF r \notin published THEN "unsent"
  ELSE IF r \in lost THEN "lost"
  ELSE IF settled[r] = "ack" THEN "done"
  ELSE IF settled[r] = "reject" THEN "refused"
  ELSE IF Owners(r) # {} THEN "taken" ELSE "waiting"

W == INSTANCE WriteRequests WITH Capacity <- Cardinality(Writers),
                                 stage <- [r \in Requests |-> Stage(r)]

WriteRequestsSpec == W!Spec

=============================================================================
