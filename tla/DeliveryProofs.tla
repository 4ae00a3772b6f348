--------------------------- MODULE DeliveryProofs ---------------------------
(***************************************************************************)
(* The theorems about Delivery, for any requests, output files, finitely   *)
(* many writers and any number of breaks: the invariants it is checked     *)
(* with, and that it implements WriteRequests.                             *)
(***************************************************************************)
EXTENDS Delivery, TLAPS, FiniteSetTheorems, SequenceTheorems

Within(s, r) == \E i \in DOMAIN s : s[i] = r

Once(s) == \A i, j \in DOMAIN s : s[i] = s[j] => i = j

Open(r) == r \in published /\ r \notin lost /\ settled[r] = "open"

Owns(w) == linked[w] /\ pc[w] \in Owning

Owned(r) == \E w \in Writers : Owns(w) /\ held[w] = r

(* What a writer holds, and what was lost or settled, had been sent; and    *)
(* whoever works on a request that nobody was cut off from is linked.       *)
HeldOK ==
  /\ lost \subseteq published
  /\ \A r \in Requests \ published : settled[r] = "open"
  /\ \A w \in Writers :
       /\ pc[w] \in Working => held[w] \in published
       /\ pc[w] \in Working /\ held[w] \notin orphaned => linked[w]

(* The open requests are those that wait, once, or have an owner, one.      *)
PlaceOK ==
  /\ Once(queue)
  /\ \A r \in Requests : Within(queue, r) => Open(r)
  /\ \A w \in Writers : Owns(w) => Open(held[w]) /\ ~Within(queue, held[w])
  /\ \A v, w \in Writers : Owns(v) /\ Owns(w) /\ held[v] = held[w] => v = w
  /\ \A r \in Requests : Open(r) => Within(queue, r) \/ Owned(r)

Core == TypeOK /\ HeldOK /\ PlaceOK

(* What was reported of a request before a verdict, and who may give one.   *)
NoVerdict(r) == \A i \in DOMAIN status[r] : status[r][i] = "write_start"

Tells(w) == linked[w] /\ pc[w] \in Telling

ToldOK ==
  /\ \A w \in Writers : pc[w] \in Working \ {"start"} => status[held[w]] # <<>>
  /\ \A r \in Requests : settled[r] = "open" => NoVerdict(r)
  /\ \A w \in Writers : Tells(w) =>
       /\ NoVerdict(held[w])
       /\ settled[held[w]] = IF pc[w] = "acked" THEN "ack" ELSE "reject"
  /\ \A v, w \in Writers : Tells(v) /\ Tells(w) /\ held[v] = held[w] => v = w
  /\ VerdictIsLast

(* The file of a request nobody was cut off from is whole from the moment   *)
(* its writer has filled it.                                                *)
Whole(r) == disk[FileOf[r]] = [by |-> r, whole |-> TRUE]

WholeOK ==
  /\ \A w \in Writers : pc[w] = "writing" => held[w] \in Outputs
  /\ \A r \in Outputs \ orphaned : OnlyOneFor(FileOf[r]) =>
       /\ settled[r] = "ack" => Whole(r)
       /\ \A w \in Writers : pc[w] \in {"written", "succeeded"} /\ held[w] = r => Whole(r)

-----------------------------------------------------------------------------
(* What appending, prepending and taking the head does to a sequence whose  *)
(* elements are distinct.                                                   *)
LEMMA Appended ==
  ASSUME NEW S, NEW s \in Seq(S), NEW r \in S
  PROVE  /\ Append(s, r) \in Seq(S)
         /\ \A q : Within(Append(s, r), q) <=> Within(s, q) \/ q = r
         /\ Once(s) /\ ~Within(s, r) => Once(Append(s, r))
<1>1. /\ Append(s, r) \in Seq(S) /\ Len(s) \in Nat
      /\ DOMAIN s = 1..Len(s) /\ DOMAIN Append(s, r) = 1..(Len(s) + 1)
      /\ \A i \in 1..Len(s) : Append(s, r)[i] = s[i]
      /\ Append(s, r)[Len(s) + 1] = r
  OBVIOUS
<1>2. \A i \in 1..(Len(s) + 1) : i = Len(s) + 1 \/ i \in 1..Len(s)
  BY <1>1
<1>3. \A q : Within(Append(s, r), q) <=> Within(s, q) \/ q = r
  <2> TAKE q
  <2>1. Within(s, q) \/ q = r => Within(Append(s, r), q)
    <3>1. Len(s) + 1 \in 1..(Len(s) + 1) /\ 1..Len(s) \subseteq 1..(Len(s) + 1)
      BY <1>1
    <3> QED
      BY <1>1, <3>1 DEF Within
  <2>2. Within(Append(s, r), q) => Within(s, q) \/ q = r
    BY <1>1, <1>2 DEF Within
  <2> QED
    BY <2>1, <2>2
<1>4. Once(s) /\ ~Within(s, r) => Once(Append(s, r))
  BY <1>1, <1>2 DEF Within, Once
<1> QED
  BY <1>1, <1>3, <1>4

LEMMA Prepended ==
  ASSUME NEW S, NEW s \in Seq(S), NEW r \in S
  PROVE  /\ <<r>> \o s \in Seq(S)
         /\ \A q : Within(<<r>> \o s, q) <=> Within(s, q) \/ q = r
         /\ Once(s) /\ ~Within(s, r) => Once(<<r>> \o s)
<1> DEFINE t == <<r>> \o s
<1>1. /\ t \in Seq(S) /\ Len(s) \in Nat /\ t[1] = r
      /\ DOMAIN s = 1..Len(s) /\ DOMAIN t = 1..(Len(s) + 1)
      /\ \A i \in 2..(Len(s) + 1) : t[i] = s[i - 1]
  <2>1. <<r>> \in Seq(S) /\ Len(<<r>>) = 1 /\ <<r>>[1] = r /\ Len(s) \in Nat
    OBVIOUS
  <2>2. /\ t \in Seq(S) /\ Len(t) = 1 + Len(s)
        /\ \A i \in 1..(1 + Len(s)) : t[i] = IF i <= 1 THEN <<r>>[i] ELSE s[i - 1]
    <3> HIDE DEF t
    <3> QED
      BY <2>1, ConcatProperties DEF t
  <2> HIDE DEF t
  <2>3. DOMAIN s = 1..Len(s) /\ DOMAIN t = 1..(Len(s) + 1)
    BY <2>1, <2>2, LenProperties
  <2> QED
    BY <2>1, <2>2, <2>3
<1> HIDE DEF t
<1>2. \A i \in 1..(Len(s) + 1) : i = 1 \/ (i \in 2..(Len(s) + 1) /\ i - 1 \in 1..Len(s))
  BY <1>1
<1>3. \A q : Within(t, q) <=> Within(s, q) \/ q = r
  <2> TAKE q
  <2>1. Within(s, q) \/ q = r => Within(t, q)
    <3>1. CASE q = r
      BY <1>1, <3>1 DEF Within
    <3>2. ASSUME NEW i \in 1..Len(s), s[i] = q PROVE Within(t, q)
      <4>1. i + 1 \in 2..(Len(s) + 1) /\ (i + 1) - 1 = i /\ i + 1 \in 1..(Len(s) + 1)
        BY <1>1
      <4> QED
        BY <1>1, <3>2, <4>1 DEF Within
    <3> QED
      BY <1>1, <3>1, <3>2 DEF Within
  <2>2. Within(t, q) => Within(s, q) \/ q = r
    BY <1>1, <1>2 DEF Within
  <2> QED
    BY <2>1, <2>2
<1>4. Once(s) /\ ~Within(s, r) => Once(t)
  <2> SUFFICES ASSUME Once(s), ~Within(s, r),
                      NEW i \in 1..(Len(s) + 1), NEW j \in 1..(Len(s) + 1), t[i] = t[j]
               PROVE  i = j
    BY <1>1 DEF Once
  <2>1. \A k \in 2..(Len(s) + 1) : t[k] # r
    BY <1>1, <1>2 DEF Within
  <2>2. CASE i = 1 \/ j = 1
    BY <1>1, <1>2, <2>1, <2>2
  <2>3. CASE i # 1 /\ j # 1
    <3>1. /\ i - 1 \in 1..Len(s) /\ t[i] = s[i - 1]
          /\ j - 1 \in 1..Len(s) /\ t[j] = s[j - 1]
      BY <1>1, <1>2, <2>3
    <3>2. i - 1 = j - 1
      BY <1>1, <3>1 DEF Once
    <3> QED
      BY <1>1, <3>2
  <2> QED
    BY <2>2, <2>3
<1> QED
  BY <1>1, <1>3, <1>4 DEF t

LEMMA HeadTaken ==
  ASSUME NEW S, NEW s \in Seq(S), s # <<>>, Once(s)
  PROVE  /\ Head(s) \in S /\ Tail(s) \in Seq(S) /\ Within(s, Head(s)) /\ Once(Tail(s))
         /\ \A q : Within(Tail(s), q) <=> Within(s, q) /\ q # Head(s)
<1>1. /\ Head(s) \in S /\ Tail(s) \in Seq(S) /\ Len(s) \in Nat \ {0}
      /\ Head(s) = s[1] /\ DOMAIN s = 1..Len(s) /\ DOMAIN Tail(s) = 1..(Len(s) - 1)
      /\ \A i \in 1..(Len(s) - 1) : Tail(s)[i] = s[i + 1]
  BY HeadTailProperties, EmptySeq, LenProperties
<1>2. \A i \in 1..(Len(s) - 1) : i + 1 \in 1..Len(s) /\ i + 1 # 1
  BY <1>1
<1>3. \A i \in 1..Len(s) : i = 1 \/ (i - 1 \in 1..(Len(s) - 1) /\ (i - 1) + 1 = i)
  BY <1>1
<1>4. Within(s, Head(s))
  BY <1>1 DEF Within
<1>5. Once(Tail(s))
  <2> SUFFICES ASSUME NEW i \in 1..(Len(s) - 1), NEW j \in 1..(Len(s) - 1),
                      Tail(s)[i] = Tail(s)[j]
               PROVE  i = j
    BY <1>1 DEF Once
  <2>1. i + 1 = j + 1
    BY <1>1, <1>2 DEF Once
  <2> QED
    BY <2>1
<1>6. \A q : Within(Tail(s), q) <=> Within(s, q) /\ q # Head(s)
  <2> TAKE q
  <2>1. ASSUME NEW i \in 1..(Len(s) - 1), Tail(s)[i] = q
        PROVE  Within(s, q) /\ q # Head(s)
    <3>1. i + 1 \in 1..Len(s) /\ i + 1 # 1 /\ s[i + 1] = q /\ 1 \in 1..Len(s)
      BY <1>1, <1>2, <2>1
    <3> QED
      BY <1>1, <3>1 DEF Within, Once
  <2>2. ASSUME NEW i \in 1..Len(s), s[i] = q, q # Head(s) PROVE Within(Tail(s), q)
    <3>1. i - 1 \in 1..(Len(s) - 1) /\ Tail(s)[i - 1] = q
      BY <1>1, <1>3, <2>2
    <3> QED
      BY <1>1, <3>1 DEF Within
  <2> QED
    BY <1>1, <2>1, <2>2 DEF Within
<1> QED
  BY <1>1, <1>4, <1>5, <1>6

LEMMA NothingWithin == \A q : ~Within(<<>>, q) /\ Once(<<>>)
  BY DEF Within, Once

-----------------------------------------------------------------------------
(* Going somewhere, and telling something about a request.                  *)
LEMMA Goes ==
  ASSUME TypeOK, NEW w \in Writers, NEW p, Goto(w, p),
         p \in {"down", "idle"} \cup Joining \cup Working
  PROVE  /\ pc' \in [Writers -> {"down", "idle"} \cup Joining \cup Working]
         /\ pc'[w] = p /\ \A v \in Writers \ {w} : pc'[v] = pc[v]
  BY DEF TypeOK, Goto

LEMMA PlacesApart ==
  /\ {"idle", "down"} \cap Working = {} /\ Joining \cap Working = {}
  /\ Owning \cap Telling = {} /\ Working = Owning \cup Telling
  /\ Thread \cup Decided \subseteq Owning /\ "start" \in Owning
  BY DEF Working, Owning, Telling, Joining, Thread, Decided

LEMMA Told ==
  ASSUME TypeOK, NEW r \in Requests, NEW e \in Events, Tell(r, e)
  PROVE  /\ status' \in [Requests -> Seq(Events)]
         /\ status'[r] = Append(status[r], e)
         /\ \A q \in Requests \ {r} : status'[q] = status[q]
  BY DEF TypeOK, Tell

(* What RabbitMQ keeps of a writer's request.                               *)
LEMMA Returns ==
  ASSUME Core, NEW w \in Writers, linked[w]
  PROVE  /\ Returned(w) \in Seq(Requests) /\ Once(Returned(w))
         /\ \A r : Within(Returned(w), r) <=> Within(queue, r) \/ (Owns(w) /\ r = held[w])
         /\ {Returned(w)[i] : i \in DOMAIN Returned(w)} =
              {r \in Requests : Within(Returned(w), r)}
<1>1. /\ Returned(w) \in Seq(Requests) /\ Once(Returned(w))
      /\ \A r : Within(Returned(w), r) <=> Within(queue, r) \/ (Owns(w) /\ r = held[w])
  <2>1. CASE Owns(w)
    <3>1. held[w] \in Requests /\ ~Within(queue, held[w]) /\ Once(queue)
      BY <2>1, PlacesApart DEF Core, HeldOK, PlaceOK, TypeOK, Owns
    <3>2. queue \in Seq(Requests) /\ Returned(w) = <<held[w]>> \o queue
      BY <2>1 DEF Core, TypeOK, Returned, Owns
    <3> QED
      BY <2>1, <3>1, <3>2, Prepended
  <2>2. CASE ~Owns(w)
    BY <2>2 DEF Core, PlaceOK, TypeOK, Returned, Owns
  <2> QED
    BY <2>1, <2>2
<1>2. \A i \in DOMAIN Returned(w) : Returned(w)[i] \in Requests
  BY <1>1
<1> QED
  BY <1>1, <1>2 DEF Within

(* All actions keep the types.                                              *)
LEMMA TypeStep == Core /\ [Next]_vars => TypeOK'
<1> SUFFICES ASSUME Core, [Next]_vars PROVE TypeOK'
  OBVIOUS
<1>0. /\ TypeOK
      /\ \A w \in Writers : pc[w] \in Working => held[w] \in Requests
      /\ \A w \in Writers : pc[w] \in Thread => held[w] \in Requests
      /\ {"declared", "bound", "idle", "start", "write", "writing", "written", "succeeded",
           "failed", "acked", "rejected", "down"} \subseteq {"down", "idle"} \cup Joining \cup Working
  BY PlacesApart DEF Core, TypeOK, HeldOK, Joining, Working, Owning, Telling, Thread, Decided
<1>1. ASSUME NEW r \in Requests, NEW file, Publish(r, file) PROVE TypeOK'
  <2>1. queue' \in Seq(Requests)
    <3>1. queue \in Seq(Requests) /\ (queue' = queue \/ queue' = Append(queue, r))
      BY <1>0, <1>1 DEF Publish, TypeOK
    <3>2. Append(queue, r) \in Seq(Requests)
      BY <3>1, Appended
    <3> QED
      BY <3>1, <3>2
  <2>2. /\ published' \subseteq Requests /\ lost' \subseteq Requests
        /\ fileless' \subseteq published'
    BY <1>0, <1>1 DEF Publish, TypeOK
  <2> QED
    BY <1>0, <1>1, <2>1, <2>2 DEF Publish, TypeOK
<1>2. ASSUME NEW w \in Writers, Join(w) PROVE TypeOK'
  <2>1. CASE Declare(w)
    BY <1>0, <2>1, Goes DEF Declare, TypeOK
  <2>2. CASE Bind(w)
    BY <1>0, <2>2, Goes DEF Bind, TypeOK
  <2>3. CASE Consume(w)
    BY <1>0, <2>3, Goes DEF Consume, TypeOK
  <2>4. CASE QueueGone(w)
    BY <1>0, <2>4, Goes DEF QueueGone, TypeOK
  <2> QED
    BY <1>2, <2>1, <2>2, <2>3, <2>4 DEF Join
<1>3. ASSUME NEW w \in Writers, Deliver(w) PROVE TypeOK'
  <2>1. Head(queue) \in Requests /\ Tail(queue) \in Seq(Requests)
    BY <1>3, HeadTailProperties DEF Core, TypeOK, Deliver
  <2> QED
    BY <1>0, <1>3, <2>1, Goes DEF Deliver, TypeOK
<1>4. ASSUME NEW w \in Writers, StartThread(w) PROVE TypeOK'
  <2>1. held[w] \in Requests
    BY <1>0, <1>4, PlacesApart DEF StartThread
  <2> QED
    BY <1>0, <1>4, <2>1, Goes, Told DEF StartThread, TypeOK, Events
<1>5. ASSUME NEW w \in Writers, OpenFile(w) PROVE TypeOK'
  BY <1>0, <1>5, Goes DEF OpenFile, TypeOK
<1>6. ASSUME NEW w \in Writers, FillFile(w) PROVE TypeOK'
  BY <1>0, <1>6, Goes DEF FillFile, TypeOK
<1>7. ASSUME NEW w \in Writers, SkipFile(w) \/ Succeed(w) \/ Fail(w) PROVE TypeOK'
  BY <1>0, <1>7, Goes DEF SkipFile, Succeed, Fail, TypeOK
<1>8. ASSUME NEW w \in Writers, Confirm(w) \/ Reject(w) PROVE TypeOK'
  BY <1>0, <1>8, Goes DEF Confirm, Reject, Settle, TypeOK
<1>9. ASSUME NEW w \in Writers, UpdateStatus(w) PROVE TypeOK'
  <2>1. held[w] \in Requests
    BY <1>0, <1>9, PlacesApart DEF UpdateStatus
  <2> QED
    BY <1>0, <1>9, <2>1, Goes, Told DEF UpdateStatus, TypeOK, Events
<1>10. ASSUME NEW w \in Writers, Unlink(w)
       PROVE  /\ lost' \subseteq Requests /\ queue' \in Seq(Requests)
              /\ linked' \in [Writers -> BOOLEAN] /\ breaks' \in 0..MaxBreaks
              /\ exists' \in {"none", "declared", "bound"}
  <2>1. /\ Returned(w) \in Seq(Requests)
        /\ {Returned(w)[i] : i \in DOMAIN Returned(w)} \subseteq Requests
    BY <1>10, Returns DEF Unlink
  <2>2. breaks' \in 0..MaxBreaks /\ linked' \in [Writers -> BOOLEAN]
    BY <1>0, <1>10, DeliveryAssumption DEF Unlink, TypeOK
  <2>3. /\ lost' \subseteq Requests /\ queue' \in Seq(Requests)
        /\ exists' \in {"none", "declared", "bound"}
    <3>1. <<>> \in Seq(Requests) /\ lost \subseteq Requests
      BY <1>0, EmptySeq DEF TypeOK
    <3>2. CASE Consumers = {w}
      BY <1>10, <2>1, <3>1, <3>2 DEF Unlink
    <3>3. CASE Consumers # {w}
      BY <1>0, <1>10, <2>1, <3>3 DEF Unlink, TypeOK
    <3> QED
      BY <3>2, <3>3
  <2> QED
    BY <2>2, <2>3
<1>11. ASSUME NEW w \in Writers, Break(w) PROVE TypeOK'
  <2>1. CASE Die(w)
    BY <1>0, <2>1, <1>10, Goes DEF Die, TypeOK
  <2>2. CASE Cut(w)
    BY <1>0, <2>2, <1>10 DEF Cut, TypeOK
  <2>3. CASE NoticeCut(w)
    BY <1>0, <2>3, Goes DEF NoticeCut, TypeOK
  <2> QED
    BY <1>11, <2>1, <2>2, <2>3 DEF Break
<1>12. CASE UNCHANGED vars
  BY <1>0, <1>12 DEF vars, TypeOK
<1> QED
  BY <1>1, <1>2, <1>3, <1>4, <1>5, <1>6, <1>7, <1>8, <1>9, <1>11, <1>12 DEF Next, Serve

-----------------------------------------------------------------------------
(* HeldOK is kept when nobody starts to work on anything, whoever worked on *)
(* something goes on with it on the same link, and a writer that is cut off *)
(* orphans its request.                                                     *)
LEMMA HeldStays ==
  ASSUME Core, published \subseteq published', lost' \subseteq published',
         \A r \in Requests \ published' : settled'[r] = settled[r],
         \A w \in Writers : pc'[w] \in Working =>
           /\ pc[w] \in Working /\ held'[w] = held[w]
           /\ linked'[w] \/ ~linked[w] \/ held[w] \in orphaned',
         orphaned \subseteq orphaned'
  PROVE  HeldOK'
  BY DEF Core, HeldOK

LEMMA HeldStep == Core /\ [Next]_vars => HeldOK'
<1> SUFFICES ASSUME Core, [Next]_vars PROVE HeldOK'
  OBVIOUS
<1>0. TypeOK /\ HeldOK
  BY DEF Core
<1>1. ASSUME NEW r \in Requests, NEW file, Publish(r, file) PROVE HeldOK'
  BY <1>0, <1>1, HeldStays DEF Publish, HeldOK
<1>2. ASSUME NEW w \in Writers, Join(w) PROVE HeldOK'
  <2>1. pc'[w] \notin Working /\ \A v \in Writers \ {w} :
          pc'[v] = pc[v] /\ linked'[v] = linked[v]
    BY <1>0, <1>2, PlacesApart DEF Join, Declare, Bind, Consume, QueueGone, Goto, TypeOK, Joining
  <2> QED
    BY <1>0, <1>2, <2>1, HeldStays DEF Join, Declare, Bind, Consume, QueueGone, HeldOK
<1>3. ASSUME NEW w \in Writers, Deliver(w) PROVE HeldOK'
  <2>1. Head(queue) \in published
    <3>1. Head(queue) \in Requests /\ Within(queue, Head(queue))
      BY <1>3, HeadTaken DEF Core, TypeOK, PlaceOK, Deliver
    <3> QED
      BY <3>1 DEF Core, PlaceOK, Open
  <2>2. /\ held'[w] = Head(queue) /\ linked'[w]
        /\ \A v \in Writers \ {w} : held'[v] = held[v] /\ pc'[v] = pc[v]
        /\ UNCHANGED <<linked, published, lost, settled, orphaned>>
    BY <1>0, <1>3 DEF Deliver, TypeOK, Goto
  <2> QED
    BY <1>0, <2>1, <2>2 DEF HeldOK
<1>4. ASSUME NEW w \in Writers,
             StartThread(w) \/ OpenFile(w) \/ FillFile(w) \/ SkipFile(w) \/ Succeed(w)
               \/ Fail(w)
      PROVE  HeldOK'
  <2>1. pc[w] \in Working /\ \A v \in Writers \ {w} : pc'[v] = pc[v]
    BY <1>0, <1>4 DEF StartThread, OpenFile, FillFile, SkipFile, Succeed, Fail, Goto, TypeOK,
                      Working, Owning, Thread
  <2>2. UNCHANGED <<published, lost, settled, held, linked, orphaned>>
    BY <1>4 DEF StartThread, OpenFile, FillFile, SkipFile, Succeed, Fail
  <2> QED
    BY <1>0, <2>1, <2>2, HeldStays DEF HeldOK
<1>5. ASSUME NEW w \in Writers, Confirm(w) \/ Reject(w) PROVE HeldOK'
  <2>1. pc[w] \in Working /\ \A v \in Writers \ {w} : pc'[v] = pc[v]
    BY <1>0, <1>5 DEF Confirm, Reject, Settle, Goto, TypeOK, Working, Owning, Decided
  <2>2. held[w] \in published
    BY <1>0, <2>1 DEF HeldOK
  <2>3. \A r \in Requests \ published : settled'[r] = settled[r]
    BY <1>0, <1>5, <2>2 DEF Confirm, Reject, Settle, TypeOK
  <2>4. UNCHANGED <<published, lost, held, linked, orphaned>>
    BY <1>5 DEF Confirm, Reject, Settle
  <2> QED
    BY <1>0, <2>1, <2>3, <2>4, HeldStays DEF HeldOK
<1>6. ASSUME NEW w \in Writers, UpdateStatus(w) \/ NoticeCut(w) PROVE HeldOK'
  <2>1. /\ pc'[w] \notin Working
        /\ \A v \in Writers \ {w} : pc'[v] = pc[v] /\ held'[v] = held[v]
    BY <1>0, <1>6, PlacesApart DEF UpdateStatus, NoticeCut, Goto, TypeOK
  <2>2. UNCHANGED <<published, lost, settled, linked, orphaned>>
    BY <1>6 DEF UpdateStatus, NoticeCut
  <2> QED
    BY <1>0, <2>1, <2>2, HeldStays DEF HeldOK
<1>7. ASSUME NEW w \in Writers, Unlink(w)
      PROVE  /\ lost' \subseteq published
             /\ \A v \in Writers \ {w} : linked'[v] = linked[v]
  <2>1. \A r \in Requests : Within(Returned(w), r) => r \in published
    BY <1>7, Returns, PlacesApart DEF Unlink, Core, HeldOK, PlaceOK, Open, Owns
  <2>2. {Returned(w)[i] : i \in DOMAIN Returned(w)} \subseteq published
    BY <1>7, <2>1, Returns DEF Unlink
  <2> QED
    BY <1>0, <1>7, <2>2 DEF Unlink, HeldOK, TypeOK
<1>8. ASSUME NEW w \in Writers, Die(w) PROVE HeldOK'
  <2>1. /\ pc'[w] \notin Working
        /\ \A v \in Writers \ {w} : pc'[v] = pc[v] /\ held'[v] = held[v]
    BY <1>0, <1>8, PlacesApart DEF Die, Goto, TypeOK
  <2> QED
    BY <1>0, <1>7, <1>8, <2>1, HeldStays DEF Die
<1>9. ASSUME NEW w \in Writers, Cut(w) PROVE HeldOK'
  BY <1>0, <1>7, <1>9, HeldStays DEF Cut
<1>10. CASE UNCHANGED vars
  BY <1>0, <1>10 DEF vars, HeldOK
<1> QED
  BY <1>1, <1>2, <1>3, <1>4, <1>5, <1>6, <1>8, <1>9, <1>10 DEF Next, Serve, Break

-----------------------------------------------------------------------------
(* PlaceOK is kept when the queue, the open requests and their owners are.  *)
LEMMA PlacesStay ==
  ASSUME Core, UNCHANGED <<published, lost, settled, queue>>,
         \A w \in Writers : (Owns(w)' <=> Owns(w)) /\ (Owns(w) => held'[w] = held[w])
  PROVE  PlaceOK'
<1>1. \A r : Open(r)' <=> Open(r)
  BY DEF Open
<1>2. Once(queue)' /\ \A r : Within(queue, r)' <=> Within(queue, r)
  BY DEF Core, PlaceOK, Once, Within
<1>3. \A r \in Requests : Owned(r) => Owned(r)'
  BY DEF Owned
<1> QED
  BY <1>1, <1>2, <1>3 DEF Core, PlaceOK, TypeOK

LEMMA PlaceStep == Core /\ [Next]_vars => PlaceOK'
<1> SUFFICES ASSUME Core, [Next]_vars PROVE PlaceOK'
  OBVIOUS
<1>0. TypeOK /\ HeldOK /\ PlaceOK
  BY DEF Core
<1>1. ASSUME NEW r \in Requests, NEW file, Publish(r, file) PROVE PlaceOK'
  <2>1. ~Open(r) /\ ~Within(queue, r) /\ settled[r] = "open" /\ r \notin lost
    BY <1>0, <1>1 DEF Publish, PlaceOK, Open, HeldOK
  <2>2. \A w \in Writers : (Owns(w)' <=> Owns(w)) /\ held'[w] = held[w]
    BY <1>1 DEF Publish, Owns
  <2>3. \A q \in Requests \ {r} : Open(q)' <=> Open(q)
    BY <1>1 DEF Publish, Open
  <2>4. \A w \in Writers : Owns(w) => held[w] # r /\ held[w] \in Requests
    BY <1>0, <2>1 DEF PlaceOK, Open, TypeOK
  <2>5. \A q : Owned(q)' <=> Owned(q)
    BY <2>2 DEF Owned
  <2>6. CASE exists = "bound"
    <3>1. Once(queue)' /\ \A q : Within(queue, q)' <=> Within(queue, q) \/ q = r
      <4>1. queue \in Seq(Requests) /\ queue' = Append(queue, r) /\ Once(queue)
        BY <1>0, <1>1, <2>6 DEF Publish, TypeOK, PlaceOK
      <4>2. /\ Once(Append(queue, r))
            /\ \A q : Within(Append(queue, r), q) <=> Within(queue, q) \/ q = r
        BY <2>1, <4>1, Appended
      <4> QED
        BY <4>1, <4>2 DEF Once, Within
    <3>2. Open(r)'
      BY <1>1, <2>1, <2>6 DEF Publish, Open
    <3> QED
      BY <1>0, <2>2, <2>3, <2>4, <2>5, <3>1, <3>2 DEF PlaceOK
  <2>7. CASE exists # "bound"
    <3>1. Once(queue)' /\ \A q : Within(queue, q)' <=> Within(queue, q)
      BY <1>0, <1>1, <2>7 DEF Publish, PlaceOK, Once, Within
    <3>2. ~Open(r)'
      BY <1>1, <2>7 DEF Publish, Open
    <3> QED
      BY <1>0, <2>1, <2>2, <2>3, <2>4, <2>5, <3>1, <3>2 DEF PlaceOK
  <2> QED
    BY <2>6, <2>7
<1>2. ASSUME NEW w \in Writers, Join(w) PROVE PlaceOK'
  <2>1. /\ pc[w] \notin Working /\ pc'[w] \notin Working
        /\ \A v \in Writers \ {w} : pc'[v] = pc[v] /\ linked'[v] = linked[v]
    BY <1>0, <1>2, PlacesApart DEF Join, Declare, Bind, Consume, QueueGone, Goto, TypeOK, Joining
  <2>2. UNCHANGED <<published, lost, settled, queue, held>>
    BY <1>2 DEF Join, Declare, Bind, Consume, QueueGone
  <2> QED
    BY <2>1, <2>2, PlacesStay, PlacesApart DEF Owns
<1>3. ASSUME NEW w \in Writers, Deliver(w) PROVE PlaceOK'
  <2> DEFINE h == Head(queue)
  <2>1. /\ h \in Requests /\ Within(queue, h) /\ Once(queue)'
        /\ \A q : Within(queue, q)' <=> Within(queue, q) /\ q # h
    BY <1>0, <1>3, HeadTaken DEF Deliver, PlaceOK, TypeOK
  <2>2. Open(h) /\ \A q : Open(q)' <=> Open(q)
    BY <1>0, <1>3, <2>1 DEF Deliver, PlaceOK, Open
  <2>3. /\ ~Owns(w) /\ Owns(w)' /\ held'[w] = h
        /\ \A v \in Writers \ {w} : (Owns(v)' <=> Owns(v)) /\ held'[v] = held[v]
    BY <1>0, <1>3, PlacesApart DEF Deliver, TypeOK, Owns, Goto, Owning, Thread, Decided
  <2>4. \A v \in Writers : Owns(v) => held[v] # h
    BY <1>0, <2>1 DEF PlaceOK
  <2>5. \A q \in Requests : Owned(q)' <=> Owned(q) \/ q = h
    BY <2>3 DEF Owned
  <2> HIDE DEF h
  <2>6. \A v \in Writers : Owns(v)' => Open(held[v])' /\ ~Within(queue, held[v])'
    BY <1>0, <2>1, <2>2, <2>3 DEF PlaceOK
  <2>7. \A u, v \in Writers : Owns(u)' /\ Owns(v)' /\ held'[u] = held'[v] => u = v
    BY <1>0, <2>3, <2>4 DEF PlaceOK
  <2> QED
    BY <1>0, <2>1, <2>2, <2>5, <2>6, <2>7 DEF PlaceOK
<1>4. ASSUME NEW w \in Writers,
             StartThread(w) \/ OpenFile(w) \/ FillFile(w) \/ SkipFile(w) \/ Succeed(w)
               \/ Fail(w)
      PROVE  PlaceOK'
  <2>1. /\ pc[w] \in Owning /\ pc'[w] \in Owning
        /\ \A v \in Writers \ {w} : pc'[v] = pc[v]
    BY <1>0, <1>4 DEF StartThread, OpenFile, FillFile, SkipFile, Succeed, Fail, Goto, TypeOK,
                      Owning, Thread, Decided
  <2>2. UNCHANGED <<published, lost, settled, queue, held, linked>>
    BY <1>4 DEF StartThread, OpenFile, FillFile, SkipFile, Succeed, Fail
  <2> QED
    BY <2>1, <2>2, PlacesStay DEF Owns
<1>5. ASSUME NEW w \in Writers, Confirm(w) \/ Reject(w) PROVE PlaceOK'
  <2>0. PICK h \in Requests : h = held[w]
    BY <1>0, <1>5, PlacesApart DEF Confirm, Reject, Settle, HeldOK, TypeOK, Owning, Decided
  <2>1. /\ Owns(w) /\ ~Owns(w)'
        /\ \A v \in Writers \ {w} : (Owns(v)' <=> Owns(v))
        /\ UNCHANGED <<published, lost, queue, held>>
    BY <1>0, <1>5 DEF Confirm, Reject, Settle, Goto, TypeOK, Owns, Owning, Thread, Decided
  <2>2. ~Within(queue, h) /\ \A v \in Writers \ {w} : Owns(v) => held[v] # h
    BY <1>0, <2>0, <2>1 DEF PlaceOK
  <2>3. ~Open(h)' /\ \A q \in Requests \ {h} : Open(q)' <=> Open(q)
    BY <1>0, <1>5, <2>0 DEF Confirm, Reject, Settle, TypeOK, Open
  <2>4. Once(queue)' /\ \A q : Within(queue, q)' <=> Within(queue, q)
    BY <1>0, <2>1 DEF PlaceOK, Once, Within
  <2>5. \A q \in Requests \ {h} : Owned(q) => Owned(q)'
    BY <2>0, <2>1 DEF Owned
  <2>6. \A v \in Writers : Owns(v) => held[v] \in Requests
    BY <1>0 DEF PlaceOK, Open, TypeOK
  <2>7. \A v \in Writers : Owns(v)' => Open(held[v])' /\ ~Within(queue, held[v])'
    BY <1>0, <2>1, <2>2, <2>3, <2>4, <2>6 DEF PlaceOK
  <2>8. \A u, v \in Writers : Owns(u)' /\ Owns(v)' /\ held'[u] = held'[v] => u = v
    BY <1>0, <2>1 DEF PlaceOK
  <2>9. \A q \in Requests : Within(queue, q)' => Open(q)'
    BY <1>0, <2>2, <2>3, <2>4 DEF PlaceOK
  <2>10. \A q \in Requests : Open(q)' => Within(queue, q)' \/ Owned(q)'
    BY <1>0, <2>3, <2>4, <2>5 DEF PlaceOK
  <2>11. Once(queue)'
    BY <2>4
  <2> QED
    BY <2>7, <2>8, <2>9, <2>10, <2>11 DEF PlaceOK
<1>6. ASSUME NEW w \in Writers, UpdateStatus(w) \/ NoticeCut(w) PROVE PlaceOK'
  <2>1. /\ ~Owns(w) /\ ~Owns(w)'
        /\ \A v \in Writers \ {w} : (Owns(v)' <=> Owns(v)) /\ held'[v] = held[v]
    BY <1>0, <1>6, PlacesApart DEF UpdateStatus, NoticeCut, Goto, TypeOK, Owns
  <2>2. UNCHANGED <<published, lost, settled, queue>>
    BY <1>6 DEF UpdateStatus, NoticeCut
  <2> QED
    BY <2>1, <2>2, PlacesStay
<1>7. ASSUME NEW w \in Writers, Die(w) \/ Cut(w) PROVE PlaceOK'
  <2>1. /\ linked[w] /\ ~Owns(w)' /\ UNCHANGED <<published, settled>>
        /\ \A v \in Writers \ {w} : (Owns(v)' <=> Owns(v)) /\ held'[v] = held[v]
        /\ Unlink(w)
    BY <1>0, <1>7 DEF Die, Cut, Unlink, Goto, TypeOK, Owns
  <2>2. \A r \in Requests : Owned(r) => Owned(r)' \/ (Owns(w) /\ r = held[w])
    BY <2>1 DEF Owned
  <2>3. CASE Consumers = {w}
    <3>1. \A v \in Writers : ~Owns(v)'
      BY <2>1, <2>3, PlacesApart DEF Consumers, Owns
    <3>2. Once(queue)' /\ \A r : ~Within(queue, r)'
      BY <2>1, <2>3, NothingWithin DEF Unlink
    <3>3. \A r \in Requests : ~Open(r)'
      <4>1. \A r \in Requests : Owned(r) => Owns(w) /\ r = held[w]
        BY <2>2, <3>1 DEF Owned
      <4>2. \A r \in Requests : Open(r) => r \in {Returned(w)[i] : i \in DOMAIN Returned(w)}
        BY <1>0, <2>1, <4>1, Returns DEF PlaceOK
      <4>3. \A r \in Requests : Open(r) => r \in lost'
        BY <2>1, <2>3, <4>2 DEF Unlink
      <4>4. \A r \in Requests : Open(r)' => Open(r)
        BY <2>1, <2>3 DEF Open, Unlink
      <4> QED
        BY <4>3, <4>4 DEF Open
    <3> QED
      BY <3>1, <3>2, <3>3 DEF PlaceOK
  <2>4. CASE Consumers # {w}
    <3>1. /\ Once(queue)'
          /\ \A r : Within(queue, r)' <=> Within(queue, r) \/ (Owns(w) /\ r = held[w])
      BY <2>1, <2>4, Returns DEF Unlink
    <3>2. \A r : Open(r)' <=> Open(r)
      BY <2>1, <2>4 DEF Open, Unlink
    <3>3. Owns(w) => Open(held[w])
      BY <1>0 DEF PlaceOK
    <3>4. \A v \in Writers : Owns(v)' => Open(held[v])' /\ ~Within(queue, held[v])'
      BY <1>0, <2>1, <3>1, <3>2 DEF PlaceOK
    <3>5. \A u, v \in Writers : Owns(u)' /\ Owns(v)' /\ held'[u] = held'[v] => u = v
      BY <1>0, <2>1 DEF PlaceOK
    <3> QED
      BY <1>0, <2>2, <3>1, <3>2, <3>3, <3>4, <3>5 DEF PlaceOK
  <2> QED
    BY <2>3, <2>4
<1>8. CASE UNCHANGED vars
  BY <1>0, <1>8, PlacesStay DEF vars, Owns
<1> QED
  BY <1>1, <1>2, <1>3, <1>4, <1>5, <1>6, <1>7, <1>8 DEF Next, Serve, Break

LEMMA InitCore == Init => Core
<1> SUFFICES ASSUME Init PROVE Core
  OBVIOUS
<1>1. TypeOK
  BY DeliveryAssumption DEF Init, TypeOK
<1>2. HeldOK
  BY PlacesApart DEF Init, HeldOK
<1>3. PlaceOK
  <2>1. Once(queue) /\ \A r : ~Within(queue, r) /\ ~Open(r)
    BY NothingWithin DEF Init, Open
  <2>2. \A w \in Writers : ~Owns(w)
    BY DEF Init, Owns
  <2> QED
    BY <2>1, <2>2 DEF PlaceOK
<1> QED
  BY <1>1, <1>2, <1>3 DEF Core

LEMMA CoreStep == Core /\ [Next]_vars => Core'
  BY TypeStep, HeldStep, PlaceStep DEF Core

LEMMA CoreHolds == Spec => []Core
  BY InitCore, CoreStep, PTL DEF Spec

(* The state stays of its types.                                            *)
THEOREM TypeCorrect == Spec => []TypeOK
<1>1. Core => TypeOK
  BY DEF Core
<1> QED
  BY <1>1, CoreHolds, PTL

(* A request that is neither settled nor lost waits once or is some         *)
(* writer's to confirm, and otherwise neither, whatever RabbitMQ            *)
(* redelivered (writer/start.py with prefetch 1).                           *)
THEOREM OnePlace == Spec => []InOnePlace
<1>1. Core => InOnePlace
  <2> SUFFICES ASSUME Core, NEW r \in Requests
               PROVE  Cardinality(Owners(r)) + Cardinality(Places(r)) =
                        IF Open(r) THEN 1 ELSE 0
    BY DEF InOnePlace, Open
  <2>0. /\ \A w : w \in Owners(r) <=> w \in Writers /\ Owns(w) /\ held[w] = r
        /\ \A i : i \in Places(r) <=> i \in DOMAIN queue /\ queue[i] = r
    BY DEF Owners, Owns, Places
  <2>1. CASE ~Open(r)
    <3>1. Owners(r) = {} /\ Places(r) = {}
      BY <2>0, <2>1 DEF Core, PlaceOK, Within
    <3> QED
      BY <2>1, <3>1, FS_EmptySet
  <2>2. CASE Open(r) /\ Within(queue, r)
    <3>1. PICK i \in DOMAIN queue : queue[i] = r
      BY <2>2 DEF Within
    <3>2. Places(r) = {i}
      BY <2>0, <3>1 DEF Core, PlaceOK, Once
    <3>3. Owners(r) = {}
      BY <2>0, <2>2 DEF Core, PlaceOK
    <3>4. Cardinality(Owners(r)) = 0 /\ Cardinality(Places(r)) = 1
      BY <3>2, <3>3, FS_EmptySet, FS_Singleton
    <3> QED
      BY <2>2, <3>4
  <2>3. CASE Open(r) /\ ~Within(queue, r)
    <3>1. PICK w \in Writers : Owns(w) /\ held[w] = r
      BY <2>3 DEF Core, PlaceOK, Owned
    <3>2. Owners(r) = {w}
      BY <2>0, <3>1 DEF Core, PlaceOK
    <3>3. Places(r) = {}
      BY <2>0, <2>3 DEF Within
    <3>4. Cardinality(Owners(r)) = 1 /\ Cardinality(Places(r)) = 0
      BY <3>2, <3>3, FS_EmptySet, FS_Singleton
    <3> QED
      BY <2>3, <3>4
  <2> QED
    BY <2>1, <2>2, <2>3
<1> QED
  BY <1>1, CoreHolds, PTL

-----------------------------------------------------------------------------
(* ToldOK is kept when nothing is told or settled, and nobody gets to the   *)
(* point of telling.                                                        *)
LEMMA ToldStays ==
  ASSUME ToldOK, UNCHANGED <<status, settled>>,
         \A w \in Writers :
           /\ Tells(w)' => Tells(w) /\ pc'[w] = pc[w] /\ held'[w] = held[w]
           /\ pc'[w] \in Working \ {"start"} =>
                pc[w] \in Working \ {"start"} /\ held'[w] = held[w]
  PROVE  ToldOK'
<1>1. \A r : NoVerdict(r)' <=> NoVerdict(r)
  BY DEF NoVerdict
<1>2. VerdictIsLast'
  BY DEF ToldOK, VerdictIsLast
<1> QED
  BY <1>1, <1>2 DEF ToldOK

LEMMA ToldStep == Core /\ ToldOK /\ [Next]_vars => ToldOK'
<1> SUFFICES ASSUME Core, ToldOK, [Next]_vars PROVE ToldOK'
  OBVIOUS
<1>0. TypeOK /\ HeldOK /\ PlaceOK
  BY DEF Core
<1>1. ASSUME NEW r \in Requests, NEW file, Publish(r, file) PROVE ToldOK'
  BY <1>1, ToldStays DEF Publish, Tells
<1>2. ASSUME NEW w \in Writers,
             Join(w) \/ Deliver(w) \/ NoticeCut(w) \/ Die(w)
      PROVE  ToldOK'
  <2>1. /\ pc'[w] \notin Telling /\ pc'[w] \notin Working \ {"start"}
        /\ \A v \in Writers \ {w} :
             pc'[v] = pc[v] /\ linked'[v] = linked[v] /\ held'[v] = held[v]
    <3>1. pc'[w] \in {"down", "declared", "bound", "idle", "start"}
            /\ \A v \in Writers \ {w} : pc'[v] = pc[v]
      BY <1>0, <1>2 DEF Join, Declare, Bind, Consume, QueueGone, Deliver, NoticeCut, Die, Goto,
                        TypeOK
    <3>2. \A v \in Writers \ {w} : linked'[v] = linked[v] /\ held'[v] = held[v]
      BY <1>0, <1>2 DEF Join, Declare, Bind, Consume, QueueGone, Deliver, NoticeCut, Die,
                        Unlink, TypeOK
    <3>3. "start" \notin Telling
      BY PlacesApart
    <3> QED
      BY <3>1, <3>2, <3>3, PlacesApart DEF Joining
  <2>2. UNCHANGED <<status, settled>>
    BY <1>2 DEF Join, Declare, Bind, Consume, QueueGone, Deliver, NoticeCut, Die
  <2> QED
    BY <2>1, <2>2, ToldStays DEF Tells
<1>3. ASSUME NEW w \in Writers, Cut(w) PROVE ToldOK'
  BY <1>0, <1>3, ToldStays DEF Cut, Unlink, Tells, TypeOK
<1>4. ASSUME NEW w \in Writers,
             OpenFile(w) \/ FillFile(w) \/ SkipFile(w) \/ Succeed(w) \/ Fail(w)
      PROVE  ToldOK'
  <2>1. /\ pc[w] \in Working \ {"start"} /\ pc'[w] \notin Telling
        /\ \A v \in Writers \ {w} : pc'[v] = pc[v]
    BY <1>0, <1>4 DEF OpenFile, FillFile, SkipFile, Succeed, Fail, Goto, TypeOK, Working,
                      Owning, Thread, Telling
  <2>2. UNCHANGED <<status, settled, held, linked>>
    BY <1>4 DEF OpenFile, FillFile, SkipFile, Succeed, Fail
  <2> QED
    BY <2>1, <2>2, ToldStays DEF Tells
<1>5. ASSUME NEW w \in Writers, StartThread(w) PROVE ToldOK'
  <2>0. PICK h \in Requests : h = held[w]
    BY <1>0, <1>5, PlacesApart DEF StartThread, HeldOK, TypeOK
  <2>1. Owns(w) /\ settled[h] = "open" /\ NoVerdict(h)
    BY <1>0, <1>5, <2>0, PlacesApart DEF StartThread, Owns, PlaceOK, Open, TypeOK, ToldOK
  <2>2. /\ status'[h] = Append(status[h], "write_start") /\ status[h] \in Seq(Events)
        /\ \A q \in Requests \ {h} : status'[q] = status[q]
    BY <1>0, <1>5, <2>0, Told DEF StartThread, TypeOK, Events
  <2>3. UNCHANGED <<settled, held, linked>> /\ pc'[w] = "write"
          /\ \A v \in Writers \ {w} : pc'[v] = pc[v]
    BY <1>0, <1>5 DEF StartThread, Goto, TypeOK
  <2>4. NoVerdict(h)' /\ status'[h] # <<>>
    <3>1. /\ DOMAIN status'[h] = 1..(Len(status[h]) + 1) /\ DOMAIN status[h] = 1..Len(status[h])
          /\ Len(status[h]) \in Nat
          /\ status'[h][Len(status[h]) + 1] = "write_start"
          /\ \A i \in 1..Len(status[h]) : status'[h][i] = status[h][i]
      BY <2>2
    <3>2. \A i \in 1..(Len(status[h]) + 1) : i \in 1..Len(status[h]) \/ i = Len(status[h]) + 1
      BY <3>1
    <3>3. NoVerdict(h)'
      BY <2>1, <3>1, <3>2 DEF NoVerdict
    <3> QED
      BY <2>2, <3>3
  <2>5. \A q \in Requests : NoVerdict(q) => NoVerdict(q)'
    BY <2>2, <2>4 DEF NoVerdict
  <2>6. VerdictIsLast'
    <3>1. ASSUME NEW q \in Requests \ {h}, NEW i \in DOMAIN status'[q],
                 status'[q][i] # "write_start"
          PROVE  /\ i = Len(status'[q]) /\ i > 1
                 /\ settled'[q] = IF status'[q][i] = "write_finished" THEN "ack" ELSE "reject"
      <4>1. status'[q] = status[q] /\ settled' = settled
        BY <2>2, <2>3, <3>1
      <4> QED
        BY <3>1, <4>1 DEF ToldOK, VerdictIsLast
    <3>2. \A i \in DOMAIN status'[h] : status'[h][i] = "write_start"
      BY <2>4 DEF NoVerdict
    <3> QED
      BY <3>1, <3>2 DEF VerdictIsLast
  <2>7. \A v \in Writers : Tells(v)' => Tells(v) /\ held[v] # h /\ v # w
    <3>1. \A v \in Writers : Tells(v)' => v # w /\ Tells(v)
      BY <2>3 DEF Tells, Telling
    <3>2. \A v \in Writers : Tells(v) => settled[held[v]] # "open"
      BY DEF ToldOK
    <3> QED
      BY <2>1, <3>1, <3>2
  <2>8. \A v \in Writers : pc'[v] \in Working \ {"start"} => status'[held'[v]] # <<>>
    <3> SUFFICES ASSUME NEW v \in Writers, pc'[v] \in Working \ {"start"}, held[v] # h
                 PROVE  status'[held[v]] # <<>>
      BY <2>3, <2>4
    <3>1. pc[v] \in Working \ {"start"}
      BY <2>0, <2>3
    <3>2. held[v] \in Requests
      BY <1>0, <3>1 DEF HeldOK, TypeOK
    <3> QED
      BY <2>2, <3>1, <3>2 DEF ToldOK
  <2>9. \A v \in Writers : Tells(v) => held[v] \in Requests
    BY <1>0, PlacesApart DEF HeldOK, TypeOK, Tells
  <2> QED
    BY <2>3, <2>5, <2>6, <2>7, <2>8, <2>9 DEF ToldOK
<1>6. ASSUME NEW w \in Writers, Confirm(w) \/ Reject(w) PROVE ToldOK'
  <2>0. PICK h \in Requests : h = held[w]
    BY <1>0, <1>6, PlacesApart DEF Confirm, Reject, Settle, HeldOK, TypeOK, Owning, Decided
  <2>1. /\ Owns(w) /\ settled[h] = "open" /\ NoVerdict(h)
        /\ pc[w] \in Working \ {"start"}
    BY <1>0, <1>6, <2>0 DEF Confirm, Reject, Settle, Owns, PlaceOK, Open, TypeOK, ToldOK, Owning,
                      Working, Decided
  <2>2. UNCHANGED <<status, held, linked>> /\ \A v \in Writers \ {w} : pc'[v] = pc[v]
    BY <1>0, <1>6 DEF Confirm, Reject, Settle, Goto, TypeOK
  <2>3. /\ settled'[h] = IF pc'[w] = "acked" THEN "ack" ELSE "reject"
        /\ \A q \in Requests \ {h} : settled'[q] = settled[q]
    BY <1>0, <1>6, <2>0 DEF Confirm, Reject, Settle, Goto, TypeOK
  <2>4. \A v \in Writers \ {w} : Tells(v)' => Tells(v) /\ held[v] # h
    <3>1. \A v \in Writers \ {w} : Tells(v)' => Tells(v)
      BY <2>2 DEF Tells
    <3>2. \A v \in Writers : Tells(v) => settled[held[v]] # "open"
      BY DEF ToldOK
    <3> QED
      BY <2>1, <3>1, <3>2
  <2>5. \A q : NoVerdict(q)' <=> NoVerdict(q)
    BY <2>2 DEF NoVerdict
  <2>6. VerdictIsLast'
    <3>1. \A q \in Requests \ {h} : \A i \in DOMAIN status[q] : status[q][i] # "write_start" =>
            /\ i = Len(status[q]) /\ i > 1
            /\ settled'[q] = IF status[q][i] = "write_finished" THEN "ack" ELSE "reject"
      BY <2>3 DEF ToldOK, VerdictIsLast
    <3>2. \A i \in DOMAIN status[h] : status[h][i] = "write_start"
      BY <2>1 DEF NoVerdict
    <3> QED
      BY <2>2, <3>1, <3>2 DEF VerdictIsLast
  <2>7. \A v \in Writers : pc'[v] \in Working \ {"start"} => status'[held'[v]] # <<>>
    BY <2>1, <2>2 DEF ToldOK
  <2>8. \A v \in Writers : Tells(v) => held[v] \in Requests
    BY <1>0, PlacesApart DEF HeldOK, TypeOK, Tells
  <2>9. \A q \in Requests : settled'[q] = "open" => NoVerdict(q)'
    BY <2>1, <2>3, <2>5 DEF ToldOK
  <2>10. \A v \in Writers : Tells(v)' =>
           /\ NoVerdict(held[v])
           /\ settled'[held[v]] = IF pc'[v] = "acked" THEN "ack" ELSE "reject"
    <3> SUFFICES ASSUME NEW v \in Writers, Tells(v)'
                 PROVE  /\ NoVerdict(held[v])
                        /\ settled'[held[v]] = IF pc'[v] = "acked" THEN "ack" ELSE "reject"
      OBVIOUS
    <3>1. CASE v = w
      BY <2>0, <2>1, <2>3, <3>1
    <3>2. CASE v # w
      BY <2>2, <2>3, <2>4, <2>8, <3>2 DEF ToldOK
    <3> QED
      BY <3>1, <3>2
  <2>11. \A u, v \in Writers : Tells(u)' /\ Tells(v)' /\ held[u] = held[v] => u = v
    BY <2>0, <2>4 DEF ToldOK
  <2> QED
    BY <2>2, <2>5, <2>6, <2>7, <2>9, <2>10, <2>11 DEF ToldOK
<1>7. ASSUME NEW w \in Writers, UpdateStatus(w) PROVE ToldOK'
  <2>0. PICK h \in Requests, e \in Events :
          h = held[w] /\ e = IF pc[w] = "acked" THEN "write_finished" ELSE "write_rejected"
    BY <1>0, <1>7, PlacesApart DEF UpdateStatus, HeldOK, TypeOK, Events
  <2> DEFINE n == Len(status[h])
  <2>1. /\ Tells(w) /\ NoVerdict(h) /\ status[h] # <<>>
        /\ settled[h] = IF pc[w] = "acked" THEN "ack" ELSE "reject"
    BY <1>0, <1>7, <2>0, PlacesApart DEF UpdateStatus, Tells, HeldOK, TypeOK, ToldOK
  <2>2. /\ status'[h] = Append(status[h], e) /\ status[h] \in Seq(Events)
        /\ \A q \in Requests \ {h} : status'[q] = status[q]
    BY <1>0, <1>7, <2>0, Told DEF UpdateStatus, TypeOK
  <2>3. /\ UNCHANGED <<settled, linked>> /\ pc'[w] = "idle"
        /\ \A v \in Writers \ {w} : pc'[v] = pc[v] /\ held'[v] = held[v]
    BY <1>0, <1>7 DEF UpdateStatus, Goto, TypeOK
  <2>4. /\ n \in Nat \ {0} /\ Len(status'[h]) = n + 1 /\ status'[h][n + 1] = e
        /\ DOMAIN status'[h] = 1..(n + 1) /\ DOMAIN status[h] = 1..n
        /\ \A i \in 1..n : status'[h][i] = status[h][i]
    BY <2>1, <2>2, EmptySeq
  <2>5. e # "write_start" /\ settled[h] = IF e = "write_finished" THEN "ack" ELSE "reject"
    BY <2>0, <2>1
  <2> HIDE DEF n
  <2>6. VerdictIsLast'
    <3>1. \A i \in 1..(n + 1) : status'[h][i] # "write_start" =>
            /\ i = Len(status'[h]) /\ i > 1
            /\ settled'[h] = IF status'[h][i] = "write_finished" THEN "ack" ELSE "reject"
      <4>1. \A i \in 1..(n + 1) : i \in 1..n \/ i = n + 1
        BY <2>4
      <4>2. \A i \in 1..n : status'[h][i] = "write_start"
        BY <2>1, <2>4 DEF NoVerdict
      <4>3. n + 1 > 1
        BY <2>4
      <4> QED
        BY <2>3, <2>4, <2>5, <4>1, <4>2, <4>3
    <3> QED
      BY <2>2, <2>3, <2>4, <3>1 DEF ToldOK, VerdictIsLast
  <2>7. \A q \in Requests \ {h} : NoVerdict(q)' <=> NoVerdict(q)
    BY <2>2 DEF NoVerdict
  <2>8. \A v \in Writers : Tells(v)' => v # w /\ Tells(v) /\ held[v] # h
    <3>1. \A v \in Writers : Tells(v)' => v # w /\ Tells(v)
      BY <2>3, PlacesApart DEF Tells
    <3> QED
      BY <2>0, <2>1, <3>1 DEF ToldOK
  <2>9. \A v \in Writers : pc'[v] \in Working \ {"start"} => status'[held'[v]] # <<>>
    <3> SUFFICES ASSUME NEW v \in Writers, pc'[v] \in Working \ {"start"}
                 PROVE  status'[held'[v]] # <<>>
      OBVIOUS
    <3>1. v # w
      BY <2>3, PlacesApart
    <3>2. held'[v] = held[v] /\ held[v] \in Requests /\ status[held[v]] # <<>>
      BY <1>0, <2>3, <3>1 DEF HeldOK, TypeOK, ToldOK
    <3>3. status'[h] # <<>>
      BY <2>2
    <3> QED
      BY <2>2, <3>2, <3>3
  <2>10. \A v \in Writers : Tells(v) => held[v] \in Requests
    BY <1>0, PlacesApart DEF HeldOK, TypeOK, Tells
  <2>11. \A q \in Requests : settled'[q] = "open" => NoVerdict(q)'
    BY <2>1, <2>3, <2>7 DEF ToldOK
  <2>12. \A v \in Writers : Tells(v)' =>
           /\ NoVerdict(held[v])'
           /\ settled'[held'[v]] = IF pc'[v] = "acked" THEN "ack" ELSE "reject"
    BY <2>3, <2>7, <2>8, <2>10 DEF ToldOK
  <2>13. \A u, v \in Writers : Tells(u)' /\ Tells(v)' /\ held'[u] = held'[v] => u = v
    BY <2>3, <2>8 DEF ToldOK
  <2> QED
    BY <2>6, <2>9, <2>11, <2>12, <2>13 DEF ToldOK
<1>8. CASE UNCHANGED vars
  BY <1>8, ToldStays DEF vars, Tells
<1> QED
  BY <1>1, <1>2, <1>3, <1>4, <1>5, <1>6, <1>7, <1>8 DEF Next, Serve, Break

(* A writer's report of the verdict comes last, after a start, and is what  *)
(* RabbitMQ was told (confirm_request, reject_request, update_status).      *)
THEOREM VerdictLast == Spec => []VerdictIsLast
<1>1. Init => ToldOK
  <2> SUFFICES ASSUME Init PROVE ToldOK
    OBVIOUS
  <2>1. \A w \in Writers : ~Tells(w) /\ pc[w] \notin Working
    BY PlacesApart DEF Init, Tells
  <2>2. \A r \in Requests : DOMAIN status[r] = {}
    BY DEF Init
  <2> QED
    BY <2>1, <2>2 DEF ToldOK, NoVerdict, VerdictIsLast
<1>2. ToldOK => VerdictIsLast
  BY DEF ToldOK
<1> QED
  BY <1>1, <1>2, ToldStep, CoreHolds, PTL DEF Spec

-----------------------------------------------------------------------------
(* WholeOK is kept when no file is touched and nobody gets to the point of  *)
(* having filled one.                                                       *)
LEMMA WholeStays ==
  ASSUME HeldOK, WholeOK, UNCHANGED disk, Outputs \subseteq Outputs',
         orphaned \subseteq orphaned',
         \A r \in Outputs' \ Outputs :
           /\ settled'[r] # "ack"
           /\ \A w \in Writers : pc[w] \in Working => held[w] # r,
         \A r \in Outputs : settled'[r] = "ack" => settled[r] = "ack" \/ Whole(r),
         \A w \in Writers : pc'[w] \in {"written", "succeeded"} =>
           \/ pc[w] \in {"written", "succeeded"} /\ held'[w] = held[w]
           \/ held'[w] \notin Outputs',
         \A w \in Writers : pc'[w] = "writing" => pc[w] = "writing" /\ held'[w] = held[w]
  PROVE  WholeOK'
<1>1. \A f : OnlyOneFor(f)' => OnlyOneFor(f)
  BY DEF OnlyOneFor
<1>2. \A r : Whole(r)' <=> Whole(r)
  BY DEF Whole
<1>3. {"written", "succeeded"} \subseteq Working
  BY DEF Working, Owning, Thread, Decided
<1> QED
  BY <1>1, <1>2, <1>3 DEF WholeOK

LEMMA InitWhole == Init => WholeOK
  BY DEF Init, WholeOK, Outputs

LEMMA WholeStep == Core /\ WholeOK /\ [Next]_vars => WholeOK'
<1> SUFFICES ASSUME Core, WholeOK, [Next]_vars PROVE WholeOK'
  OBVIOUS
<1>0. TypeOK /\ HeldOK /\ PlaceOK
  BY DEF Core
<1>1. ASSUME NEW r \in Requests, NEW file, Publish(r, file) PROVE WholeOK'
  <2>1. Outputs \subseteq Outputs' /\ Outputs' \subseteq Outputs \cup {r} /\ r \notin published
    BY <1>1 DEF Publish, Outputs
  <2>2. settled[r] # "ack" /\ \A w \in Writers : pc[w] \in Working => held[w] # r
    BY <1>0, <2>1 DEF HeldOK
  <2> QED
    BY <1>0, <1>1, <2>1, <2>2, WholeStays DEF Publish
<1>2. ASSUME NEW w \in Writers,
             Join(w) \/ Deliver(w) \/ StartThread(w) \/ SkipFile(w) \/ Succeed(w)
               \/ Fail(w) \/ Reject(w) \/ UpdateStatus(w) \/ Die(w) \/ NoticeCut(w)
      PROVE  WholeOK'
  <2>1. /\ pc'[w] \in {"written", "succeeded"} =>
             \/ pc[w] \in {"written", "succeeded"} /\ held'[w] = held[w]
             \/ held'[w] \in fileless
        /\ pc'[w] # "writing"
        /\ \A v \in Writers \ {w} : pc'[v] = pc[v] /\ held'[v] = held[v]
    BY <1>0, <1>2 DEF Join, Declare, Bind, Consume, QueueGone, Deliver, StartThread,
                      SkipFile, Succeed, Fail, Reject, Settle, UpdateStatus, Die, NoticeCut, Goto, TypeOK
  <2>2. UNCHANGED <<disk, published, fileless, orphaned>> /\ UNCHANGED Outputs
    BY <1>2 DEF Join, Declare, Bind, Consume, QueueGone, Deliver, StartThread,
                SkipFile, Succeed, Fail, Reject, Settle, UpdateStatus, Die, NoticeCut, Outputs
  <2>3. \A r \in published : settled'[r] = "ack" => settled[r] = "ack"
    BY <1>0, <1>2 DEF Join, Declare, Bind, Consume, QueueGone, Deliver, StartThread,
                      SkipFile, Succeed, Fail, Reject, Settle, UpdateStatus, Die, NoticeCut, TypeOK
  <2>4. \A r \in fileless : r \notin Outputs
    BY DEF Outputs
  <2>5. Outputs \subseteq published
    BY DEF Outputs
  <2> QED
    BY <1>0, <2>1, <2>2, <2>3, <2>4, <2>5, WholeStays
<1>3. ASSUME NEW w \in Writers, Cut(w) PROVE WholeOK'
  BY <1>0, <1>3, WholeStays DEF Cut, Outputs
<1>4. ASSUME NEW w \in Writers, OpenFile(w) PROVE WholeOK'
  <2>1. /\ held[w] \in Outputs /\ pc[w] \in Owning /\ pc'[w] = "writing"
        /\ UNCHANGED <<Outputs, orphaned, settled, held>>
        /\ \A v \in Writers \ {w} : pc'[v] = pc[v]
        /\ \A f \in Files \ {FileOf[held[w]]} : disk'[f] = disk[f]
    BY <1>0, <1>4 DEF OpenFile, HeldOK, TypeOK, Goto, Working, Owning, Thread, Outputs
  <2>2. \A r \in Outputs : r \in published /\ FileOf[r] \in Files
    BY <1>0, DeliveryAssumption DEF TypeOK, Outputs
  <2>3. ASSUME NEW r \in Outputs \ orphaned, OnlyOneFor(FileOf[r]), FileOf[r] = FileOf[held[w]]
        PROVE  settled[r] = "open" /\ \A v \in Writers \ {w} : pc[v] \in Owning => held[v] # r
    <3>1. held[w] = r
      BY <2>1, <2>3 DEF OnlyOneFor
    <3>2. Owns(w) /\ settled[r] = "open"
      BY <1>0, <2>1, <2>2, <3>1, PlacesApart DEF HeldOK, PlaceOK, Owns, Open
    <3>3. \A v \in Writers \ {w} : pc[v] \in Owning /\ held[v] = r => Owns(v)
      BY <1>0, PlacesApart DEF HeldOK, Owns
    <3> QED
      BY <1>0, <3>1, <3>2, <3>3 DEF PlaceOK
  <2>4. \A r : OnlyOneFor(r)' <=> OnlyOneFor(r)
    BY <2>1 DEF OnlyOneFor
  <2>5. {"written", "succeeded"} \subseteq Owning
    BY DEF Owning, Thread, Decided
  <2>6. \A r \in Outputs : FileOf[r] # FileOf[held[w]] => (Whole(r)' <=> Whole(r))
    BY <2>1, <2>2 DEF Whole
  <2> QED
    BY <2>1, <2>3, <2>4, <2>5, <2>6 DEF WholeOK
<1>5. ASSUME NEW w \in Writers, FillFile(w) PROVE WholeOK'
  <2>1. /\ held[w] \in Outputs /\ FileOf[held[w]] \in Files /\ pc'[w] = "written"
        /\ UNCHANGED <<Outputs, orphaned, settled, held>>
        /\ \A v \in Writers \ {w} : pc'[v] = pc[v]
        /\ \A f \in Files \ {FileOf[held[w]]} : disk'[f] = disk[f]
        /\ Whole(held[w])'
    <3>1. held[w] \in Outputs /\ held[w] \in published
      BY <1>5 DEF FillFile, WholeOK, Outputs
    <3> QED
      BY <1>0, <1>5, <3>1, DeliveryAssumption DEF FillFile, TypeOK, Goto, Whole, Outputs
  <2>2. \A r \in Outputs : r \in published /\ FileOf[r] \in Files
    BY <1>0, DeliveryAssumption DEF TypeOK, Outputs
  <2>3. \A r \in Outputs : OnlyOneFor(FileOf[r]) =>
          r = held[w] \/ (FileOf[r] # FileOf[held[w]] /\ (Whole(r)' <=> Whole(r)))
    BY <2>1, <2>2 DEF OnlyOneFor, Whole
  <2>4. \A r : OnlyOneFor(r)' <=> OnlyOneFor(r)
    BY <2>1 DEF OnlyOneFor
  <2> QED
    BY <2>1, <2>3, <2>4 DEF WholeOK
<1>6. ASSUME NEW w \in Writers, Confirm(w) PROVE WholeOK'
  <2>1. /\ held[w] \in published /\ pc[w] = "succeeded" /\ pc'[w] = "acked"
        /\ UNCHANGED <<disk, Outputs, orphaned, held>>
        /\ \A v \in Writers \ {w} : pc'[v] = pc[v]
        /\ \A r \in Outputs \ {held[w]} : settled'[r] = settled[r]
    BY <1>0, <1>6
    DEF Confirm, Settle, HeldOK, TypeOK, Goto, Working, Owning, Decided, Outputs
  <2>2. \A r : (OnlyOneFor(r)' <=> OnlyOneFor(r)) /\ (Whole(r)' <=> Whole(r))
    BY <2>1 DEF OnlyOneFor, Whole
  <2> QED
    BY <2>1, <2>2 DEF WholeOK
<1>7. CASE UNCHANGED vars
  BY <1>0, <1>7, WholeStays DEF vars, Outputs
<1> QED
  BY <1>1, <1>2, <1>3, <1>4, <1>5, <1>6, <1>7 DEF Next, Serve, Break

(* A confirmed request that is for an output file left it whole, unless a   *)
(* thread that nobody waits for or another request that writes the same     *)
(* file can spoil it                                                        *)
(* (process_request_internal, confirm_request).                             *)
THEOREM ConfirmedWhole == Spec => []ConfirmedIsWhole
<1>1. WholeOK => ConfirmedIsWhole
  BY DEF WholeOK, ConfirmedIsWhole, Whole
<1> QED
  BY <1>1, InitWhole, WholeStep, CoreHolds, PTL DEF Spec

-----------------------------------------------------------------------------
(* The stages of WriteRequests.                                             *)
LEMMA StageOf ==
  ASSUME NEW r
  PROVE  /\ Stage(r) = "unsent" <=> r \notin published
         /\ r \in published /\ r \in lost => Stage(r) = "lost"
         /\ Open(r) => Stage(r) = IF Owned(r) THEN "taken" ELSE "waiting"
         /\ r \in published \ lost /\ settled[r] = "ack" => Stage(r) = "done"
         /\ r \in published \ lost /\ settled[r] = "reject" => Stage(r) = "refused"
<1>1. Owners(r) # {} <=> Owned(r)
  BY DEF Owners, Owned, Owns
<1>2. CASE r \notin published
  <2>1. Stage(r) = "unsent"
    BY <1>2 DEF Stage
  <2> QED
    BY <1>2, <2>1 DEF Open
<1>3. CASE r \in published /\ r \in lost
  <2>1. Stage(r) = "lost"
    BY <1>3 DEF Stage
  <2> QED
    BY <1>3, <2>1 DEF Open
<1>4. CASE r \in published \ lost /\ settled[r] = "ack"
  <2>1. Stage(r) = "done"
    BY <1>4 DEF Stage
  <2> QED
    BY <1>4, <2>1 DEF Open
<1>5. CASE r \in published \ lost /\ settled[r] = "reject"
  <2>1. Stage(r) = "refused"
    BY <1>5 DEF Stage
  <2> QED
    BY <1>5, <2>1 DEF Open
<1>6. CASE r \in published \ lost /\ settled[r] \notin {"ack", "reject"}
  <2>1. Stage(r) = IF Owned(r) THEN "taken" ELSE "waiting"
    BY <1>1, <1>6 DEF Stage
  <2> QED
    BY <1>6, <2>1 DEF Open
<1> QED
  BY <1>2, <1>3, <1>4, <1>5, <1>6

LEMMA StageThen ==
  ASSUME NEW r
  PROVE  /\ Stage(r)' = "unsent" <=> r \notin published'
         /\ r \in published' /\ r \in lost' => Stage(r)' = "lost"
         /\ Open(r)' => Stage(r)' = IF Owned(r)' THEN "taken" ELSE "waiting"
         /\ r \in published' \ lost' /\ settled'[r] = "ack" => Stage(r)' = "done"
         /\ r \in published' \ lost' /\ settled'[r] = "reject" => Stage(r)' = "refused"
<1>1. Owners(r)' # {} <=> Owned(r)'
  BY DEF Owners, Owned, Owns
<1>2. CASE r \notin published'
  <2>1. Stage(r)' = "unsent"
    BY <1>2 DEF Stage
  <2> QED
    BY <1>2, <2>1 DEF Open
<1>3. CASE r \in published' /\ r \in lost'
  <2>1. Stage(r)' = "lost"
    BY <1>3 DEF Stage
  <2> QED
    BY <1>3, <2>1 DEF Open
<1>4. CASE r \in published' \ lost' /\ settled'[r] = "ack"
  <2>1. Stage(r)' = "done"
    BY <1>4 DEF Stage
  <2> QED
    BY <1>4, <2>1 DEF Open
<1>5. CASE r \in published' \ lost' /\ settled'[r] = "reject"
  <2>1. Stage(r)' = "refused"
    BY <1>5 DEF Stage
  <2> QED
    BY <1>5, <2>1 DEF Open
<1>6. CASE r \in published' \ lost' /\ settled'[r] \notin {"ack", "reject"}
  <2>1. Stage(r)' = IF Owned(r)' THEN "taken" ELSE "waiting"
    BY <1>1, <1>6 DEF Stage
  <2> QED
    BY <1>6, <2>1 DEF Open
<1> QED
  BY <1>2, <1>3, <1>4, <1>5, <1>6

LEMMA SameCount == \A S : W!Cardinality(S) = Cardinality(S)
  BY DEF W!Cardinality, Cardinality

(* The stage of a request changes only when it is sent, lost or settled, or *)
(* gets or loses its owner.                                                 *)
LEMMA StageStays ==
  ASSUME TypeOK, NEW r \in Requests, settled'[r] = settled[r],
         r \in published' <=> r \in published, r \in lost' <=> r \in lost,
         Open(r) => (Owned(r)' <=> Owned(r))
  PROVE  Stage(r)' = Stage(r)
<1>1. settled[r] \in {"open", "ack", "reject"}
  BY DEF TypeOK
<1>2. Open(r)' <=> Open(r)
  BY DEF Open
<1> QED
  BY <1>1, <1>2, StageOf, StageThen DEF Open

LEMMA StageMoves ==
  ASSUME NEW x \in Requests, NEW from, NEW to, Stage(x) = from, Stage(x)' = to,
         \A r \in Requests \ {x} : Stage(r)' = Stage(r)
  PROVE  W!Move(x, from, to)
  BY DEF W!Move

LEMMA NoneMoves ==
  ASSUME \A r \in Requests : Stage(r)' = Stage(r)
  PROVE  UNCHANGED [r \in Requests |-> Stage(r)]
  OBVIOUS

(* Each request that is worked on has a writer of its own.                  *)
LEMMA TakenByOne ==
  ASSUME Core, NEW S \in SUBSET Writers, \A w \in Writers : Owns(w) => w \in S
  PROVE  /\ IsFiniteSet(W!In("taken"))
         /\ Cardinality(W!In("taken")) <= Cardinality(S)
<1> DEFINE T == W!In("taken")
           own == [r \in T |-> CHOOSE w \in Writers : Owns(w) /\ held[w] = r]
<1>1. \A r \in T : r \in Requests /\ Owned(r)
  <2>1. \A r \in T : r \in Requests /\ Stage(r) = "taken"
    BY DEF W!In
  <2>2. \A r \in Requests : Stage(r) = "taken" => Owned(r)
    <3>1. \A r : Owners(r) # {} <=> Owned(r)
      BY DEF Owners, Owned, Owns
    <3> QED
      BY <3>1 DEF Stage
  <2> QED
    BY <2>1, <2>2
<1>2. \A r \in T : own[r] \in S /\ held[own[r]] = r
  BY <1>1 DEF Owned
<1> HIDE DEF own, T
<1>3. own \in [T -> S]
  BY <1>2 DEF own
<1>4. own \in Injection(T, S)
  BY <1>2, <1>3 DEF Injection, IsInjective
<1>5. IsFiniteSet(S)
  BY FS_Subset, DeliveryAssumption
<1> QED
  BY <1>4, <1>5, FS_Injection DEF T

LEMMA WriteRequestsStep == Core /\ [Next]_vars => [W!Next]_([r \in Requests |-> Stage(r)])
<1> SUFFICES ASSUME Core, [Next]_vars
             PROVE  [W!Next]_([r \in Requests |-> Stage(r)])
  OBVIOUS
<1> DEFINE Goal == [W!Next]_([r \in Requests |-> Stage(r)])
<1>0. TypeOK /\ HeldOK /\ PlaceOK
  BY DEF Core
<1>a. ASSUME UNCHANGED <<published, lost, settled>>,
             \A w \in Writers : (Owns(w)' <=> Owns(w)) /\ (Owns(w) => held'[w] = held[w])
      PROVE  Goal
  <2>1. \A r : Owned(r)' <=> Owned(r)
    BY <1>a DEF Owned
  <2>2. \A r \in Requests : Stage(r)' = Stage(r)
    BY <1>0, <1>a, <2>1, StageStays
  <2> QED
    BY <2>2, NoneMoves
<1>1. ASSUME NEW r \in Requests, NEW file, Publish(r, file) PROVE Goal
  <2>1. \A q : Owned(q)' <=> Owned(q)
    BY <1>1 DEF Publish, Owned, Owns
  <2>2. \A q \in Requests \ {r} : Stage(q)' = Stage(q)
    <3>1. \A q \in Requests \ {r} : /\ settled'[q] = settled[q] 
                                    /\ q \in published' <=> q \in published
                                    /\ q \in lost' <=> q \in lost
      BY <1>1 DEF Publish
    <3> QED
      BY <1>0, <2>1, <3>1, StageStays
  <2>3. Stage(r) = "unsent" /\ ~Owned(r) /\ settled[r] = "open" /\ r \notin lost
    BY <1>0, <1>1, StageOf DEF Publish, PlaceOK, HeldOK, Owned, Open
  <2>4. Stage(r)' \in {"waiting", "lost"}
    <3>1. r \in published' /\ settled'[r] = "open" /\ ~Owned(r)'
      BY <1>1, <2>1, <2>3 DEF Publish
    <3> QED
      BY <3>1, StageThen DEF Open
  <2>5. W!Submit(r)
    BY <2>2, <2>3, <2>4, StageMoves DEF W!Submit
  <2> QED
    BY <2>5 DEF W!Next
<1>2. ASSUME NEW w \in Writers, Join(w) PROVE Goal
  <2>1. /\ pc[w] \notin Working /\ pc'[w] \notin Working
        /\ \A v \in Writers \ {w} : pc'[v] = pc[v] /\ linked'[v] = linked[v]
    BY <1>0, <1>2, PlacesApart DEF Join, Declare, Bind, Consume, QueueGone, Goto, TypeOK, Joining
  <2>2. UNCHANGED <<published, lost, settled, held>>
    BY <1>2 DEF Join, Declare, Bind, Consume, QueueGone
  <2> QED
    BY <2>1, <2>2, <1>a, PlacesApart DEF Owns
<1>3. ASSUME NEW w \in Writers, Deliver(w) PROVE Goal
  <2>1. PICK h \in Requests : h = Head(queue) /\ Within(queue, h)
    BY <1>0, <1>3, HeadTaken DEF Deliver, PlaceOK, TypeOK
  <2>2. Open(h) /\ ~Owned(h)
    BY <1>0, <2>1 DEF PlaceOK, Owned
  <2>3. /\ ~Owns(w) /\ Owns(w)' /\ held'[w] = h
        /\ \A v \in Writers \ {w} : (Owns(v)' <=> Owns(v)) /\ held'[v] = held[v]
        /\ UNCHANGED <<published, lost, settled>>
    BY <1>0, <1>3, <2>1, PlacesApart DEF Deliver, TypeOK, Owns, Goto, Owning, Thread, Decided
  <2>4. \A q \in Requests : Owned(q)' <=> Owned(q) \/ q = h
    BY <2>3 DEF Owned
  <2>5. \A q \in Requests \ {h} : Stage(q)' = Stage(q)
    BY <1>0, <2>3, <2>4, StageStays
  <2>6. Stage(h) = "waiting" /\ Stage(h)' = "taken"
    <3>1. Open(h)' /\ Owned(h)'
      BY <2>2, <2>3, <2>4 DEF Open
    <3> QED
      BY <2>2, <3>1, StageOf, StageThen
  <2>7. Cardinality(W!In("taken")) < Cardinality(Writers)
    <3>1. Cardinality(W!In("taken")) <= Cardinality(Writers \ {w})
      BY <2>3, TakenByOne
    <3>2. Cardinality(Writers \ {w}) = Cardinality(Writers) - 1 /\ Cardinality(Writers) \in Nat
      BY DeliveryAssumption, FS_RemoveElement, FS_CardinalityType
    <3>3. Cardinality(W!In("taken")) \in Nat
      <4>1. IsFiniteSet(W!In("taken"))
        BY <2>3, TakenByOne
      <4> QED
        BY <4>1, FS_CardinalityType
    <3> QED
      BY <3>1, <3>2, <3>3
  <2>8. W!Take(h)
    BY <2>5, <2>6, <2>7, StageMoves, SameCount DEF W!Take
  <2> QED
    BY <2>8 DEF W!Next
<1>4. ASSUME NEW w \in Writers,
             StartThread(w) \/ OpenFile(w) \/ FillFile(w) \/ SkipFile(w) \/ Succeed(w)
               \/ Fail(w)
      PROVE  Goal
  <2>1. /\ pc[w] \in Owning /\ pc'[w] \in Owning
        /\ \A v \in Writers \ {w} : pc'[v] = pc[v]
    BY <1>0, <1>4 DEF StartThread, OpenFile, FillFile, SkipFile, Succeed, Fail, Goto, TypeOK,
                      Owning, Thread, Decided
  <2>2. UNCHANGED <<published, lost, settled, held, linked>>
    BY <1>4 DEF StartThread, OpenFile, FillFile, SkipFile, Succeed, Fail
  <2> QED
    BY <2>1, <2>2, <1>a DEF Owns
<1>5. ASSUME NEW w \in Writers, Confirm(w) \/ Reject(w) PROVE Goal
  <2>0. PICK h \in Requests : h = held[w]
    BY <1>0, <1>5, PlacesApart DEF Confirm, Reject, Settle, HeldOK, TypeOK, Owning, Decided
  <2>1. /\ Owns(w) /\ Open(h)
        /\ \A v \in Writers \ {w} : (Owns(v)' <=> Owns(v)) /\ held'[v] = held[v]
        /\ UNCHANGED <<published, lost>>
    BY <1>0, <1>5, <2>0 DEF Confirm, Reject, Settle, Goto, TypeOK, Owns, Owning, Thread, Decided,
                            PlaceOK
  <2>2. /\ settled'[h] \in {"ack", "reject"}
        /\ \A q \in Requests \ {h} : settled'[q] = settled[q]
    BY <1>0, <1>5, <2>0 DEF Confirm, Reject, Settle, TypeOK
  <2>3. \A q \in Requests \ {h} : Owned(q)' <=> Owned(q)
    <3>1. held'[w] = h
      BY <1>5, <2>0 DEF Confirm, Reject, Settle
    <3> QED
      BY <2>0, <2>1, <3>1 DEF Owned
  <2>4. \A q \in Requests \ {h} : Stage(q)' = Stage(q)
    BY <1>0, <2>1, <2>2, <2>3, StageStays
  <2>5. Stage(h) = "taken" /\ Stage(h)' \in {"done", "refused"}
    <3>1. Owned(h) /\ h \in published' \ lost'
      BY <2>0, <2>1 DEF Owned, Open
    <3> QED
      BY <2>1, <2>2, <3>1, StageOf, StageThen
  <2>6. W!Settle(h)
    BY <2>4, <2>5, StageMoves DEF W!Settle
  <2> QED
    BY <2>6 DEF W!Next
<1>6. ASSUME NEW w \in Writers, UpdateStatus(w) \/ NoticeCut(w) PROVE Goal
  <2>1. /\ ~Owns(w) /\ ~Owns(w)'
        /\ \A v \in Writers \ {w} : (Owns(v)' <=> Owns(v)) /\ held'[v] = held[v]
    BY <1>0, <1>6, PlacesApart DEF UpdateStatus, NoticeCut, Goto, TypeOK, Owns
  <2>2. UNCHANGED <<published, lost, settled>>
    BY <1>6 DEF UpdateStatus, NoticeCut
  <2> QED
    BY <2>1, <2>2, <1>a
<1>7. ASSUME NEW w \in Writers, Die(w) \/ Cut(w) PROVE Goal
  <2>1. /\ linked[w] /\ ~Owns(w)' /\ UNCHANGED <<published, settled>>
        /\ \A v \in Writers \ {w} : (Owns(v)' <=> Owns(v)) /\ held'[v] = held[v]
        /\ Unlink(w)
    BY <1>0, <1>7 DEF Die, Cut, Unlink, Goto, TypeOK, Owns
  <2>2. CASE Consumers = {w}
    <3>1. \A v \in Writers : Owns(v) => v \in {w}
      BY <2>2, PlacesApart DEF Consumers, Owns
    <3>2. Cardinality(W!In("taken")) <= 1
      BY <3>1, TakenByOne, FS_Singleton
    <3>3. \A r \in Requests : Open(r) => r \in lost'
      <4>1. \A r \in Requests : Owned(r) => Owns(w) /\ r = held[w]
        BY <3>1 DEF Owned
      <4>2. \A r \in Requests : Open(r) => r \in {Returned(w)[i] : i \in DOMAIN Returned(w)}
        BY <1>0, <2>1, <4>1, Returns DEF PlaceOK
      <4> QED
        BY <2>1, <2>2, <4>2 DEF Unlink
    <3>4. \A r \in Requests : r \in lost' => r \in lost \/ Open(r)
      <4>1. \A r \in {Returned(w)[i] : i \in DOMAIN Returned(w)} : Open(r)
        BY <1>0, <2>1, Returns DEF PlaceOK
      <4> QED
        BY <2>1, <2>2, <4>1 DEF Unlink
    <3>5. \A r \in Requests : Stage(r)' = IF Open(r) THEN "lost" ELSE Stage(r)
      <4>1. lost \subseteq lost'
        BY <2>1, <2>2 DEF Unlink
      <4>2. \A r \in Requests : ~Open(r) => Stage(r)' = Stage(r)
        BY <1>0, <2>1, <3>4, <4>1, StageStays
      <4>3. \A r \in Requests : Open(r) => Stage(r)' = "lost"
        BY <2>1, <3>3, StageThen DEF Open
      <4> QED
        BY <4>2, <4>3
    <3>6. \A r \in Requests : Stage(r) \in {"waiting", "taken"} <=> Open(r)
      BY <1>0, StageOf DEF Open, TypeOK
    <3>7. W!LoseAll
      BY <3>2, <3>5, <3>6, SameCount DEF W!LoseAll
    <3> QED
      BY <3>7 DEF W!Next
  <2>3. CASE Consumers # {w} /\ ~Owns(w)
    BY <1>a, <2>1, <2>3 DEF Unlink
  <2>4. CASE Consumers # {w} /\ Owns(w)
    <3>1. PICK h \in Requests : h = held[w] /\ Open(h)
      BY <1>0, <2>4 DEF PlaceOK, Open, TypeOK
    <3>2. lost' = lost
      BY <2>1, <2>4 DEF Unlink
    <3>3. Owned(h) /\ ~Owned(h)' /\ \A q \in Requests \ {h} : Owned(q)' <=> Owned(q)
      BY <1>0, <2>1, <2>4, <3>1 DEF Owned, PlaceOK
    <3>4. \A q \in Requests \ {h} : Stage(q)' = Stage(q)
      BY <1>0, <2>1, <3>2, <3>3, StageStays
    <3>5. Stage(h) = "taken" /\ Stage(h)' = "waiting"
      <4>1. Open(h)'
        BY <2>1, <3>1, <3>2 DEF Open
      <4> QED
        BY <3>1, <3>3, <4>1, StageOf, StageThen
    <3>6. W!GiveBack(h)
      BY <3>4, <3>5, StageMoves DEF W!GiveBack
    <3> QED
      BY <3>6 DEF W!Next
  <2> QED
    BY <2>2, <2>3, <2>4
<1>8. CASE UNCHANGED vars
  BY <1>8, <1>a DEF vars, Owns
<1> QED
  BY <1>1, <1>2, <1>3, <1>4, <1>5, <1>6, <1>7, <1>8 DEF Next, Serve, Break

(* The queue and its writers lead each write request through the life that  *)
(* WriteRequests promises (broker_client.py, writer/start.py).              *)
THEOREM ImplementsWriteRequests == Spec => WriteRequestsSpec
<1>1. Init => W!Init
  BY StageOf DEF Init, W!Init
<1> QED
  BY <1>1, WriteRequestsStep, CoreHolds, PTL DEF Spec, WriteRequestsSpec, W!Spec

(* What follows from WriteRequests holds of the queue and its writers.      *)
V == INSTANCE WriteRequestsProofs WITH Capacity <- Cardinality(Writers),
                                       stage <- [r \in Requests |-> Stage(r)]

LEMMA SameLife == WriteRequestsSpec => V!Spec
<1> DEFINE stages == [r \in Requests |-> Stage(r)]
<1>1. W!Init <=> V!Init
  BY DEF W!Init, V!Init
<1>2. \A r, from, to : W!Move(r, from, to) <=> V!Move(r, from, to)
  BY DEF W!Move, V!Move
<1>3. W!Cardinality(W!In("taken")) = V!Cardinality(V!In("taken"))
  BY DEF W!In, V!In, W!Cardinality, V!Cardinality
<1>4. \A r : /\ W!Submit(r) <=> V!Submit(r)
             /\ W!Take(r) <=> V!Take(r)
             /\ W!GiveBack(r) <=> V!GiveBack(r)
             /\ W!Settle(r) <=> V!Settle(r)
  BY <1>2, <1>3 DEF W!Submit, V!Submit, W!Take, V!Take, W!GiveBack, V!GiveBack,
                    W!Settle, V!Settle
<1>5. W!LoseAll <=> V!LoseAll
  BY <1>3 DEF W!LoseAll, V!LoseAll
<1>6. [W!Next]_stages <=> [V!Next]_stages
  BY <1>4, <1>5 DEF W!Next, V!Next
<1> QED
  BY <1>1, <1>6, PTL DEF WriteRequestsSpec, W!Spec, V!Spec

(* A request that was confirmed, rejected or lost stays so, whatever is     *)
(* redelivered and whichever links break: no second writer overturns a      *)
(* verdict (confirm_request and reject_request), and a settled request does *)
(* not go down with the queue.                                              *)
THEOREM VerdictForGood == Spec => V!SettledForGood
  BY ImplementsWriteRequests, SameLife, V!Final, PTL
=============================================================================
