------------------------------ MODULE PulseIds -------------------------------
(***************************************************************************)
(* Which pulses an acquisition is about.  A retrieve request names a first *)
(* and a last pulse and how many pulses there are to one of the beam; from *)
(* these the broker makes the range of its write requests and that of the  *)
(* detectors.  Three places go by such ranges later: the check of a file   *)
(* by the writer that wrote it, the selection of the analysis pipeline's   *)
(* output, and the check that users run (client/check.py).                 *)
(*                                                                         *)
(* A request may begin with pulse 0 or, as nobody refuses it, below, where *)
(* no source has anything.                                                 *)
(*                                                                         *)
(* The last was written for files of an earlier layout.  Entries stand for *)
(* what each of the three reads: a channel, images, frames or lines.       *)
(***************************************************************************)
EXTENDS Integers, Sequences, SequencesExt, FiniteSetsExt

CONSTANTS
  Rates,      \* ALLOWED_RATE_MULTIPLICATORS
  MaxDelta,   \* MAX_PULSEID_DELTA
  Block,      \* the pulses in a file of the analysis pipeline
  Below,      \* bound: how far below pulse 0, the first there is, requests go
  MaxPulse,   \* bound: the last pulse there is
  MaxFaults   \* bound: what is wrong with the entries

ASSUME PulseIdsAssumption ==
  /\ Rates \subseteq Nat \ {0}
  /\ Block \in Nat \ {0}
  /\ {MaxDelta, Below, MaxPulse, MaxFaults} \subseteq Nat

VARIABLES
  pc,         \* how far the acquisition is
  request,    \* the retrieve request
  adjusted,   \* the range of its write requests
  detectors,  \* the range of its detector requests
  present,    \* whether its file has the source
  entries,    \* the entries of the source, in the order of its file
  faults,     \* how much is wrong with them
  logged,     \* what the writer's check logs of them
  outcome     \* whether the thread of the writer raised

vars == <<pc, request, adjusted, detectors, present, entries, faults, logged, outcome>>

(* The pulses from a to b in their order.                                   *)
Pulses(a, b) == [i \in 1..(b - a + 1) |-> a + i - 1]

(* What a loop over s keeps of it.                                          *)
Kept(s, good) ==
  LET kept[n \in 0..Len(s)] ==
        IF n = 0 THEN <<>>
        ELSE IF s[n] \in good THEN Append(kept[n - 1], s[n])
        ELSE kept[n - 1]
  IN  kept[Len(s)]

InOrder(ids) == Kept(Pulses(adjusted.start, adjusted.stop), ids)

Selected(range, rate) == {p \in range.start..range.stop : p % rate = 0}

Ids == [i \in DOMAIN entries |-> entries[i].id]

Nothing == [start |-> 0, stop |-> 0, rate |-> 1]

Init ==
  /\ pc = "request"
  /\ request = Nothing
  /\ adjusted = Nothing
  /\ detectors = Nothing
  /\ present = TRUE
  /\ entries = <<>>
  /\ faults = 0
  /\ logged = {}
  /\ outcome = "none"

-----------------------------------------------------------------------------
(* retrieve.                                                                *)

Allowed(start, stop, rate) ==
  /\ stop - start \in 0..MaxDelta
  /\ rate \in Rates

(* Mutant: the ends move also where every pulse counts.                     *)
AdjustAlways(start, stop, rate) == [start |-> start - 1, stop |-> stop + 1]

Adjust(start, stop, rate) ==
  [start |-> IF rate # 1 /\ start % rate = 0 THEN start - 1 ELSE start,
   stop  |-> IF rate # 1 /\ stop % rate = 0 THEN stop + 1 ELSE stop]

(* The loop over the pulses, for which 0 means that none was found yet: of  *)
(* a range that begins with pulse 0 it passes over it.                      *)
AlignPids(start, stop, rate) ==
  LET range[p \in (start - 1)..stop] ==
        IF p < start THEN [start |-> 0, stop |-> stop]
        ELSE IF p % rate # 0 THEN range[p - 1]
        ELSE [start |-> IF range[p - 1].start = 0 THEN p ELSE range[p - 1].start,
              stop  |-> p]
  IN  range[stop]

Retrieve(start, stop, rate) ==
  /\ pc = "request"
  /\ Allowed(start, stop, rate)
  /\ request' = [start |-> start, stop |-> stop, rate |-> rate]
  /\ adjusted' = Adjust(start, stop, rate)
  /\ detectors' = AlignPids(start, stop, rate)
  /\ pc' = "fetch"
  /\ UNCHANGED <<present, entries, faults, logged, outcome>>

-----------------------------------------------------------------------------
(* write_generic: the query goes by time, and brings what the buffer has.   *)

(* The mapping of pulses to times failed n_tries times.                     *)
MappingFails ==
  /\ pc = "fetch"
  /\ outcome' = "raised"
  /\ pc' = "done"
  /\ UNCHANGED <<request, adjusted, detectors, present, entries, faults, logged>>

(* Of a source that the buffer has nothing of there may be no channel.      *)
Query(found) ==
  /\ pc = "fetch"
  /\ found \subseteq adjusted.start..adjusted.stop
  /\ present' \in BOOLEAN
  /\ ~present' => found = {}
  /\ entries' = LET ids == InOrder(found)
                IN  [i \in DOMAIN ids |-> [id |-> ids[i], ok |-> TRUE]]
  /\ pc' = "file"
  /\ UNCHANGED <<request, adjusted, detectors, faults, logged, outcome>>

(* An entry may be there twice, at the place of another, from outside of    *)
(* the range, or not present, not readable or not good.                     *)
Flaw(flawed) ==
  /\ pc = "file"
  /\ present
  /\ faults < MaxFaults
  /\ faults' = faults + 1
  /\ entries' = flawed
  /\ UNCHANGED <<pc, request, adjusted, detectors, present, logged, outcome>>

Repeat(i)   == Flaw(InsertAt(entries, i, entries[i]))
Swap(i, j)  == Flaw([entries EXCEPT ![i] = entries[j], ![j] = entries[i]])
Misplace(p) == Flaw(Append(entries, [id |-> p, ok |-> TRUE]))
Spoil(i)    == Flaw([entries EXCEPT ![i].ok = FALSE])

-----------------------------------------------------------------------------
(* check_data_consistency.  Write requests carry no rate_multiplicator: the *)
(* check expects every pulse of the adjusted range.                         *)

Raw      == {entries[i].id : i \in DOMAIN entries}
Expected == adjusted.start..adjusted.stop
Matched  == Expected \cap Raw

Duplicates == Cardinality(Raw) # Len(entries)

Monotonic == IsPrefix(InOrder(Matched), InOrder(Expected))

(* Mutant: matching ends are enough.                                        *)
ErrorsAtEnds ==
  IF ~present \/ Duplicates \/ Min(Raw) # adjusted.start \/ Max(Raw) # adjusted.stop
    THEN {"number"} ELSE {}

Errors ==
  IF ~present THEN {"absent"} ELSE
  {e \in {"before", "after", "duplicates", "number", "start", "stop", "monotonic"} :
     CASE e = "before"     -> \E p \in Raw : p < adjusted.start
       [] e = "after"      -> \E p \in Raw : p > adjusted.stop
       [] e = "duplicates" -> Duplicates
       [] e = "number"     -> Cardinality(Matched) # Cardinality(Expected)
       [] e = "start"      -> adjusted.start \notin Matched
       [] e = "stop"       -> adjusted.stop \notin Matched
       [] e = "monotonic"  -> {adjusted.start, adjusted.stop} \subseteq Matched
                                  /\ ~Duplicates /\ ~Monotonic}

(* There is no minimum of no entries: of a channel without entries the      *)
(* check raises, as a failed query does when the check is over.             *)
Empty == present /\ entries = <<>>

Check(failed) ==
  /\ pc = "file"
  /\ logged' = IF Empty THEN {} ELSE Errors
  /\ outcome' = IF Empty \/ failed THEN "raised" ELSE "returned"
  /\ pc' = "done"
  /\ UNCHANGED <<request, adjusted, detectors, present, entries, faults>>

Next ==
  \/ \E start, stop \in (0 - Below)..MaxPulse, rate \in Rates : Retrieve(start, stop, rate)
  \/ MappingFails
  \/ \E found \in SUBSET (0..(MaxPulse + 1)) : Query(found)
  \/ \E i, j \in DOMAIN entries : Repeat(i) \/ Spoil(i) \/ (i < j /\ Swap(i, j))
  \/ \E p \in 0..(MaxPulse + 1) : Misplace(p)
  \/ \E failed \in BOOLEAN : Check(failed)

Spec == Init /\ [][Next]_vars

-----------------------------------------------------------------------------
(* store_dap_info.  The pipeline names its files after their first pulse.   *)

FileOf(p) == (p \div Block) * Block

(* Mutant: the range without its last pulse.                                *)
DapEndingsOpen == {FileOf(p) : p \in detectors.start..(detectors.stop - 1)}

DapEndings == {FileOf(p) : p \in detectors.start..detectors.stop}

(* The lines, by their place, that are printed of the files.                *)
DapLines ==
  UNION {{i \in DOMAIN Ids : FileOf(Ids[i]) = ending
                               /\ Ids[i] \in detectors.start..detectors.stop} :
           ending \in DapEndings}

-----------------------------------------------------------------------------
(* client/check.py: check_consistency.                                      *)

ClientExpected ==
  Kept(Pulses(request.start, request.stop), Selected(request, request.rate))

(* Mutant: the number and the ends are enough.                              *)
AgreesAtEnds(ids, compared) ==
  /\ Len(ids) = Len(ClientExpected)
  /\ ids # <<>>
  /\ \A i \in {1, Len(ids)} : ids[i] = ClientExpected[i]

(* No problem was found with ids, of which those at some places count.      *)
(* Where no pulse is expected the comparison of the ends fails.             *)
Agrees(ids, compared) ==
  /\ Len(ids) = Len(ClientExpected)
  /\ ids # <<>>
  /\ ids[1] = ClientExpected[1]
  /\ ids[Len(ids)] = ClientExpected[Len(ids)]
  /\ \A i \in compared : ids[i] = ClientExpected[i]

Sound == {i \in DOMAIN entries : entries[i].ok}

Present ==
  Kept(entries, {entries[i] : i \in {i \in Sound : Ids[i] % request.rate = 0}})

ChannelPasses ==
  LET ids == [i \in DOMAIN Present |-> Present[i].id]
  IN  Agrees(ids, DOMAIN ids)

CameraPasses == Agrees(Ids, DOMAIN Ids) /\ Sound = DOMAIN entries

DetectorPasses == Agrees(Ids, Sound) /\ Sound = DOMAIN entries

-----------------------------------------------------------------------------
(* Pulse 0, unless one of the beam was requested before it.                 *)
Lost == IF \E p \in Selected(request, request.rate) : p < 0 THEN {} ELSE {0}

(* Whatever the ends of the requested range are: among the pulses of the    *)
(* write requests those of the beam are the requested ones, and all but at  *)
(* most one pulse at each end were asked for.  The detectors' range, if one *)
(* of the requested pulses is of the beam, goes from one such to another    *)
(* and is without none of them but pulse 0, which the loop takes for none.  *)
RangesAgree ==
  pc # "request" =>
    LET wanted == Selected(request, request.rate)
        gets(range) == range.start..range.stop
    IN  /\ Selected(adjusted, request.rate) = wanted
        /\ gets(request) \subseteq gets(adjusted)
        /\ request.rate = 1 => gets(adjusted) = gets(request)
        /\ Cardinality(gets(adjusted)) <= Cardinality(gets(request)) + 2
        /\ wanted # {} => /\ {detectors.start, detectors.stop} \subseteq wanted
                          /\ wanted \ Lost \subseteq gets(detectors)

(* The writer logs nothing and returns if and only if every pulse of the    *)
(* range is in the file once, and no other; in which order is not checked.  *)
(* A channel that is not there is logged, too, and does not make it raise.  *)
(* That the order is wrong is only logged where pulses are missing.         *)
WriterCheckIsExact ==
  pc = "done" /\ outcome = "returned" =>
    /\ logged = {} <=> Raw = Expected /\ ~\E i, j \in DOMAIN Ids : i < j /\ Ids[i] = Ids[j]
    /\ logged = {} => present /\ Selected(request, request.rate) \subseteq Raw
    /\ "monotonic" \in logged => Selected(adjusted, 1) \ Raw # {}

(* A line of the pipeline's output about a pulse of the beam is stored if   *)
(* and only if the pulse was requested, in however many files the lines     *)
(* are, unless no pulse of the beam was, or it is the pulse 0 that the      *)
(* detectors' range may be without.                                         *)
DapLinesComplete ==
  pc = "file" /\ Selected(request, request.rate) # {} =>
    {i \in DapLines : Ids[i] % request.rate = 0 /\ Ids[i] \notin Lost}
      = {i \in DOMAIN Ids : Ids[i] \in Selected(request, request.rate) \ Lost}

(* A user's check finds no problem if and only if the requested pulses of   *)
(* the beam, at least one, are there once and in order, and sound; of a     *)
(* channel the others are passed over.                                      *)
ClientChecksAreExact ==
  pc = "file" =>
    LET wanted == Selected(request, request.rate)
        exact(places) ==
          /\ wanted # {}
          /\ wanted = {Ids[i] : i \in places}
          /\ \A i, j \in places : i < j => Ids[i] < Ids[j]
        all == DOMAIN Ids
    IN  /\ ChannelPasses <=> exact({i \in Sound : Ids[i] % request.rate = 0})
        /\ CameraPasses <=> exact(all) /\ Sound = all
        /\ DetectorPasses <=> CameraPasses

=============================================================================
