\* Ranges of up to five pulses at three rates; up to two flaws in what is found of them.
SPECIFICATION Spec
CONSTANTS
  Rates = {1, 2, 4}
  MaxDelta = 4
  Block = 2
  Below = 2
  MaxPulse = 5
  MaxFaults = 2
INVARIANTS
  RangesAgree
  WriterCheckIsExact
  DapLinesComplete
  ClientChecksAreExact
\* An acquisition ends.
CHECK_DEADLOCK FALSE
