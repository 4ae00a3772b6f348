\* A first step that failed after its requests went out, and its retry.
SPECIFICATION DaqSpec
SYMMETRY WriterSymmetry
CONSTANTS
  Suffixes = {plain}
  Sources = {1}
  MaxRun = 1
  MaxAcq = 2
  WideRun = 10
  Radix = 10
  NoRun = NoRun
  NoJob = NoJob
  Absent = Absent
  Blank = Blank
  Writers = {w1, w2}
  MaxBreaks = 0
  NoRequest = NoRequest
INVARIANTS
  AcceptedFilesHoldTheirData
\* The numbers run out, and the writers are idle.
CHECK_DEADLOCK FALSE
