\* One acquisition, two writers of which one dies or loses its connection.
SPECIFICATION DaqSpec
SYMMETRY WriterSymmetry
CONSTANTS
  Suffixes = {plain}
  Sources = {1}
  MaxRun = 1
  MaxAcq = 1
  WideRun = 10
  Radix = 10
  NoRun = NoRun
  NoJob = NoJob
  Absent = Absent
  Blank = Blank
  Writers = {w1, w2}
  MaxBreaks = 1
  NoRequest = NoRequest
INVARIANTS
  UndisputedFilesHoldTheirData
\* The numbers run out, and the writers are idle.
CHECK_DEADLOCK FALSE
