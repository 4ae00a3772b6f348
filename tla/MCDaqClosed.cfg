\* A request on its way when the pgroup is closed.
SPECIFICATION DaqSpec
SYMMETRY WriterSymmetry
CONSTANTS
  Suffixes = {plain}
  Sources = {1}
  MaxRun = 1
  MaxAcq = 2
  WideRun = 10
  Radix = 10
  NoRun = NoRun
  NoJob = NoJob
  Absent = Absent
  Blank = Blank
  Writers = {w1, w2}
  MaxBreaks = 0
  NoRequest = NoRequest
PROPERTIES
  ClosedIsNotWritten
\* The numbers run out, and the writers are idle.
CHECK_DEADLOCK FALSE
