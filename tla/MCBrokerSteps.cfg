\* Up to three acquisitions in the runs 0 and 1, any request failing anywhere.
SPECIFICATION Spec
SYMMETRY SuffixSymmetry
CONSTANTS
  Suffixes = {plain, tag}
  Sources = {1, 2}
  MaxRun = 1
  MaxAcq = 3
  WideRun = 1
  Radix = 2
  NoRun = NoRun
  NoJob = NoJob
  Absent = Absent
  Blank = Blank
INVARIANTS
  TypeOK
  AcceptedIsRecorded
  AcceptedFilesAreFinal
  OnlyFirstStepsRepeat
  ScanInOrder
\* The model stops where a handler would go beyond the bounds.
CHECK_DEADLOCK FALSE
