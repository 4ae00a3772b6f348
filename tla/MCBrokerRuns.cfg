\* Three runs and two acquisitions, the pgroup closed at any time.
SPECIFICATION Spec
SYMMETRY SuffixSymmetry
CONSTANTS
  Suffixes = {plain, tag}
  Sources = {1}
  MaxRun = 3
  MaxAcq = 2
  WideRun = 1
  Radix = 2
  NoRun = NoRun
  NoJob = NoJob
  Absent = Absent
  Blank = Blank
INVARIANTS
  UniqueNumbers
  OneDirectoryPerRun
PROPERTIES
  ClosedIsFinal
  LedgerSpec
\* The model stops where a handler would go beyond the bounds.
CHECK_DEADLOCK FALSE
