\* Two writers die or lose their connection, the others serve.
SPECIFICATION FairSpec
CONSTANTS
  r1 = r1
  r2 = r2
  Requests = {r1, r2}
  Writers = {w1, w2}
  Files = {"f1", "f2"}
  FileOf <- MCFileOf
  MaxBreaks = 2
  NoRequest = NoRequest
INVARIANTS
  TypeOK
  InOnePlace
  VerdictIsLast
  ConfirmedIsWhole
PROPERTIES
  WriteRequestsSpec
  Served
\* Everything may be settled or lost, and the writers idle.
CHECK_DEADLOCK FALSE
