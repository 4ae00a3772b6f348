\* One writer dies or loses its connection.
SPECIFICATION Spec
CONSTANTS
  Requests = {r1, r2}
  Writers = {w1, w2}
  MaxBreaks = 1
  FirstPedestal = FirstPedestal
  NoRequest = NoRequest
SYMMETRY RetrieveSymmetry
INVARIANTS
  TypeOK
  DataSurvives
  CurrentPedestalIsGood
  PedestalTookEffect
\* Every request may be settled.
CHECK_DEADLOCK FALSE
