\* No writer dies or loses its connection.
SPECIFICATION Spec
CONSTANTS
  Requests = {r1, r2}
  Writers = {w1, w2}
  MaxBreaks = 0
  FirstPedestal = FirstPedestal
  NoRequest = NoRequest
SYMMETRY RetrieveSymmetry
INVARIANTS
  OutputExists
\* Every request may be settled.
CHECK_DEADLOCK FALSE
