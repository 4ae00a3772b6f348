\* One call of the slow broker, or one writer dies or loses its connection.
SPECIFICATION Spec
CONSTANTS
  Detectors = {d1}
  Requests = {r1, r2}
  Writers = {w1, w2}
  SlowBroker = SlowBroker
  MaxEvents = 1
  NoRequest = NoRequest
SYMMETRY ControlSymmetry
INVARIANTS
  TypeOK
  TriggerIsHeld
  GainIsWanted
  DetectorsGoOn
  RetrieveFindsItsRange
  ConfirmedIsSent
\* Every request may be settled.
CHECK_DEADLOCK FALSE
