\* Three calls of any kinds, one of them fails or dies.
SPECIFICATION Spec
SYMMETRY ScriptSymmetry
CONSTANTS
  Scripts = {s1, s2}
  Sources = {1, 2}
  NameOf <- MCNameOf
  MaxSecond = 1
  MaxPushes = 1
  MaxFaults = 1
  MaxCalls = 3
INVARIANTS
  TypeOK
  DapSettingsSurvive
  DapFailureUndone
  PvlistSurvives
  PublishedIsTested
  ConfirmedIsKept
  CleanWhenIdle
  LastReportedIsThere
\* The calls run out.
CHECK_DEADLOCK FALSE
