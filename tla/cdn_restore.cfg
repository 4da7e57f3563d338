SPECIFICATION Spec
CONSTANTS
  i1 = i1
  i2 = i2
  d1 = d1
  d2 = d2
  Instance = {i1, i2}
  Host = {d1, d2}
  Absent = Absent
  NoHost = NoHost
  NoInstance = NoInstance
  Parameters <- MCParameters
  Requests <- ContestRequests
  Retention = TRUE
  MaxChanges = 3
  MaxCrashes = 0
INVARIANTS
  ValidatedWasChallenged
