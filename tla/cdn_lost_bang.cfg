SPECIFICATION Spec
CONSTANTS
  Passing = {}
  Instance = {i1}
  Absent = Absent
  Parameters = {p}
  Delay = 2
  Missing = Missing
  MaxTime = 2
  MaxEvents = 2
  MaxFailures = 0
INVARIANTS
  ChangesReachMaster
