SPECIFICATION HSpec
CONSTANTS
  Passing = {}
  Instance = {i1, i2}
  Absent = Absent
  Parameters = {p}
  Delay = 1
  Missing = Missing
  MaxTime = 2
  MaxEvents = 4
  MaxFailures = 1
INVARIANTS
  OnlySameSecondIsMissed
PROPERTIES
  RetainedForTheDelay
SYMMETRY Symmetric
