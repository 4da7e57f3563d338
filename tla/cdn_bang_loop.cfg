SPECIFICATION FairSpec
CONSTANTS
  Passing = {}
  Instance = {i1}
  Absent = Absent
  Parameters = {p}
  Delay = 2
  Missing = Missing
  MaxTime = 1
  MaxEvents = 3
  MaxFailures = 0
PROPERTIES
  BangsStop
