SPECIFICATION FairSpec
CONSTANTS
  Passing = {i1}
  Instance = {i1, i2}
  Absent = Absent
  Parameters = {p}
  Delay = 1
  Missing = Missing
  MaxTime = 4
  MaxEvents = 3
  MaxFailures = 1
PROPERTIES
  MissedBangIsMadeGood
  BangsStopWhileRequested
  AcceptedBecomesValid
