SPECIFICATION FairSpec
CONSTANTS
  Instance = {i1, i2}
  Absent = Absent
  Parameters = {p, q}
  Nothing = Nothing
  Message = Message
  NoInstance = NoInstance
  MaxChanges = 3
  MaxFailures = 1
  MaxCrashes = 1
INVARIANTS
  DeployedIsTracked
  ValidRowIsServed
  VerdictOfTheSchema
PROPERTIES
  FollowsTheList
  DeploymentsConverge
