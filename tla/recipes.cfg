SPECIFICATION ProgramsSpec
CONSTANTS
  Partition = {p1}
  Root = Root
  NoContent = NoContent
  MaxExports = 2
  MaxWrites = 1
  MaxFaults = 1
  MaxDeaths = 2
  MaxChanges = 3
  MaxFailures = 2
  MaxShared = 3
  SharedSims <- SharedInstances
  Tunnel <- Networks
  Pdn <- PdnSettings
  Prefix = 2
  Serial = {0, 59, 130, 255, 1000}
  GnbIdBits = {22, 28, 32}
  Antennas = {2, 4}
  Settings <- RadioSettings
  Bandwidth = {5, 20, 100}
  Layer = {1, 2}
  Sbc = {"PD10ANS", "other"}
  Options <- ValidationOptions
  Shared <- ValidatedLists
  Schema = {"a", "b"}
  Tables <- DefaultTables
  Stream = {"stdout", "stderr"}
  MaxLines = 1
  MaxRotations = 2
  Awaited = {"f1", "f2"}
  Key = {1, 2}
  MaxValues = 6
  MaxConfigChanges = 2
  Ref = {"s1"}
  MaxStored = 2
  MaxCells = 6
  Child = {"c1", "c2"}
  Optional = {"c2"}
  Param = {"p1", "p2"}
  Request = {"r1", "r2"}
  Ssh = {"r2"}
  MaxKeys = 4
  Slave = {"s1"}
  MaxTokens = 2
  Image = {"i1", "i2"}
  Path = {"qcow2", "device"}
  Device = {"device"}
  MaxMachineChanges = 4
  MaxStarts = 3
  None = None
  NoRoom = NoRoom
  Cluster = Cluster
  Link = Link
  Bad = Bad
INVARIANTS
  ProgramsTypeOK
  RestoredIsOneExport
  StoppedProxyIsReported
  LockedCloneIsExporter
  SimsAreKeptApart
  EveryCellHasItsOwn
  ThreadsFollowTheFrame
  RefusedForAReason
  NothingIsKilledOrLost
  NothingIsMissed
  ResultIsOfTheCell
  PairsMatch
  AccessFollowsTheList
  GuestHasItsDisk
PROPERTIES
  LastExportArrives
  RotationIsFollowed
  ServicesKeepTheirValue
  PublicationConverges
  FrontendsConverge
  MandatoryValuesArrive
CHECK_DEADLOCK FALSE
