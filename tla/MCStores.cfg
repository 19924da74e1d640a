SPECIFICATION Spec
CONSTANTS
  p1 = p1
  p2 = p2
  Process = {p1, p2}
  Path <- MCPath
  Settings = {"dark", "loud"}
  MaxSaves = 3
  MaxDeaths = 1
  Source = {"png", "jpg"}
  Artifact = {"texture"}
  Convert <- MCConvert
  ImportRequests <- MCRequests
  MaxImports = 2
  MaxFaults = 1
  Prepares <- MCPrepares
  MaxPrepares = 3
  MaxPlayerCrashes = 1
  a = a
  b = b
  g1 = g1
  g2 = g2
  None = None
  Writers = {p1, p2}
  Locks = {1, 2}
  Target = {a, b}
  ParentOf <- MCParentOf
  MaxBatches = 3
  MaxCrashes = 1
  Identity = {g1, g2}
  RootLock = 1
  MaxCalls = 3
  MaxKills = 1
  MaxPowerLosses = 1
  MaxDamage = 1
SYMMETRY Symmetry
INVARIANTS
  PublishedMediaAreExact
  PreparedProgramsAreRight
  SuccessIsDurable
  FailureKeepsPair
  PublishedWhole
PROPERTIES
  PreferencesAreReplacedWhole
  LastPackageStays
