SPECIFICATION Spec
CONSTANTS
  p1 = p1
  p2 = p2
  Process = {p1, p2}
  Path <- MCPath
  Settings = {"dark", "loud"}
  MaxSaves = 0
  MaxDeaths = 1
  Source = {"png", "jpg"}
  Artifact = {"texture"}
  Convert <- MCConvert
  ImportRequests <- MCRequests
  MaxImports = 0
  MaxFaults = 1
  Prepares <- MCPrepares
  MaxPrepares = 0
  MaxPlayerCrashes = 1
  a = a
  b = b
  g1 = g1
  g2 = g2
  None = None
  Writers = {p1, p2}
  Locks = {1, 2}
  Target = {a, b}
  ParentOf <- MCParentOf
  MaxBatches = 3
  MaxCrashes = 0
  Identity = {g1, g2}
  RootLock = 1
  MaxCalls = 0
  MaxKills = 1
  MaxPowerLosses = 1
  MaxDamage = 1
INVARIANT NeverHalfUpdated
