SPECIFICATION Spec
CONSTANTS
  NotPortable <- MCNotPortable
  LowerCase <- MCLowerCase
  PathsInOrder <- MCPathsInOrder
  MaxDependencyDepth = 2
  MaxRoots = 2
  MaxAssets = 3
  MaxDependencies = 2
  MaxPathDepth = 3
  MaxEntries = 9
  MaxEdits = 2
  MaxTempoEdits = 3
  MaxInt = 7
  Periods = {1, 2, 3}
  MaxEvents = 2
  MaxStops = 3
  MaxDiagnostics = 1
  MaxObjects = 4
  MaxBehaviors = 2
  MaxTracks = 2
  MaxKeys = 3
  MaxBehaviorEvents = 6
  MaxWrites = 5
  Limits <- MCLimits
  Supported <- MCSupported
  Radix = 8
  FeatureName = 5
  DomainName = 6
  ActionName = 7
  MaxLane = 3
  PackedLimits <- MCPackedLimits
  t1 = t1
  t2 = t2
  Tool = {t1, t2}
  SavedConfigs <- MCSavedConfigs
  EditorWrites <- MCEditorWrites
  ForeignTree <- MCForeignTree
  MaxToolRuns = 3
  MaxToolFaults = 1
  MaxEditorWrites = 1
SYMMETRY Symmetry
INVARIANTS
  ToolsKeepWholes
  PackagesAreExact
  UnpackedPackagesLoad
  ChartTimeIsExact
PROPERTIES
  ChartsCompileAsWritten
  AnimationsPlayAsWritten
  PackedChartsAreExact
CHECK_DEADLOCK FALSE
