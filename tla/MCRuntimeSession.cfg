SPECIFICATION Spec
CONSTANTS
  None = None
  Entity <- MCEntity
  Parent <- MCParent
  Cell <- MCCell
  Limit = 8
  Charts <- MCCharts
  Frames <- MCFrames
  Overrides <- MCOverrides
  BaseWrites <- MCBaseWrites
  MaxToken = 2
  MaxReloads = 1
INVARIANTS
  PresentedIsResolved
  FailsForItsOwnInputs
PROPERTIES
  FailureKeepsWorld
