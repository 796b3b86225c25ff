SPECIFICATION Spec
CONSTANTS
  ScanOrder <- MCScanOrder
  Paths <- MCPaths
  Folded <- MCFolded
  Settings <- MCSettings
  Starts <- MCStarts
  TextsAt <- MCTextsAt
  MaxRemote = 2
  MaxEdits = 2
INVARIANT EveryShapeApplies
