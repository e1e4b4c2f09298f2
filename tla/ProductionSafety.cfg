SPECIFICATION Spec
CONSTANTS
  MillisMod = 4
  WindowValues <- MCWindow
  CycleValues <- MCCycleValues
  CavityValues <- MCCavityValues
  LoopRunsDuringScan = FALSE
INVARIANTS
  CountBelongsToWindow
PROPERTIES
  PrintsOnlyInWindow
  StopwatchSpec
