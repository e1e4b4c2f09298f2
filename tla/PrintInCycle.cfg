SPECIFICATION Spec
CONSTANTS
  MillisMod = 4
  WindowValues <- MCWindow
  CycleValues <- MCCycleValues
  CavityValues <- MCCavityValues
  LoopRunsDuringScan = TRUE
PROPERTY
  CyclePrintsNothing
