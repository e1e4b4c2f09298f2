SPECIFICATION FairSpec
CONSTANTS
  MillisMod = 3
  WindowValues <- MCWindow
  CycleValues <- MCCycleValues
  CavityValues <- MCTwoCavities
  LoopRunsDuringScan = TRUE
INVARIANTS
  TypeOK
  PausedExactlyWhileFaulted
  WaitMeansPrinterReady
PROPERTIES
  WindowsEnd
  HealthyLineLeavesError
  OutageHoldsProduction
