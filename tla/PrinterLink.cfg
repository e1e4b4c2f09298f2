SPECIFICATION FairSpec
CONSTANTS
  LoopRunsDuringScan = TRUE
  ReplyTimeout = 3
  PollInterval = 3
  FaultPollInterval = 1
  MaxRequests = 3
PROPERTIES
  PrintAfterNormal
  DeadPrinterFlagged
  RecoveryNoticed
