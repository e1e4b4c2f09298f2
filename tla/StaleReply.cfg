SPECIFICATION FairSpec
CONSTANTS
  LoopRunsDuringScan = FALSE
  ReplyTimeout = 3
  PollInterval = 3
  FaultPollInterval = 1
  MaxRequests = 2
PROPERTIES
  PrintAfterLiveNormal
