SPECIFICATION Spec
CONSTANTS
  MillisMod = 8
  RejectMs = 2
  ConfigMs = 2
  QueueLen = 2
  MaxLag = 1
  MaxTokens = 3
  Texts = {t1}
  RoutineTexts = {t1}
INVARIANT
  RejectLeavesInTime
