SPECIFICATION FairSpec
CONSTANTS
  MillisMod = 8
  RejectMs = 2
  ConfigMs = 2
  QueueLen = 2
  MaxLag = 1
  MaxTokens = 3
  Texts = {t1, t2}
  RoutineTexts = {t1}
INVARIANTS
  TypeOK
  MessageIsHighest
PROPERTIES
  ConfirmationsInTurn
  RejectsEnd
  ConfirmationsEnd
