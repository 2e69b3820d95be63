SPECIFICATION Spec
CONSTANTS
  CallId <- NativeIds
  AskCalls <- Asked
  MaxNotices = 1
CHECK_DEADLOCK FALSE
INVARIANTS SentOnlyIfApproved AnswersMatchCalls NoZombies
PROPERTY EveryCallReturns
