SPECIFICATION Spec
CONSTANTS
  CallId <- XmlIds
  AskCalls <- Asked
  MaxNotices = 0
CHECK_DEADLOCK FALSE
INVARIANT SentOnlyIfApproved
