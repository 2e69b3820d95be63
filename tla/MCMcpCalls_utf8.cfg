SPECIFICATION Spec
CONSTANTS
  CallId <- NativeIds
  AskCalls = {}
  MaxNotices = 0
CHECK_DEADLOCK FALSE
INVARIANT Utf8IsRead
