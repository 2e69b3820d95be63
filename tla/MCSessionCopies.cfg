SPECIFICATION Spec
CONSTANTS
  Copies = 1
  Kinds = {"fork", "duplicate", "import"}
  Started = {3}
  MaxMsg = 4
  MaxChanges = 2
  MaxFaults = 1
INVARIANTS CopiesAreSound AnsweredCopyIsWhole DigestsStayHome
CHECK_DEADLOCK FALSE
