SPECIFICATION FairSpec
CONSTANTS
  Streams = {r1, r2}
  Clients = {}
  Ops = {}
  Kinds = {"send"}
  Modes = {"plain", "agent"}
  KeepRecent = {0}
  Free = Free
  MaxMsg = 6
CHECK_DEADLOCK FALSE
INVARIANT OneSummaryPerCutoff
PROPERTIES StopEnds ClaimReleased
