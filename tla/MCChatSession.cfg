SPECIFICATION Spec
CONSTANTS
  Streams = {r1, r2}
  Clients = {c1}
  Ops = {"delete", "switch", "drop", "unhide"}
  Kinds = {"send", "regen"}
  Modes = {"plain"}
  KeepRecent = {1}
  Free = Free
  MaxMsg = 5
SYMMETRY Symmetry
CHECK_DEADLOCK FALSE
INVARIANTS TreeSound ReplySitsOnItsPrompt NothingAfterDrop SummaryIsPrefix SummaryFillsTheCut
