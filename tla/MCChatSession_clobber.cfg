SPECIFICATION Spec
CONSTANTS
  Streams = {r1}
  Clients = {c1}
  Ops = {"edit"}
  Kinds = {"regen"}
  Modes = {"plain"}
  KeepRecent = {}
  Free = Free
  MaxMsg = 4
CHECK_DEADLOCK FALSE
PROPERTY RegenerateOnlyHides
