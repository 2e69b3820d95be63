SPECIFICATION Spec
CONSTANTS
  Sessions = {s1, s2}
  Requests = {r1, r2, r3}
  NoSlot = NoSlot
INVARIANT LiveIsRegistered
PROPERTY ImplementsSingleFlight
