CONSTANTS
  r1 = r1 r2 = r2 t1 = t1 t2 = t2 p1 = p1 p2 = p2 p3 = p3 s1 = s1 s2 = s2
  d1 = d1 d2 = d2 d3 = d3 f1 = f1 f2 = f2 c1 = c1 c2 = c2 custom = custom
  Requests = {r1, r2}
  Templates <- MCTemplates
  Packs <- MCPacks
  Sessions <- MCSessions
  Defs = {d1, d2, d3}
  Types = {custom}
  Reserved = reserved
  Values = {0, 1}
  Paths = {f1, f2}
  Contents = {c1, c2}
  Bundles <- MCBundles
  Seeds <- MCSeeds
  NoDef = NoDef
  NoOwner = NoOwner
  NoPath = NoPath
SPECIFICATION Spec
SYMMETRY Symmetry
INVARIANTS TwoLevels MediaIntact
PROPERTIES OneCopy CopyKeepsShape PromoteKeepsEffective
CHECK_DEADLOCK FALSE
