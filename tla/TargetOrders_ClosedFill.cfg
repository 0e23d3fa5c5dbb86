CONSTANTS
  NA = NA
  a1 = a1
  a2 = a2
  g1 = g1
  g2 = g2
  Agents = {g1}
  Assets = {a1, a2}
  Expiry <- NeverExpires
  Policy = "complete_universe"
  MaxStaleness = 0
  MaxTime = 3
  MaxRebalances = 2
  MaxExplicit = 0
  OrderCounts = {1}
  Universes <- FullUniverse
SPECIFICATION Spec
CHECK_DEADLOCK FALSE
INVARIANTS
  SupersededTargetsAreUnfilled
