CONSTANTS
  NA = NA
  a1 = a1
  a2 = a2
  g1 = g1
  g2 = g2
  Agents = {g1}
  Assets = {a1, a2}
  Expiry <- A2Expires
  Policy = "as_of_valuation"
  MaxStaleness = 1
  MaxTime = 3
  MaxRebalances = 2
  MaxExplicit = 0
  OrderCounts = {0, 1}
  Universes <- FullOrFirst
SPECIFICATION Spec
CHECK_DEADLOCK FALSE
INVARIANTS
  OneChain
  PendingIsOpen
  RebalanceOutcome
  TargetFillsAreLater
PROPERTIES
  ImplementsChains
