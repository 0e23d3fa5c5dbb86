CONSTANTS
  NA = NA
  a1 = a1
  a2 = a2
  g1 = g1
  g2 = g2
  Agents = {g1, g2}
  Assets = {a2}
  Expiry <- A2ExpiresLast
  Policy = "complete_universe"
  MaxStaleness = 0
  MaxTime = 4
  MaxRebalances = 2
  MaxExplicit = 1
  OrderCounts = {0, 2}
  Universes <- FullUniverse
SPECIFICATION Spec
CHECK_DEADLOCK FALSE
SYMMETRY AgentSymmetry
INVARIANTS
  TypeOK
  FillLedgerAgrees
  SupersededByNewer
  ExpiredAreQuiet
PROPERTIES
  OutcomesAreFinal
  AgentsAreIsolated
