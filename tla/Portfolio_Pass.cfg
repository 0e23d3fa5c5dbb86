CONSTANTS
  NA = NA
  Den = 20
  Lev = 2
  MakerNum = 0
  TakerNum = 1
  FundNum = 1
  FillCost = 0
  NAssets = 2
  FloorNum = 2
  InitCash = 300
  MaxOpen = 2
  MaxOrders = 3
  MaxBoundary = 3
  Settling = {TRUE, FALSE}
  Risk <- MCRisk
  Bars <- MCBars
  Orders <- MCOrders
SPECIFICATION Spec
CHECK_DEADLOCK FALSE
INVARIANTS
  TypeOK
  EquityIsExplained
  CoveredOrEmpty
  LedgerReconciles
PROPERTIES
  FillsAreClipped
