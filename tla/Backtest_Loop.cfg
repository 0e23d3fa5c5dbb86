CONSTANTS
  NA = NA
  Den = 20
  TgtDen = 10
  Lev = 2
  MmrNum = 4
  MakerNum = 0
  TakerNum = 1
  FundNum = 1
  FillCost = 1
  InitCash = 600
  FillModels = {0, 1}
  BarGap = 1
  MaxBars = 4
  Bars <- MCBars
  Intents <- MCIntents
SPECIFICATION FairSpec
CHECK_DEADLOCK FALSE
INVARIANTS
  TypeOK
  CashReconciles
  PositionReconciles
  OnlyIncreasesFail
  DecisionsExecuteOnce
  SolventBetweenBars
PROPERTIES
  EntriesAreClipped
  LiquidationIsFinal
  Terminates
