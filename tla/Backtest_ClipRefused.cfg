CONSTANTS
  NA = NA
  Den = 20
  TgtDen = 10
  Lev = 2
  MmrNum = 4
  MakerNum = 0
  TakerNum = 1
  FundNum = 1
  FillCost = 0
  InitCash = 600
  FillModels = {0}
  BarGap = 1
  MaxBars = 3
  Bars <- MCBars
  Intents <- MCIntents
SPECIFICATION Spec
CHECK_DEADLOCK FALSE
INVARIANTS
  FittingEntriesAreClipped
