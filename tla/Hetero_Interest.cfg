CONSTANTS
  NA = NA
  Den = 100
  Lev = 2
  FeeNum = 5
  FundNum = 1
  FloorNum = 5
  Agents = {"ann", "bob"}
  Spot = {"share", "bond"}
  Futures = {"future"}
  Bond = "bond"
  Ccy = {"USD", "EUR"}
  UnitRisk = 360
  RiskDen = 40
  Batches = {{"share", "bond", "future"}, {"bond"}}
  Gaps = {5}
  Interest = 5
  Period = 4
  Face = 10
  MaxGroups = 2
  MaxTime = 15
  Terms <- MCTerms
  Home <- MCHome
  Rate <- MCRate
  Risk <- MCRisk
  InitCash <- MCCash
  Bars <- MCBars
  Requests <- MCRequests
  Notices <- MCNotices
SPECIFICATION Spec
CHECK_DEADLOCK FALSE
INVARIANTS
  EqualHoldersEarnAlike
