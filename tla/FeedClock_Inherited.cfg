CONSTANTS
  NULL = NULL
  a1 = a1
  a2 = a2
  DefaultTimeframe = 1
  MaxTime = 2
  Settings <- PlainOnly
SPECIFICATION Spec
CHECK_DEADLOCK FALSE
INVARIANTS
  OwnPrices
