CONSTANTS
  NULL = NULL
  a1 = a1
  a2 = a2
  DefaultTimeframe = 1
  MaxTime = 3
  Settings <- WithRemovals
SPECIFICATION FairSpec
CHECK_DEADLOCK FALSE
PROPERTIES
  FeedsCatchUp
