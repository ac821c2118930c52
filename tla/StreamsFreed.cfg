SPECIFICATION FairSpec
CONSTANTS
  Most = 1
  Plans <- MCOne
  Window = 1
  MaxOwed = 1
PROPERTY ClosedFrees
CHECK_DEADLOCK FALSE
