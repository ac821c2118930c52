SPECIFICATION FairSpec
CONSTANTS
  Most = 2
  Plans <- MCPlans
  Window = 1
  MaxOwed = 1
INVARIANTS
  TypeOK
  TablesExact
  NeverTooEarly
  StandInsBounded
  HalfClosedReads
  CreditKept
PROPERTIES
  CleanCloseFrees
  SendersReleased
  DropReachesHolder
CHECK_DEADLOCK FALSE
