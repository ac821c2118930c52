SPECIFICATION Spec
CONSTANTS
  Window = 3
  Share = 1
  Header = 1
  PumpBuf = 1
  Depth = 1
  Wire = 1
  Total = 6
INVARIANTS
  TypeOK
  CreditConserved
  BacklogBounded
  ReaderNeverWaits
  WholeWindowReturns
PROPERTY
  IsPipe
