SPECIFICATION FairSpec
CONSTANTS
  Window = 1
  Share = 1
  Header = 1
  PumpBuf = 1
  Depth = 1
  Wire = 1
  Total = 4
PROPERTIES
  EofDelivered
  SenderReleased
  PumpStops
  ReceiverDropCloses
