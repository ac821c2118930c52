SPECIFICATION FairSpec
CHECK_DEADLOCK FALSE
CONSTANTS
  Streams = {out}
  Terminal = out
  Window = 1
  PumpBuf = 1
  Sock = 1
  Pty = 1
  Depth = 1
  Wire = 1
  Resizes = 2
PROPERTY ReaderDelivers
