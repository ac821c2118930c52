SPECIFICATION FairSpec
CONSTANTS
  Streams = {out}
  Terminal = out
  Window = 1
  PumpBuf = 1
  Sock = 1
  Pty = 1
  Depth = 1
  Wire = 1
  Resizes = 1
PROPERTIES
  ExitReported
  HangupEndsSession
