SPECIFICATION Spec
CONSTANTS
  Streams = {out, err}
  Terminal = out
  Window = 1
  PumpBuf = 1
  Sock = 1
  Pty = 1
  Depth = 1
  Wire = 1
  Resizes = 1
INVARIANTS
  TypeOK
  OutputBeforeExit
PROPERTY IsReport
