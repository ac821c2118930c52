SPECIFICATION FairSpec
CONSTANTS
  Messages <- SessionMessages
  Config = 2
  Header = 2
  SockBuf = 2
  MaxScmFds = 3
  Buf = 1
  Keys = 1
  InPty = 1
  OutPty = 1
  Room = 1
  Shared = TRUE
INVARIANTS
  TypeOK
  Served
PROPERTIES
  IsQueue
  IsReport
  KeysStay
  ConfigEnds
  HangupEndsProgram
  SessionEnds
  OutputFlows
