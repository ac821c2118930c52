SPECIFICATION BridgeFairSpec
CONSTANTS
  Buf = 2
  Keys = 2
  InPty = 2
  OutPty = 2
  Room = 1
  Shared = FALSE
PROPERTY
  InputCancels
