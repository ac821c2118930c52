SPECIFICATION FairSpec
CONSTANTS
  Policies <- MCOpenPolicy
  Requests <- MCOneRequest
  FrontEnds = {TRUE}
  TermSizes = {"s1"}
  Default = "s1"
  Codes = {0, 3}
  Buffer = 2
  Resizes = 0
PROPERTIES ExitRelayed
