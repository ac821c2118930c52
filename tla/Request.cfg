SPECIFICATION FairSpec
CONSTANTS
  Policies <- MCPolicies
  Requests <- MCRequests
  FrontEnds = {TRUE, FALSE}
  TermSizes = {"s1", "s2", "s3"}
  Default = "s1"
  Codes = {0, 3}
  Buffer = 2
  Resizes = 2
INVARIANTS TypeOK ChallengeWins
PROPERTIES IsCapability Answered ExitReported HangupEndsProgram ResizeArrives
