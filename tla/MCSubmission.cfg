SPECIFICATION MCSpec
CONSTANTS
  Command = {c1, c2}
  Plan <- MCPlan
  Adapter = Adapter
  Controller = Controller
  Stranger = Stranger
  User = User
  Other = Other
  Estimate = {9, 10, 20}
  GasLimit = {NoFlag, 12}
  NoFlag = NoFlag
  GasPrice = 2
  SpendCap = 20
  ClaimGas = 9
  Endpoints = 2
  MaxNonce = 1
  u1 = u1
  u2 = u2
  u3 = u3
  Urls <- MCUrls
  Request = {r1, r2}
  Nullable = {r2}
  Block = 2
  MaxTime = 5
SYMMETRY MCSymmetry
INVARIANTS
  OneTransactionPerCommand
  BroadcastWasAccepted
  SentWithinLimits
  ConfirmedIsTheSubmission
  ResultsAreFromTheChain
  PassedEndpointsFailed
CHECK_DEADLOCK FALSE
