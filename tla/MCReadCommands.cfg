SPECIFICATION Spec
CONSTANTS
  a = a
  b = b
  empty = empty
  zero = zero
  A = A
  B = B
  C = C
  weth = weth
  native = native
  manager = manager
  pool3 = pool3
  nobody = nobody
  alice = alice
  bob = bob
  transfer = transfer
  swap4 = swap4
  swap3 = swap3
  X = X
  Y = Y
  Z = Z
  Hash <- MCHash
  Block <- MCBlock
  Number <- MCNumber
  Parent <- MCParent
  Receipts <- MCReceipts
  EntrantCount = 2
  Slot = {0, 1}
  Venue <- MCVenue
  Address <- MCAddress
  ZeroAddress = nobody
  ZeroHash = zero
  SwapTopic = swap4
  Topic <- MCTopic
  StartBlock = 0
  SnapshotBlock = 2
  MaxU256 = 100
  Branches <- MCBranches
  BlockAnswers <- MCBlockAnswers
  ListAnswers <- MCListAnswers
  Expectations <- MCExpectations
  NoAnswer = NoAnswer
  MaxReorgs = 1
  V3SwapTopic = swap3
  NativeCurrency = native
  DynamicFee = 8
  BadHeader = BadHeader
  Files <- MCFiles
  Specs <- MCSpecs
  Pairs <- MCPairs
  Adapter = {X, Y, Z}
  NoAdapter = NoAdapter
  WrapperOf <- MCWrapperOf
  MetricOf <- MCMetricOf
  QuoteOf <- MCQuoteOf
  ControllerWrapper = weth
  MaxRebinds = 1
INVARIANTS
  HonestBlockIsFetched
  OutputIsOfOneBlock
  PlanAgreesWithGuest
  VerifyAgreesWithPlan
  AdapterReadsAreBound
PROPERTIES
  FetchedIsOneBlock
CHECK_DEADLOCK FALSE
