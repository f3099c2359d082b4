SPECIFICATION Spec
CONSTANTS
  Block <- MCBlock
  Hash <- MCHash
  Number <- MCNumber
  Parent <- MCParent
  Receipts <- MCReceipts
  EntrantCount = 1
  Slot = {0, 1}
  Venue <- MCVenue
  Address = {"manager", "token", "winner", "nobody"}
  ZeroAddress = "nobody"
  ZeroHash = "zero"
  SwapTopic = "swap"
  Topic = {"swap", "transfer", "p0"}
  StartBlock = 0
  SnapshotBlock = 2
  MaxU256 = 6
  Process = {p1, p2}
  Requested <- MCRequested
  BlockAnswer <- MCBlockAnswer
  ReceiptAnswer <- MCReceiptAnswer
  NoAnswer = NoAnswer
  Out = Out
  OldFile = OldFile
  Absent = Absent
  UnlinkWorks = FALSE
INVARIANTS
  CapturedChunkIsHonest
  HonestNodeSuffices
  DestinationIsWhole
PROPERTIES
  Termination
CHECK_DEADLOCK FALSE
