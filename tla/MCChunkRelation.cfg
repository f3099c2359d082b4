SPECIFICATION Spec
CONSTANTS
  Block <- MCBlock
  Hash <- MCHash
  Number <- MCNumber
  Parent <- MCParent
  Receipts <- MCReceipts
  EntrantCount = 3
  Slot = {0, 1, 2, 3}
  Venue <- MCVenue
  Address = {"manager", "other", "winner", "nobody"}
  ZeroAddress = "nobody"
  ZeroHash = "zero"
  SwapTopic = "swap"
  Topic = {"swap", "other", "sender", "p0", "p1", "p2", "foreign"}
  StartBlock = 0
  SnapshotBlock = 3
  MaxU256 = 6
  Frame <- MCFrame
  NoFrame = NoFrame
  MaxU64 = 8
INVARIANTS
  SegmentIsDetermined
  CountsAreExact
  JournalEncodes
  DiagnosticsAreExact
  HonestChunkIsCommitted
PROPERTIES
  ImplementsRaceVolume
CHECK_DEADLOCK FALSE
