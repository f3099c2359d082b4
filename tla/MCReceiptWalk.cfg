SPECIFICATION Spec
CONSTANTS
  Radix = 3
  ValueBytes = 1
  MaxU64 = 5
  Width <- MCWidth
  ReceiptKey <- MCReceiptKey
  NoValue = NoValue
  Good = Good
  Malformed = Malformed
  EmptyNode <- MCEmpty
  Node <- MCNode
  Body <- MCBody
  Small <- MCSmall
  Corpora <- MCCorpora
  Reach <- MCReach
  Hashed <- MCHashed
INVARIANTS
  AcceptedIsDense
  AcceptedIsComplete
  AcceptedCorpusIsExact
PROPERTIES
  ExclusionNeverFails
  Termination
  HonestIsAccepted
CHECK_DEADLOCK FALSE
