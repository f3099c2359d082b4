SPECIFICATION MCSpec
CONSTANTS
  Radix = 3
  ValueBytes = 1
  KeyBytes = 2
  HashSize = 9
  MaxType = 2
  MaxNodes = 5
  MaxBytes = 60
  NoValue = NoValue
  NoReceipt = NoReceipt
  Node <- MCNode
  Body <- MCBody
  Bytes <- MCBytes
  Small <- MCSmall
  Holds <- MCHolds
  Receipt <- MCReceipt
  Claims <- MCClaims
  BASE_GAS = 2
  PER_PROOF_GAS = 1
  PER_BYTE_GAS = 1
  NODE_OVERHEAD_BYTES = 2
  CALDATA_BASE_BYTES = 1
  MAX_BATCH_PROOFS = 3
  MIN_BUDGET = 3
  Input <- MCInput
  Budget = {0, 3, 4, 6, 8, 11, 12, 16, 18, 32}
INVARIANTS
  VerifiedIsCommitted
  VerifiesExactlyTheBuilt
  ReadsExactlyTheKeys
  ProofsAreKept
  BatchesFit
  BatchesAreFewest
CHECK_DEADLOCK FALSE
