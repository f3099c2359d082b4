SPECIFICATION MCSpec
CONSTANTS
  Terms <- MCTermSet
  MinEntrants = 2
  MaxEntrants = 3
  MaxU64 = 7
  DynamicFee = 8
  MaxUint256 = 1
INVARIANTS
  SlotsDoNotShare
  ValidatorsAgree
  ReadsExactlyTheEncodings
  ReadsExactlyTheFrames
  HashTellsTermsApart
CHECK_DEADLOCK FALSE
