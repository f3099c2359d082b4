SPECIFICATION ValidateSpec
CONSTANTS
  Terms <- MCTermSet
  MinEntrants = 2
  MaxEntrants = 3
  MaxU64 = 7
  DynamicFee = 8
  MaxUint256 = 1
INVARIANTS
  CliMirrorsCore
CHECK_DEADLOCK FALSE
