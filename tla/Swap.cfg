SPECIFICATION SwapSpec
CONSTANTS
  U32 = 4096
  U64 = 8192
  U128 = 16384
  EncWords = 2
  Keccak <- MCKeccak
  Swaps = {1, 2}
  Deadline = 1
INVARIANTS
  SwapTypeOK
  IdsAgree
  LegsSurvive
PROPERTIES
  SettledInTime
CHECK_DEADLOCK FALSE
