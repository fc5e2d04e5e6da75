SPECIFICATION GrainSpec
CONSTANTS
  NumBits = 5
  Modulus = 19
  Seeds <- MCSeeds
  Constants = 4
  Elements = 6
CHECK_DEADLOCK FALSE
INVARIANTS
  GrainTypeOK
  RegisterIsStream
  ElementsOfStream
