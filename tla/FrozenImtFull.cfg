SPECIFICATION Spec
CONSTANTS
  P = 6
  Depth = 2
  Zero <- MCZero
  Compress <- MCCompress
  LeafHash <- MCLeafHash
INVARIANTS
  WitnessesVerify
