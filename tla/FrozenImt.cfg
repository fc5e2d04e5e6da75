SPECIFICATION Spec
CONSTANTS
  P = 6
  Depth = 3
  Zero <- MCZero
  Compress <- MCCompress
  LeafHash <- MCLeafHash
INVARIANTS
  TypeOK
  SortedList
  RebuildExact
  WitnessesVerify
PROPERTY
  ImplementsFrozenSet
