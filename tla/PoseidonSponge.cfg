SPECIFICATION SpongeSpec
CONSTANTS
  Rate = 2
  MaxLength = 5
  Zero <- MCZero
  Fr <- MCFr
  Add <- MCAdd
  Capacity <- MCCapacity
  Permute <- MCPermute
CHECK_DEADLOCK FALSE
INVARIANTS
  SpongeTypeOK
  HashOfBlocks
  LengthsSeparated
