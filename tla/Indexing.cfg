SPECIFICATION Spec
CONSTANTS
  U32 = 4096
  U64 = 8192
  U128 = 16384
  EncWords = 2
  Keccak <- MCKeccak
  Root <- MCRoot
  Amounts = {3}
  Scale = 10
  MaxTxs = 2
  MaxActions = 2
INVARIANTS
  TypeOK
  NotesFaithful
  AnchorServed
  CustodyAgrees
  NothingRefused
PROPERTIES
  EverythingIndexed
CHECK_DEADLOCK FALSE
