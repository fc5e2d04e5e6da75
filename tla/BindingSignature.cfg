SPECIFICATION Spec
CONSTANTS
  Order = 13
  FrModulus = 29
  U64 = 4
  SignBit = 16
  MaxActions = 2
  Nets <- MCNets
  Rcvs = {0, 5, 12, 28}
  Nonces = {3, 30}
  Digests = {1, 13, 24, 31}
CHECK_DEADLOCK FALSE
INVARIANTS
  TypeOK
  NeverPanics
  MulmodExact
  SignatureBindsBalance
