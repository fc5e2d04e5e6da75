SPECIFICATION Spec
CONSTANTS
  Depth = 2
  Zero <- MCZero
  Compress <- MCCompress
  FrontierHash <- MCFrontierHash
  FieldElement <- MCFieldElement
  MaxBatch = 2
  MaxProofs = 2
  Cranks = {c1, c2}
  Arrivals <- MCArrivals
  Modulus = 5
  MaxFaults = 2
INVARIANTS
  TypeOK
  ConfirmedPrefix
  CranksFollowChain
  RevertsOnlyWhenStale
  PlansGoThrough
PROPERTIES
  ImplementsConfirmedLog
