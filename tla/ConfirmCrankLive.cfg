SPECIFICATION Spec
CONSTANTS
  Depth = 1
  Zero <- MCZero
  Compress <- MCCompress
  FrontierHash <- MCFrontierHash
  FieldElement <- MCFieldElement
  MaxBatch = 1
  MaxProofs = 2
  Cranks = {c1, c2}
  Arrivals <- MCTwoArrivals
  Modulus = 5
  MaxFaults = 2
PROPERTY
  EveryLeafConfirmed
