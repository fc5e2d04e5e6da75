SPECIFICATION Spec
CONSTANTS
  Depth = 2
  Zero <- MCZero
  Compress <- MCCompress
  FieldElement <- MCFieldElement
  Readers = {r1, r2}
  Arrivals <- MCArrivals
  Modulus = 3
  U32 = 8
INVARIANTS
  TypeOK
  CacheCoherent
  AnswersMatchPrefix
PROPERTIES
  QueriesEnd
