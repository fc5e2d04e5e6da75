SPECIFICATION Spec
CONSTANTS
  Modulus = 13
  T = 3
  Draws = {1, 2, 3, 5, 7, 11}
  SecureMds = 1
  FullRounds = 2
  PartialRounds = 2
  RoundConstants <- MCRoundConstants
  Inputs <- MCInputs
CHECK_DEADLOCK FALSE
INVARIANTS
  TypeOK
  Separable
  InverseCorrect
  RoundsInvertible
