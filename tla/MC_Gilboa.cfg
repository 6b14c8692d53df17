SPECIFICATION Spec
CONSTANTS
  num_bits = 16
  modulus_ = {0, 1, 3, 5}
  ByteBits = 2
  Inputs <- MCInputs
  Randomness <- MCRandomness
  IntMax = 40
  statistical_security_ = 4
INVARIANTS TypeOK SharesProduct MasksUniform FieldLaws
PROPERTY BothFinish
CHECK_DEADLOCK FALSE
