SPECIFICATION Spec
CONSTANTS
  num_bits = 4
  modulus_ = {0, 1}
  ByteBits = 2
  Inputs <- MCInputs
  Seeds <- MCSeeds
  Encrypted <- MCEncrypted
  kCodeGeneratorNonzeros = 2
  statistical_security_ = 0
  NumNonces = 16
  kReseedInterval = 9
INVARIANTS TypeOK WordsFresh GeneratorsAgree
PROPERTY FillEnds
CHECK_DEADLOCK FALSE
