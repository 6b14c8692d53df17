\* Every valid and invalid index, and batches that T has too few bits for.
CONSTANTS
  Sizes <- MCSizes
  Indices <- MCIndices
  ValueShares = {5}
  modulus = 11
  FromUint128 <- MCFromUint128
  MaxLeaves = 9
  Roundings <- MCRoundings
SPECIFICATION FairSpec
INVARIANTS TypeOK OTsAgree TreesAgree SharesPoint
PROPERTIES BothFinish
CHECK_DEADLOCK FALSE
