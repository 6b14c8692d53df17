\* Two calls, each after any UpdateBuckets of either end.
CONSTANTS
  Hashes <- MCHashes
  NumBuckets <- MCNumBuckets
  OutputSizes = {2, 3}
  IndexLists <- MCIndexLists
  Scalars = {1, 2}
  modulus = 5
  MaxCalls = 2
SPECIFICATION Spec
INVARIANTS TypeOK SizesAgree SharesProduct
CHECK_DEADLOCK FALSE
