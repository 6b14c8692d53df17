\* One index, and outputs of 2 or 3 elements.
CONSTANTS
  Hashes <- MCHashes
  NumBuckets <- MCNumBuckets
  OutputSizes = {2, 3}
  IndexLists <- OneIndex
  Scalars = {1, 2}
  modulus = 5
  MaxCalls = 1
SPECIFICATION Spec
INVARIANTS OutOfRangeRefused
CHECK_DEADLOCK FALSE
