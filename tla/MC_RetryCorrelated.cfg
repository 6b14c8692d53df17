\* A repeated call after a cuckoo failure (violated).
CONSTANTS
  Lo = Lo
  Hi = Hi
  seed_size <- MCSeedSize
  output_size <- MCOutputSize
  num_noise_indices <- MCNumNoise
  NumBuckets <- MCNumBuckets
  BatchSizes <- MCBatchSizes
  RunSizes = {1, 3, 6}
  MaxCalls = 3
  MaxGenerator = 8
  MaxTrees = 8
  MixedRoles = FALSE
  MaxCuckooFailures = 1
  Retries = {Lo, Hi}
SPECIFICATION Spec
INVARIANTS Correlated
CHECK_DEADLOCK FALSE
