\* A second precomputation that fails (violated).
CONSTANTS
  Lo = Lo
  Hi = Hi
  seed_size <- MCSeedSize
  output_size <- MCOutputSize
  num_noise_indices <- MCNumNoise
  NumBuckets <- MCNumBuckets
  BatchSizes <- MCBatchSizes
  RunSizes = {1, 6}
  MaxCalls = 3
  MaxGenerator = 7
  MaxTrees = 8
  MixedRoles = FALSE
  MaxCuckooFailures = 0
  Retries = {}
SPECIFICATION Spec
INVARIANTS GeneratorFilled
CHECK_DEADLOCK FALSE
