\* An object may change its role between calls; HashCuckoo may fail once, and T
\* has too few bits for the longest output; a failed call is not repeated.
CONSTANTS
  Lo = Lo
  Hi = Hi
  seed_size <- MCSeedSize
  output_size <- MCOutputSize
  num_noise_indices <- MCNumNoise
  NumBuckets <- MCNumBuckets
  BatchSizes <- MCBatchSizes
  RunSizes = {1, 6}
  MaxCalls = 3
  MaxGenerator = 7
  MaxTrees = 7
  MixedRoles = TRUE
  MaxCuckooFailures = 1
  Retries = {}
SPECIFICATION FairSpec
INVARIANTS TypeOK Correlated DimensionsAgree ProtocolOrder NoStall
PROPERTIES IdealSpec CallsFinishOrFail
CHECK_DEADLOCK FALSE
