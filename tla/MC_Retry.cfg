\* HashCuckoo may fail twice, and the applications repeat the call that failed.
CONSTANTS
  Lo = Lo
  Hi = Hi
  seed_size <- MCSeedSize
  output_size <- MCOutputSize
  num_noise_indices <- MCNumNoise
  NumBuckets <- MCNumBuckets
  BatchSizes <- MCBatchSizes
  RunSizes = {1, 3, 6}
  MaxCalls = 3
  MaxGenerator = 8
  MaxTrees = 8
  MixedRoles = FALSE
  MaxCuckooFailures = 2
  Retries = {Lo, Hi}
SPECIFICATION Spec
INVARIANTS NoReuse SeedsNotReturned ExpansionFits
PROPERTIES SeedsSpentOnce
CHECK_DEADLOCK FALSE
