\* Every team of up to 3 threads, over 4 inputs, 2 buckets and 2 hash functions.
CONSTANTS
  NumInputs = 4
  BucketCount = 2
  num_hash_functions = 2
  MaxThreads = 3
SPECIFICATION FairHashSimple
INVARIANTS HashSimpleTypeOK Deterministic
PROPERTIES TeamFinishes
CHECK_DEADLOCK FALSE
